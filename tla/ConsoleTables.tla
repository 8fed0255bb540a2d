----------------------------- MODULE ConsoleTables -----------------------------
(***************************************************************************)
(* The computations of libnack that no other thread, message or callback   *)
(* takes part in: text printed into the cells of a console, the tiles that *)
(* show it, and the cache of entry points behind the renderer.  Text and   *)
(* tiles meet in what a typed character looks like; the cache has nothing  *)
(* to do with them, and a behaviour is about one subject.                  *)
(*                                                                         *)
(* Colours, and cells that hold a tile of their own, are left out.         *)
(***************************************************************************)
EXTENDS Tileset, EntryPoints

CONSTANTS
  Columns, Rows, \* size of the console
  Units,         \* typed on Windows: [units, reads], UTF-16 units and the
                 \* codepoints of the text they spell
  Composed,      \* from an input method: [text, reads], codepoints and those
                 \* of them that one event has room for, all or none
  Strings,       \* byte strings a program prints
  Texts,         \* texts, as codepoints, a program wraps
  Widths,        \* widths it wraps them to
  MaxMaps        \* bound: changes of the codepoint map

VARIABLES
  subject, \* "typing", "wrapping" or "names"
  cells,   \* nack_console.cells: the glyph at <<x, y>>
  call,    \* history: the last call that drew, and what it was asked
  maps     \* changes of the map so far

drawVars == <<cells, call>>
vars == <<subject, cells, call, maps, tilesetVars, cacheVars>>

Grid  == (0 .. Columns - 1) \X (0 .. Rows - 1)
Clear == [at \in Grid |-> Blank]

-----------------------------------------------------------------------------
(* nack_console *)

\* nack_console::put for each place of `glyphs`: outside the console nothing
\* happens.
Put(grid, glyphs) == [at \in Grid |-> IF at \in DOMAIN glyphs THEN glyphs[at] ELSE grid[at]]

\* nack_console::print: one line, up to a newline or the edge.
Printed(drawn, bytes) ==
  LET cps     == Decode(bytes)
      line    == SubSeq(cps, 1, SelectInSeq(cps \o << Newline >>, LAMBDA cp : cp = Newline) - 1)
      written == Min({Len(line), Columns - drawn.x})
  IN [grid |-> Put(drawn.grid, [at \in (drawn.x .. drawn.x + written - 1) \X {0} |->
                                  line[at[1] - drawn.x + 1]]),
      x |-> drawn.x + written]

\* A program that prints each text_event behind the one before.
Echo(events) == FoldLeft(Printed, [grid |-> Clear, x |-> 0], events).grid

\* window_proc, WM_CHAR: one event for each codepoint that is text.
TypeUnits(typing) ==
  LET text == SelectSeq(FromUnits(typing.units), CodepointIsText)
  IN /\ cells' = Echo([i \in DOMAIN text |-> TextEvent(Utf8Encode(text[i]))])
     /\ call' = [op |-> "typed", reads |-> typing.reads]

\* nack__wl_emit_text_for, and its like on X11: what compose gives is one event,
\* and none when it does not fit the buffer.
TypeComposed(typing) ==
  LET bytes == Encode(typing.text)
  IN /\ cells' = Echo(IF Len(bytes) < EventBytes THEN << TextEvent(bytes) >> ELSE << >>)
     /\ call' = [op |-> "typed", reads |-> typing.reads]

PrintString(bytes) ==
  /\ cells' = Echo(<< bytes >>)
  /\ call' = [op |-> "print", bytes |-> bytes]

\* nack_console::print_wrapped at the corner of a cleared console; with a
\* height of 0 it only measures.
PrintWrapped(text, width, height) ==
  LET lines == Wrapped(text, width)
      Here(at) == {i \in DOMAIN lines.put : lines.put[i] = [row |-> at[2], column |-> at[1]]}
      drawn == {at \in Grid : at[2] < height /\ Here(at) # {}}
  IN /\ cells' = Put(Clear, [at \in drawn |-> text[CHOOSE i \in Here(at) : TRUE]])
     /\ call' = [op |-> "wrap", text |-> text, width |-> width, height |-> height, rows |-> lines.rows]

-----------------------------------------------------------------------------
Init ==
  /\ subject \in {"typing", "wrapping", "names"}
  /\ cells = Clear /\ call = [op |-> "none"] /\ maps = 0
  /\ IF subject = "typing" THEN TilesetInit
     ELSE tiles = Seeded("none", CHOOSE s \in Sheet : TRUE) /\ wanted = [cp \in Codepoint |-> Unmapped]
  /\ IF subject = "names" THEN CacheInit
     ELSE /\ hash = [n \in Name \ LongName |-> 0] /\ slots = Emptied /\ count = 0
          /\ layer = [up |-> FALSE, session |-> 0, context |-> FALSE]
          /\ said = Silent /\ answer = NoAnswer

\* Bound: one text a behaviour; it is drawn on a cleared console, so what was
\* there before would not matter.
Fresh == call.op = "none"

Typing ==
  /\ subject = "typing"
  /\ \/ maps < MaxMaps /\ maps' = maps + 1 /\ TilesetNext /\ UNCHANGED drawVars
     \/ Fresh /\ (\E typing \in Units : TypeUnits(typing)) /\ UNCHANGED <<maps, tilesetVars>>
     \/ Fresh /\ (\E typing \in Composed : TypeComposed(typing)) /\ UNCHANGED <<maps, tilesetVars>>
  /\ UNCHANGED <<subject, cacheVars>>

Wrapping ==
  /\ subject = "wrapping" /\ Fresh
  /\ \/ \E bytes \in Strings : PrintString(bytes)
     \/ \E text \in Texts, width \in Widths, height \in {0, Rows} : PrintWrapped(text, width, height)
  /\ UNCHANGED <<subject, maps, tilesetVars, cacheVars>>

Names ==
  /\ subject = "names" /\ CacheNext
  /\ UNCHANGED <<subject, maps, drawVars, tilesetVars>>

Next == Typing \/ Wrapping \/ Names

Spec == Init /\ [][Next]_vars

-----------------------------------------------------------------------------
(* Properties *)

\* What is typed ends as the same characters in the cells of the first line, a
\* place each, drawn with the tile the program last asked for or else with the
\* question mark's, and a blank with none, over UTF-16, UTF-8, the event's buffer
\* and the sorted list (nack.cpp:289, nack_win32.cpp:600, nack_tileset.cpp:66, nack_render.cpp:174).
TypedIsDrawn ==
  call.op = "typed" =>
    \A x \in 0 .. Columns - 1 :
      LET cp    == cells[<<x, 0>>]
          asked == IF cp \in Codepoint THEN wanted[cp] ELSE Unmapped
      IN IF x < Len(call.reads)
         THEN /\ cp = call.reads[x + 1]
              /\ DrawnTile(cp) = IF cp = Blank THEN Unmapped
                                 ELSE IF asked >= 0 THEN asked ELSE wanted[63]
         ELSE cp = Blank

\* How UTF-8 spells a number in n bytes: the high bits over the least lead byte
\* of that length, then six bits a byte.  The reference of the decoder.
LeastLead == << 0, 192, 224, 240 >>
LeadRoom  == << 128, 32, 16, 8 >>

Spelling(bytes) ==
  LET n == Len(bytes)
  IN /\ bytes[1] \in LeastLead[n] .. LeastLead[n] + LeadRoom[n] - 1
     /\ \A k \in 2 .. n : bytes[k] \in 128 .. 191

Spelled(bytes) ==
  FoldLeft(LAMBDA high, b : high * 64 + b - 128, bytes[1] - LeastLead[Len(bytes)], Tail(bytes))

\* "Invalid bytes yield U+FFFD and consume one byte, so bad input cannot stall
\* the loop" (nack_console.cpp:14), where invalid means that no spelling starts
\* there: each step of the decoder takes one spelling whole, as the number it
\* spells, or one byte, and print shows just that up to a newline or the edge.
\* Longer spellings than a number needs, surrogates and numbers above U+10FFFF
\* are taken as they are (nack_console.cpp:25).
DecodingLosesNothing ==
  call.op = "print" =>
    LET s     == call.bytes
        steps == Steps(s)
        Here(at) == {bytes \in {SubSeq(s, at, last) : last \in at .. Min({at + 3, Len(s)})} :
                       Spelling(bytes)}
        Ends == {i \in DOMAIN steps : steps[i].cp = Newline} \cup {Len(steps) + 1}
    IN /\ \A i \in DOMAIN steps :
            IF Here(steps[i].at) = {}
            THEN steps[i].cp = Unreadable /\ steps[i].next = steps[i].at + 1
            ELSE \E bytes \in Here(steps[i].at) :
                   steps[i].cp = Spelled(bytes) /\ steps[i].next = steps[i].at + Len(bytes)
       /\ \A x \in 0 .. Columns - 1 :
            cells[<<x, 0>>] = IF x + 1 < Min(Ends) THEN steps[x + 1].cp ELSE Blank

TextSurvives == TypedIsDrawn /\ DecodingLosesNothing

\* Wrapped text reads as the text does: in order and within the width, a line
\* ended only by a newline or by a word that had no room left on it, and no
\* word broken that fits a line; measuring tells the lines drawing needs, and
\* no more, and drawing puts each character there ("Wraps on whitespace, breaking mid-word
\* only when a word cannot fit on a line of its own", nack_console.cpp:214).
WrapsWell ==
  call.op = "wrap" =>
    LET text    == call.text
        width   == call.width
        put     == Wrapped(text, width).put
        Letters == {i \in DOMAIN text : text[i] \notin {Blank, Newline}}
        Breaks(i, j) == Cardinality({k \in i .. j : text[k] = Newline})
        Follow(j, i) == j < i /\ Letters \cap (j + 1 .. i - 1) = {}
    IN /\ DOMAIN put = Letters
       /\ \A i \in Letters : put[i].column < width
       /\ \A i \in Letters : Letters \cap (1 .. i - 1) = {} =>
            put[i] = [row |-> Breaks(1, i), column |-> 0]
       /\ \A i \in Letters : Letters \cap (i + 1 .. Len(text)) = {} =>
            call.rows = put[i].row + Breaks(i, Len(text)) + 1
       /\ Letters = {} => call.rows = Breaks(1, Len(text)) + 1
       /\ \A j, i \in Letters : Follow(j, i) =>
            IF put[i].row = put[j].row
            THEN Breaks(j, i) = 0 /\ put[i].column = put[j].column + (i - j)
            ELSE /\ put[i].row = put[j].row + Max({1, Breaks(j, i)})
                 /\ put[i].column = 0
                 /\ LET length == IF StartsWord(text, i) THEN WordLength(text, i) ELSE 1
                    IN Breaks(j, i) = 0 => put[j].column + (i - j) + length > width
       /\ \A i \in Letters : StartsWord(text, i) /\ WordLength(text, i) <= width =>
            put[i + WordLength(text, i) - 1].row = put[i].row
       /\ \A at \in Grid :
            LET here == {i \in Letters : put[i] = [row |-> at[2], column |-> at[1]]}
            IN IF at[2] < call.height /\ here # {}
               THEN \A i \in here : cells[at] = text[i] ELSE cells[at] = Blank
===============================================================================
