-------------------------------- MODULE Tileset --------------------------------
(***************************************************************************)
(* Which tile of a sheet shows a codepoint (console/nack_tileset.cpp): a   *)
(* table for the codepoints below 256, a sorted list for the others,       *)
(* seeded from the layout of the sheet and changed by map and map_range.   *)
(*                                                                         *)
(* Codepoints nobody asks about are left out; the rest keep their numbers. *)
(***************************************************************************)
EXTENDS Text, FiniteSetsExt

CONSTANTS
  Codepoint, \* those the program maps, types and draws
  Cp437,     \* nack__cp437, where it names one of them: place -> codepoint
  Sheet,     \* [columns, rows] of the sheets, in tiles
  Index      \* indices the program asks for

ASSUME TilesetAssumption ==
  /\ Codepoint \subseteq Nat /\ Index \subseteq Int
  /\ DOMAIN Cp437 \subseteq 0 .. 255 /\ \A i \in DOMAIN Cp437 : Cp437[i] \in Codepoint
  /\ Sheet \subseteq [columns : Nat \ {0}, rows : Nat \ {0}]

VARIABLES
  tiles,  \* nack_tileset: [count, direct, sparse]
  wanted  \* history: codepoint -> the index it was last mapped to, Unmapped

tilesetVars == <<tiles, wanted>>

Unmapped == -1
Direct   == {cp \in Codepoint : cp < 256}

-----------------------------------------------------------------------------
\* std::lower_bound over the list
LowerBound(sparse, cp) ==
  LET at == {i \in DOMAIN sparse : sparse[i].cp >= cp}
  IN IF at = {} THEN Len(sparse) + 1 ELSE Min(at)

\* Mutant: what is new goes to the end.
SparseSetAtEnd(t, cp, index) ==
  LET at == LowerBound(t.sparse, cp)
  IN IF at <= Len(t.sparse) /\ t.sparse[at].cp = cp
     THEN [t EXCEPT !.sparse[at].index = index]
     ELSE [t EXCEPT !.sparse = Append(@, [cp |-> cp, index |-> index])]

\* nack__sparse_set
SparseSet(t, cp, index) ==
  LET at == LowerBound(t.sparse, cp)
  IN IF at <= Len(t.sparse) /\ t.sparse[at].cp = cp
     THEN [t EXCEPT !.sparse[at].index = index]
     ELSE [t EXCEPT !.sparse = InsertAt(@, at, [cp |-> cp, index |-> index])]

\* nack_tileset::index_for
IndexFor(t, cp) ==
  LET at == LowerBound(t.sparse, cp)
  IN IF cp < 256 THEN t.direct[cp]
     ELSE IF at <= Len(t.sparse) /\ t.sparse[at].cp = cp THEN t.sparse[at].index
     ELSE Unmapped

Fits(t, index) == index >= 0 /\ index < t.count

\* nack_tileset::map
Mapped(t, cp, index) ==
  IF ~Fits(t, index) THEN t
  ELSE IF cp < 256 THEN [t EXCEPT !.direct[cp] = index]
  ELSE SparseSet(t, cp, index)

\* nack_tileset::map_range: the codepoints before the first that fails stay
\* mapped.  Indices only grow, so the first either fails or those past the
\* last tile do.
RangeMapped(t, first, last, index) ==
  IF ~Fits(t, index) THEN t
  ELSE FoldLeft(LAMBDA so, cp : Mapped(so, cp, index + cp - first), t,
                SetToSortSeq(Codepoint \cap first .. last, <))

-----------------------------------------------------------------------------
\* The index each layout gives the codepoint at a place of the code page.
Place(layout, sheet, i) ==
  IF layout = "tcod" THEN (i % sheet.rows) * sheet.columns + (i \div sheet.rows) ELSE i

\* from_rgba.  The second loop for CP437 finds nothing left to do.
Seeded(layout, sheet) ==
  LET count == sheet.columns * sheet.rows
      empty == [count |-> count, direct |-> [cp \in Direct |-> Unmapped], sparse |-> << >>]
  IN IF layout = "none"
     THEN [empty EXCEPT !.direct = [cp \in Direct |-> IF cp < count THEN cp ELSE Unmapped]]
     ELSE FoldLeft(LAMBDA so, i : Mapped(so, Cp437[i], Place(layout, sheet, i)), empty,
                   SetToSortSeq({i \in DOMAIN Cp437 : i < count}, <))

\* What each layout promises of a codepoint: its place on the sheet.
FirstAsked(layout, sheet, cp) ==
  LET named  == {i \in DOMAIN Cp437 : layout # "none" /\ Cp437[i] = cp}
      itself == IF layout = "none" /\ cp < 256 THEN {cp} ELSE {}
      places == {i \in named \cup itself : i < sheet.columns * sheet.rows}
  IN IF places = {} THEN Unmapped ELSE Place(layout, sheet, Max(places))

TilesetInit ==
  \E layout \in {"cp437", "tcod", "none"}, sheet \in Sheet :
    /\ tiles = Seeded(layout, sheet)
    /\ wanted = [cp \in Codepoint |-> FirstAsked(layout, sheet, cp)]

Map(cp, index) ==
  /\ tiles' = Mapped(tiles, cp, index)
  /\ wanted' = IF Fits(tiles, index) THEN [wanted EXCEPT ![cp] = index] ELSE wanted

MapRange(first, last, index) ==
  /\ first <= last
  /\ tiles' = RangeMapped(tiles, first, last, index)
  /\ wanted' = [cp \in Codepoint |->
                  IF index >= 0 /\ cp \in first .. last /\ index + cp - first < tiles.count
                  THEN index + cp - first ELSE wanted[cp]]

TilesetNext ==
  \E cp \in Codepoint, index \in Index :
    Map(cp, index) \/ \E last \in Codepoint : MapRange(cp, last, index)

\* nack__render_console: the tile a cell's glyph is drawn with, a question
\* mark for want of one.
DrawnTile(glyph) ==
  IF glyph \in {0, Blank} THEN Unmapped
  ELSE LET own == IndexFor(tiles, glyph)
       IN IF own >= 0 THEN own ELSE IndexFor(tiles, 63)
===============================================================================
