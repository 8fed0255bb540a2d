---------------------------- MODULE MCConsoleTables ----------------------------
(* ConsoleTables with texts at the boundaries of each encoding, all short    *)
(* texts of letters, blanks and newlines, and a cache that keeps three names.*)
EXTENDS ConsoleTables

\* 255 and 256 are the last of the table and the first of the sorted list.
MCCodepoint == {63, 65, 160, 255, 256, 9608, 128512}
MCCp437     == (63 :> 63) @@ (65 :> 65) @@ (152 :> 255) @@ (219 :> 9608) @@ (255 :> 160)
MCSheet     == {[columns |-> 32, rows |-> 8], [columns |-> 8, rows |-> 8]}
MCIndex     == {-1, 63, 255}

\* Surrogates in pairs and alone, and the codepoints on both sides of a border
\* of UTF-8, of UTF-16 and of what counts as text, with what they spell.
MCUnits ==
  {[units |-> << 65, 55357, 56832, 9608 >>, reads |-> << 65, 128512, 9608 >>],
   [units |-> << 31, 32, 63, 127, 159, 160 >>, reads |-> << 32, 63, 160 >>],
   [units |-> << 56832, 65, 55357, 63, 56832 >>, reads |-> << 65, 63 >>],
   [units |-> << 55357, 55296, 56320, 56319, 57343 >>, reads |-> << 65536, 1114111 >>],
   [units |-> << 255, 256, 2047, 2048, 65535 >>, reads |-> << 255, 256, 2047, 2048, 65535 >>],
   [units |-> << 55295, 57344, 63231, 63232, 63743, 63744 >>, reads |-> << 55295, 57344, 63231, 63744 >>]}

\* 31 bytes fit an event.
MCComposed ==
  {[text |-> << 160, 128512, 65 >>, reads |-> << 160, 128512, 65 >>],
   [text |-> [i \in 1 .. 10 |-> 9608] \o << 65 >>, reads |-> [i \in 1 .. 10 |-> 9608] \o << 65 >>],
   [text |-> [i \in 1 .. 10 |-> 9608] \o << 255 >>, reads |-> << >>]}

MCStrings == UNION {[1 .. n -> {10, 65, 128, 194, 226, 240, 255}] : n \in 1 .. 4}

\* Letters tell their places apart.
MCTexts == UNION {{[i \in 1 .. n |-> IF kind[i] = "letter" THEN 96 + i ELSE
                      IF kind[i] = "blank" THEN Blank ELSE Newline] :
                     kind \in [1 .. n -> {"letter", "blank", "newline"}]} : n \in 0 .. 6}

Interchangeable == Permutations(Name \ (LongName \cup Absent \cup Contextual))
===============================================================================
