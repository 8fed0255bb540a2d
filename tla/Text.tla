--------------------------------- MODULE Text ---------------------------------
(***************************************************************************)
(* Text on its way from a keyboard or a program to the cells of a console: *)
(* UTF-16 units, codepoints, UTF-8 bytes, lines.  Pure operators; numbers  *)
(* are the code's, so that its boundaries are.                             *)
(*                                                                         *)
(* A C string is a sequence of bytes 1..255, with the NUL after its end.   *)
(***************************************************************************)
EXTENDS Integers, Sequences, SequencesExt

Blank      == 32
Newline    == 10
Unreadable == 65533    \* U+FFFD
EventBytes == 32       \* sizeof nack_win_event.data.text.utf8

\* nack__utf8_encode, without the NUL it ends with
Utf8Encode(cp) ==
  LET Six(shift) == 128 + ((cp \div shift) % 64)
  IN CASE cp < 128                 -> << cp >>
       [] cp \in 128 .. 2047       -> << 192 + (cp \div 64), Six(1) >>
       [] cp \in 2048 .. 65535     -> << 224 + (cp \div 4096), Six(64), Six(1) >>
       [] OTHER                    -> << 240 + (cp \div 262144), Six(4096), Six(64), Six(1) >>

Byte(s, i) == IF i <= Len(s) THEN s[i] ELSE 0

\* Continuation bytes that follow a lead byte, -1 for a byte that leads nothing.
Extra(lead) ==
  CASE lead < 128       -> 0
    [] lead \div 32 = 6  -> 1
    [] lead \div 16 = 14 -> 2
    [] lead \div 8 = 30  -> 3
    [] OTHER             -> -1

Payload(lead) ==
  CASE lead < 128       -> lead
    [] lead \div 32 = 6  -> lead % 32
    [] lead \div 16 = 14 -> lead % 16
    [] OTHER             -> lead % 8

\* nack__utf8_next: overlong forms and encoded surrogates pass.
Utf8Next(s, at) ==
  LET extra == Extra(s[at])
      value[i \in 0 .. extra] ==
        IF i = 0 THEN Payload(s[at]) ELSE value[i - 1] * 64 + (Byte(s, at + i) % 64)
  IN IF extra >= 0 /\ \A i \in 1 .. extra : Byte(s, at + i) \div 64 = 2
     THEN [cp |-> value[extra], next |-> at + extra + 1]
     ELSE [cp |-> Unreadable, next |-> at + 1]

\* What the loop `while (*cursor)` round nack__utf8_next reads: one record
\* [cp, at, next] a step.
Steps(s) ==
  LET from[at \in 1 .. Len(s) + 4] ==
        IF at > Len(s) THEN << >>
        ELSE LET one == Utf8Next(s, at)
             IN << [cp |-> one.cp, at |-> at, next |-> one.next] >> \o from[one.next]
  IN from[1]

Decode(s) == LET steps == Steps(s) IN [i \in DOMAIN steps |-> steps[i].cp]

Encode(cps) == FlattenSeq([i \in DOMAIN cps |-> Utf8Encode(cps[i])])

\* nack__codepoint_is_text
CodepointIsText(cp) ==
  /\ cp >= 32 /\ cp # 127 /\ cp \notin 128 .. 159
  /\ cp <= 1114111
  /\ cp \notin 55296 .. 57343
  /\ cp \notin 63232 .. 63743

\* nack__emit_text, nack__translate and to_event: each copies at most 31 bytes.
TextEvent(bytes) == SubSeq(bytes, 1, Min({Len(bytes), EventBytes - 1}))

\* WM_CHAR: the codepoints behind a sequence of UTF-16 units, with the high
\* surrogate kept between messages.
FromUnits(units) ==
  LET High(u) == u \in 55296 .. 56319
      Low(u)  == u \in 56320 .. 57343
      Take(so, u) ==
        CASE High(u) -> [so EXCEPT !.high = u]
          [] Low(u) /\ so.high = 0 -> so
          [] Low(u) /\ so.high # 0 ->
               [high |-> 0, out |-> Append(so.out, 65536 + (so.high - 55296) * 1024 + u - 56320)]
          [] OTHER -> [high |-> 0, out |-> Append(so.out, u)]
  IN FoldLeft(Take, [high |-> 0, out |-> << >>], units).out

-----------------------------------------------------------------------------
(* Lines *)

\* Codepoints of the word that starts at i.
WordLength(text, i) ==
  LET ends == {j \in i .. Len(text) : text[j] \in {Blank, Newline}}
  IN IF ends = {} THEN Len(text) + 1 - i ELSE (CHOOSE j \in ends : \A k \in ends : j <= k) - i

StartsWord(text, i) ==
  text[i] \notin {Blank, Newline} /\ (i = 1 \/ text[i - 1] \in {Blank, Newline})

NextLine(at) == [at EXCEPT !.row = @ + 1, !.column = 0]

\* Mutant: a word that would end in the last column goes to the next line.
BeforeWordEarly(at, length, width) ==
  IF at.column > 0 /\ at.column + length >= width THEN NextLine(at) ELSE at

\* A word that does not fit behind what is on the line starts the next.
BeforeWord(at, length, width) ==
  IF at.column > 0 /\ at.column + length > width THEN NextLine(at) ELSE at

\* print_wrapped: where it puts each codepoint, and the rows it returns.
\* Blanks and newlines are put nowhere; a blank that starts a line is dropped.
Wrapped(text, width) ==
  LET Take(at, i) ==
        CASE text[i] = Newline -> NextLine(at)
          [] text[i] = Blank ->
               [at EXCEPT !.column = IF @ > 0 /\ @ < width THEN @ + 1 ELSE @]
          [] OTHER ->
               LET start == IF StartsWord(text, i)
                            THEN BeforeWord(at, WordLength(text, i), width) ELSE at
                   here == IF start.column >= width THEN NextLine(start) ELSE start
               IN [row |-> here.row, column |-> here.column + 1,
                   put |-> (i :> [row |-> here.row, column |-> here.column]) @@ here.put]
      end == FoldLeftDomain(Take, [row |-> 0, column |-> 0, put |-> << >>], text)
  IN [put |-> end.put, rows |-> end.row + 1]
===============================================================================
