--------------------------- MODULE ConsoleProofs ---------------------------
(***************************************************************************)
(* The console shows what was printed, for every size of the screen and    *)
(* every line length that fits on it, if nobody types before the shell     *)
(* runs: from then on a print of the main thread is a system call, which   *)
(* the keyboard's echo cannot interrupt.                                   *)
(*                                                                         *)
(* The invariant speaks of the screen and the cursor that the print in     *)
(* progress will leave behind (Screen, Position), of how far its port      *)
(* accesses have come (Ports), and of the sheet: what can still be erased  *)
(* from it is on the screen, and nothing is written behind the cursor.     *)
(***************************************************************************)
EXTENDS Console, TLAPS

-----------------------------------------------------------------------------
(* The invariant.                                                          *)

Asking  == {"ask_high", "read_high", "ask_low", "read_low", "write"}
Setting == {"set_high", "write_high", "set_low", "write_low"}

\* The handler finds the main thread in the user program only.
Undisturbed ==
  /\ pc \in {"user", "more", "scroll"} \cup Asking \cup Setting
  /\ booting => pc # "user"
  /\ ~booting /\ pc # "user" => ~IF_flag

\* The index and data registers between two port accesses.
Ports ==
  /\ pc \in {"read_high", "write_high"} => index = 14
  /\ pc \in {"read_low", "write_low"} => index = 15
  /\ pc \in {"ask_low", "read_low"} => offset = hi * Byte
  /\ pc = "write" => offset = Cursor
  /\ pc \in {"set_low", "write_low"} => hi = High(offset)
  /\ pc \in Asking => Cursor \in seen /\ printed < MaxOut

Screen == IF pc = "scroll" THEN Scrolled(vidmem, offset) ELSE vidmem

Position ==
  IF pc = "scroll" THEN Back(offset) ELSE IF pc \in Setting THEN offset ELSE Cursor

\* v and cur are the last lines of sheet s and the cursor behind them.
Shows(v, cur, s) ==
  /\ v = [i \in Cells |-> s.text[s.top * Cols + i]]
  /\ cur = s.at - s.top * Cols

\* The end of sheet s, of n characters, the last l of which can be erased.
Ends(s, n, l) ==
  /\ s.top * Cols <= s.at - l /\ s.at < s.top * Cols + Size
  /\ s.at <= Cols * n
  /\ \A i \in Sheet : i >= s.at => s.text[i] = Blank

IInv ==
  /\ TypeOK /\ Undisturbed /\ Ports
  /\ ~cut => Shows(Screen, Position, sheet) /\ Ends(sheet, printed, line_pos)

-----------------------------------------------------------------------------
(* Arithmetic of lines and of the cursor's two bytes.                      *)

\* What the constants are.
LEMMA Sizes ==
  /\ Cols \in Nat \ {0} /\ Rows \in Nat \ {0} /\ Byte \in Nat \ {0} /\ Size \in Nat \ {0}
  /\ Cols <= Size /\ (Rows - 1) * Cols = Size - Cols
  /\ Size <= Byte * Byte /\ MaxLine \in Nat /\ MaxLine <= Size - Cols /\ MaxOut \in Nat
  BY ConsoleAssumption DEF ConsoleAssumption, Size

\* The line of a position.
LEMMA LineOf ==
  ASSUME NEW x \in Int
  PROVE  /\ x \div Cols \in Int
         /\ (x \div Cols) * Cols <= x /\ x < (x \div Cols) * Cols + Cols
  BY Sizes

\* A position is on one line only.
LEMMA LineIs ==
  ASSUME NEW x \in Int, NEW q \in Int, q * Cols <= x, x < q * Cols + Cols
  PROVE  x \div Cols = q
  BY Sizes

\* Lines are ordered as their first positions.
LEMMA LinesBelow ==
  ASSUME NEW p \in Int, NEW q \in Int, p * Cols < q * Cols
  PROVE  p < q
  BY Sizes

\* A position of the screen survives in two bytes.
LEMMA TwoBytes ==
  ASSUME NEW x \in Int
  PROVE  /\ High(x) \in 0 .. Byte - 1 /\ Low(x) \in 0 .. Byte - 1
         /\ x \in Cells => High(x) * Byte + Low(x) = x
  <1>1. High(x) \in 0 .. Byte - 1 /\ Low(x) \in 0 .. Byte - 1
    BY Sizes DEF High, Low
  <1>2. ASSUME x \in Cells PROVE High(x) * Byte + Low(x) = x
    <2>1. x \in Nat /\ x < Byte * Byte
      BY <1>2, Sizes DEF Cells
    <2>2. x \div Byte \in 0 .. Byte - 1
      <3> DEFINE d == x \div Byte
      <3>1. d \in Int /\ d * Byte <= x /\ x < d * Byte + Byte
        BY Sizes
      <3> HIDE DEF d
      <3>2. d * Byte < Byte * Byte /\ 0 < (d + 1) * Byte
        BY <2>1, <3>1, Sizes
      <3>3. d < Byte /\ 0 < d + 1
        BY <3>1, <3>2, Sizes
      <3> QED
        BY <3>1, <3>3, Sizes DEF d
    <2>3. High(x) = x \div Byte
      BY <2>2, Sizes DEF High
    <2>4. (x \div Byte) * Byte + (x % Byte) = x
      BY <2>1, Sizes
    <2> QED
      BY <2>3, <2>4 DEF Low
  <1> QED
    BY <1>1, <1>2

-----------------------------------------------------------------------------
(* print_char prints like a sheet.                                         *)

Texts == [Sheet -> Glyphs \cup {Blank}]

\* How far one character moves the cursor, on the sheet and on the screen.
LEMMA Moves ==
  ASSUME NEW c \in Glyphs \cup {NL, BS}, NEW at \in Int, NEW top \in Nat
  PROVE  /\ Moved(c, at) \in Int /\ Moved(c, at) <= at + Cols
         /\ c = BS => Moved(c, at) = at - 1
         /\ c = NL => Moved(c, at) > at
         /\ c \in Glyphs => Moved(c, at) = at + 1
         /\ Moved(c, at - top * Cols) = Moved(c, at) - top * Cols
  <1>1. NL # BS /\ NL \notin Glyphs /\ BS \notin Glyphs
    BY ConsoleAssumption DEF ConsoleAssumption
  <1>2. CASE c = NL
    <2> DEFINE q == at \div Cols
    <2>1. q \in Int /\ q * Cols <= at /\ at < q * Cols + Cols
      BY LineOf
    <2>2. (at - top * Cols) \div Cols = q - top
      <3> HIDE DEF q
      <3>1. (q - top) * Cols = q * Cols - top * Cols /\ top * Cols \in Int
        BY <2>1, Sizes
      <3> DEFINE x == at - top * Cols
      <3>2. x \in Int /\ q - top \in Int /\ (q - top) * Cols <= x /\ x < (q - top) * Cols + Cols
        BY <2>1, <3>1, Sizes
      <3> HIDE DEF x
      <3>3. x \div Cols = q - top
        BY <3>2, LineIs
      <3> QED
        BY <3>3 DEF x
    <2>3. Moved(c, at) = (q + 1) * Cols
      BY <1>1, <1>2 DEF Moved
    <2> HIDE DEF q
    <2>4. Moved(c, at - top * Cols) = (q - top + 1) * Cols
      BY <1>1, <1>2, <2>2 DEF Moved
    <2>5. /\ (q + 1) * Cols = q * Cols + Cols
          /\ (q - top + 1) * Cols = q * Cols - top * Cols + Cols
          /\ q * Cols \in Int /\ top * Cols \in Int
      BY <2>1, Sizes
    <2> QED
      BY <1>1, <1>2, <2>1, <2>3, <2>4, <2>5, Sizes
  <1>3. CASE c = BS
    BY <1>1, <1>3, Sizes DEF Moved
  <1>4. CASE c \in Glyphs
    BY <1>1, <1>4, Sizes DEF Moved
  <1> QED
    BY <1>2, <1>3, <1>4

\* Where the sheet ends and how far it has moved up when one more character has
\* been printed: as far as the screen scrolls.
LEMMA SheetMoves ==
  ASSUME NEW c \in Glyphs \cup {NL, BS}, NEW at \in Int, NEW top \in Nat,
         at < top * Cols + Size
  PROVE  LET to == Moved(c, at)
             up == to \div Cols - Rows + 1
             top2 == IF up > top THEN up ELSE top
         IN /\ top2 \in Nat
            /\ top2 = IF to < top * Cols + Size THEN top ELSE top + 1
            /\ to < top2 * Cols + Size
  <1> DEFINE to == Moved(c, at)
             q  == to \div Cols
             top2 == IF q - Rows + 1 > top THEN q - Rows + 1 ELSE top
  <1>1. to \in Int /\ to <= at + Cols
    BY Moves
  <1> HIDE DEF to
  <1>2. q \in Int /\ q * Cols <= to /\ to < q * Cols + Cols
    BY <1>1, LineOf
  <1> HIDE DEF q
  <1>3. /\ top * Cols + Size = (top + Rows) * Cols
        /\ (top + Rows) * Cols + Cols = (top + Rows + 1) * Cols
        /\ (top + 1) * Cols = top * Cols + Cols
        /\ top * Cols \in Nat
    BY Sizes DEF Size
  <1>4. CASE to < top * Cols + Size
    <2>1. q * Cols < (top + Rows) * Cols
      BY <1>1, <1>2, <1>3, <1>4, Sizes
    <2>2. q < top + Rows
      BY <1>2, <2>1, Sizes, LinesBelow
    <2>3. top2 = top
      BY <1>2, <2>2, Sizes
    <2> QED
      BY <1>4, <2>3 DEF to, q
  <1>5. CASE ~(to < top * Cols + Size)
    <2>1. (top + Rows) * Cols <= to /\ to < (top + Rows) * Cols + Cols
      BY <1>1, <1>3, <1>5, Sizes
    <2>2. q = top + Rows
      BY <1>1, <2>1, Sizes, LineIs DEF q
    <2>3. top2 = top + 1
      BY <2>2, Sizes
    <2>4. to < (top + 1) * Cols + Size
      BY <1>1, <1>3, <2>1, Sizes
    <2> QED
      BY <1>5, <2>3, <2>4 DEF to, q
  <1> QED
    BY <1>4, <1>5

\* The length of the line that is being typed, before and after a character:
\* the handler counts those it may erase; the main thread's are not counted.
Counted(c, l, m) ==
  /\ l \in 0 .. MaxLine /\ m \in 0 .. MaxLine
  /\ m <= l + (IF c \in Glyphs THEN 1 ELSE 0)
  /\ c = BS => m = l - 1

\* print_char keeps the screen and the sheet alike: the character goes where it
\* goes on the sheet, the screen scrolls when the sheet moves up, and the line
\* that comes into view is empty.
LEMMA PrintsAlike ==
  ASSUME NEW c \in Glyphs \cup {NL, BS}, NEW s,
         s.text \in Texts, s.at \in Int, s.top \in Nat,
         NEW n \in Nat, n < MaxOut, NEW l, NEW m, Counted(c, l, m),
         NEW v, NEW cur, Shows(v, cur, s), Ends(s, n, l)
  PROVE  /\ Printed(s, c).text \in Texts /\ Printed(s, c).at \in Int /\ Printed(s, c).top \in Nat
         /\ Shows(Scrolled(Written(c, cur, v), Moved(c, cur)), Back(Moved(c, cur)), Printed(s, c))
         /\ Ends(Printed(s, c), n + 1, m)
  <1> DEFINE at  == s.at
             top == s.top
             to  == Moved(c, at)
             top2 == Printed(s, c).top
             text2 == Printed(s, c).text
             base == top * Cols
  <1>1. NL # BS /\ NL \notin Glyphs /\ BS \notin Glyphs
    BY ConsoleAssumption DEF ConsoleAssumption
  <1>2. /\ text2 = CASE c = NL -> s.text
                     [] c = BS -> [s.text EXCEPT ![to] = Blank]
                     [] OTHER  -> [s.text EXCEPT ![at] = c]
        /\ Printed(s, c).at = to
    BY DEF Printed
  <1>3. /\ to \in Int /\ to <= at + Cols
        /\ c = BS => to = at - 1
        /\ c = NL => to > at
        /\ c \in Glyphs => to = at + 1
        /\ Moved(c, cur) = to - base
        /\ cur = at - base
    BY Moves DEF Shows
  <1>4. /\ top2 \in Nat /\ top2 = IF to < base + Size THEN top ELSE top + 1
        /\ to < top2 * Cols + Size
    <2>1. at < top * Cols + Size
      BY DEF Ends
    <2>2. top2 = IF to \div Cols - Rows + 1 > top THEN to \div Cols - Rows + 1 ELSE top
      BY DEF Printed
    <2> QED
      BY <2>1, <2>2, SheetMoves
  <1>5. /\ base \in Nat /\ (top + 1) * Cols = base + Cols
        /\ l \in 0 .. MaxLine /\ m \in 0 .. MaxLine
        /\ base <= at - l /\ at < base + Size /\ at \in Nat
        /\ at <= Cols * n /\ Cols * (n + 1) = Cols * n + Cols
        /\ Cols * n + Cols <= Cols * MaxOut /\ Cols * n \in Nat /\ Cols * MaxOut \in Nat
    <2>1. base \in Nat /\ (top + 1) * Cols = base + Cols
      BY Sizes
    <2>2. /\ l \in 0 .. MaxLine /\ m \in 0 .. MaxLine
          /\ base <= at - l /\ at < base + Size /\ at <= Cols * n
      BY DEF Counted, Ends
    <2>3. at \in Nat
      BY <2>1, <2>2, Sizes
    <2>4. /\ Cols * (n + 1) = Cols * n + Cols
          /\ Cols * (n + 1) <= Cols * MaxOut /\ Cols * n \in Nat /\ Cols * MaxOut \in Nat
      BY Sizes
    <2> QED
      BY <2>1, <2>2, <2>3, <2>4
  <1> HIDE DEF to, top2, text2, base
  <1>6. base <= to /\ to <= Cols * (n + 1) /\ (c = BS => l > 0)
    BY <1>1, <1>3, <1>5, Sizes DEF Counted
  <1>7. at \in Sheet /\ to \in Sheet
    BY <1>3, <1>5, <1>6, Sizes DEF Sheet
  <1>8. /\ text2 \in Texts
        /\ \A i \in Sheet : text2[i] = IF c = BS /\ i = to THEN Blank
                                       ELSE IF c \in Glyphs /\ i = at THEN c ELSE s.text[i]
    BY <1>1, <1>2, <1>7 DEF Texts
  <1>9. Ends(Printed(s, c), n + 1, m)
    <2>1. top2 * Cols <= to - m
      <3>1. CASE to < base + Size
        <4>1. top2 * Cols = base
          BY <1>4, <3>1 DEF base
        <4> QED
          BY <1>1, <1>3, <1>5, <4>1, Sizes DEF Counted
      <3>2. CASE ~(to < base + Size)
        <4>1. top2 * Cols = base + Cols
          BY <1>4, <1>5, <3>2
        <4> QED
          BY <1>3, <1>5, <3>2, <4>1, Sizes
      <3> QED
        BY <3>1, <3>2
    <2>2. ASSUME NEW i \in Sheet, i >= to PROVE text2[i] = Blank
      <3>1. CASE c = BS
        BY <1>1, <1>3, <1>5, <1>8, <2>2, <3>1 DEF Ends, Sheet
      <3>2. CASE c # BS
        <4>1. i > at /\ i >= at
          BY <1>1, <1>3, <1>5, <2>2, <3>2 DEF Sheet
        <4> QED
          BY <1>8, <3>2, <4>1 DEF Ends
      <3> QED
        BY <3>1, <3>2
    <2> QED
      BY <1>2, <1>4, <1>6, <2>1, <2>2 DEF Ends, to, top2, text2
  <1> DEFINE w == Written(c, cur, v)
  <1>10. /\ w = [i \in Cells |-> w[i]]
         /\ \A i \in Cells : base + i \in Sheet /\ w[i] = text2[base + i]
    <2>1. v = [i \in Cells |-> s.text[base + i]]
      BY DEF Shows, base
    <2>2. \A i \in Cells : base + i \in Sheet
      BY <1>5, Sizes DEF Sheet, Cells
    <2>3. CASE c = NL
      BY <1>1, <1>8, <2>1, <2>2, <2>3 DEF Written
    <2>4. CASE c = BS
      <3>1. w = [i \in Cells |-> IF i = cur - 1 THEN Blank ELSE v[i]]
        BY <1>1, <2>4 DEF Written, Put
      <3>2. \A i \in Cells : i = cur - 1 <=> base + i = to
        BY <1>3, <1>5, <2>4 DEF Cells
      <3> QED
        BY <1>1, <1>8, <2>1, <2>2, <2>4, <3>1, <3>2
    <2>5. CASE c \in Glyphs
      <3>1. w = [i \in Cells |-> IF i = cur THEN c ELSE v[i]]
        BY <1>1, <2>5 DEF Written, Put
      <3>2. \A i \in Cells : i = cur <=> base + i = at
        BY <1>3, <1>5 DEF Cells
      <3> QED
        BY <1>1, <1>8, <2>1, <2>2, <2>5, <3>1, <3>2
    <2> QED
      BY <2>3, <2>4, <2>5
  <1> HIDE DEF w
  <1>11. CASE to < base + Size
    <2>1. Moved(c, cur) < Size /\ top2 * Cols = base
      BY <1>3, <1>4, <1>5, <1>11, Sizes DEF base
    <2>2. Scrolled(w, Moved(c, cur)) = w /\ Back(Moved(c, cur)) = to - base
      BY <1>3, <2>1 DEF Scrolled, Back
    <2>3. w = [i \in Cells |-> text2[base + i]]
      BY <1>10
    <2> QED
      BY <1>2, <1>8, <1>9, <2>1, <2>2, <2>3, <1>4, <1>3 DEF Shows, w, text2, top2
  <1>12. CASE ~(to < base + Size)
    <2>1. ~(Moved(c, cur) < Size) /\ top2 * Cols = base + Cols /\ c # BS
      BY <1>3, <1>4, <1>5, <1>12, Sizes
    <2> DEFINE x == [i \in Cells |-> IF i + Cols < Size THEN w[i + Cols] ELSE Blank]
    <2>2. Scrolled(w, Moved(c, cur)) = x /\ Back(Moved(c, cur)) = to - (base + Cols)
      BY <1>3, <1>5, <2>1, Sizes DEF Scrolled, Back
    <2>3. ASSUME NEW i \in Cells PROVE x[i] = text2[base + Cols + i]
      <3>1. CASE i + Cols < Size
        <4>1. i + Cols \in Cells /\ base + (i + Cols) = base + Cols + i
          BY <1>5, <3>1, Sizes DEF Cells
        <4> QED
          BY <1>10, <3>1, <4>1
      <3>2. CASE ~(i + Cols < Size)
        <4> DEFINE j == base + Cols + i
        <4>1. j \in Sheet /\ j >= at /\ j # at
          BY <1>5, <3>2, Sizes DEF Cells, Sheet
        <4> HIDE DEF j
        <4>2. text2[j] = Blank
          BY <1>8, <2>1, <4>1 DEF Ends
        <4> QED
          BY <3>2, <4>2 DEF j
      <3> QED
        BY <3>1, <3>2
    <2>4. x = [i \in Cells |-> text2[base + Cols + i]]
      BY <2>3
    <2> QED
      BY <1>2, <1>3, <1>4, <1>8, <1>9, <2>1, <2>2, <2>4 DEF Shows, w, text2, top2
  <1> QED
    BY <1>11, <1>12

\* A cursor behind the end of the sheet is on the screen.
LEMMA OnScreen ==
  ASSUME NEW s, s.at \in Int, s.top \in Nat, NEW n, NEW l \in 0 .. MaxLine,
         NEW v, NEW cur, Shows(v, cur, s), Ends(s, n, l)
  PROVE  cur \in Cells
  <1>1. s.top * Cols \in Nat
    BY Sizes
  <1> QED
    BY <1>1, Sizes DEF Shows, Ends, Cells

\* Whatever is printed where, the cells of the screen hold characters.
LEMMA ScreenType ==
  ASSUME NEW c \in Glyphs \cup {NL, BS}, NEW at \in Int, NEW to \in Int,
         NEW v \in [Cells -> Glyphs \cup {Blank}]
  PROVE  /\ Written(c, at, v) \in [Cells -> Glyphs \cup {Blank}]
         /\ Scrolled(v, to) \in [Cells -> Glyphs \cup {Blank}]
         /\ Back(to) \in Int /\ Moved(c, at) \in Int
  <1>1. NL # BS /\ NL \notin Glyphs /\ BS \notin Glyphs
    BY ConsoleAssumption DEF ConsoleAssumption
  <1>2. Written(c, at, v) \in [Cells -> Glyphs \cup {Blank}]
    BY <1>1 DEF Written, Put
  <1>3. \A i \in Cells : i + Cols < Size => i + Cols \in Cells
    BY Sizes DEF Cells
  <1>4. Scrolled(v, to) \in [Cells -> Glyphs \cup {Blank}]
    BY <1>3 DEF Scrolled
  <1>5. Back(to) \in Int
    BY Sizes DEF Back
  <1>6. Moved(c, at) \in Int
    <2>1. at - 0 * Cols = at
      BY Sizes
    <2> QED
      BY Moves, <2>1
  <1> QED
    BY <1>2, <1>4, <1>5, <1>6

\* So do the cells of the sheet, also when a screen that was cleared in the
\* middle of a line is erased beyond its first cell.
LEMMA SheetType ==
  ASSUME NEW c \in Glyphs \cup {NL, BS}, NEW s,
         s.text \in Texts, s.at \in Int, s.top \in Nat
  PROVE  /\ Printed(s, c).text \in Texts /\ Printed(s, c).at \in Int
         /\ Printed(s, c).top \in Nat
  <1>1. NL # BS /\ NL \notin Glyphs /\ BS \notin Glyphs
    BY ConsoleAssumption DEF ConsoleAssumption
  <1>2. Printed(s, c).text \in Texts
    BY <1>1 DEF Printed, Texts
  <1> DEFINE to == Moved(c, s.at)
             up == to \div Cols - Rows + 1
  <1>3. to \in Int
    BY ScreenType, Moves
  <1> HIDE DEF to
  <1>4. up \in Int
    BY <1>3, LineOf, Sizes
  <1>5. Printed(s, c).at = to /\ Printed(s, c).top = IF up > s.top THEN up ELSE s.top
    BY DEF Printed, to
  <1> HIDE DEF up
  <1> QED
    BY <1>2, <1>3, <1>4, <1>5

-----------------------------------------------------------------------------
(* The steps.                                                              *)

\* The screen is blank when main starts to print.
LEMMA InitInv == Init => IInv
  <1> SUFFICES ASSUME Init PROVE IInv
    OBVIOUS
  <1>1. 0 \in 0 .. Byte - 1 /\ 0 \in 0 .. MaxLine /\ 0 \in 0 .. MaxOut /\ 0 \in Nat /\ 0 \in Int
    BY Sizes
  <1>2. /\ sheet.text = [i \in Sheet |-> Blank] /\ sheet.at = 0 /\ sheet.top = 0
        /\ Cursor = 0 /\ 0 * Cols = 0 /\ Cols * 0 = 0
    BY Sizes DEF Init, EmptySheet, Cursor
  <1>3. TypeOK
    <2>1. IF_flag \in BOOLEAN /\ booting \in BOOLEAN /\ cut \in BOOLEAN
      BY Zenon DEF Init
    <2> QED
      BY <1>1, <1>2, <2>1 DEF Init, TypeOK
  <1>4. \A i \in Cells : i \in Sheet /\ 0 + i = i
    BY Sizes DEF Cells, Sheet
  <1>5. Shows(vidmem, Cursor, sheet)
    BY <1>2, <1>4 DEF Shows, Init
  <1>6. Ends(sheet, printed, line_pos)
    BY <1>2, Sizes DEF Ends, Init
  <1> QED
    BY <1>3, <1>5, <1>6 DEF Init, IInv, Undisturbed, Ports, Screen, Position, Asking, Setting

\* The handler's echo comes while no print of the main thread is in progress.
LEMMA EchoInv ==
  ASSUME IInv, ~TypesAtBoot, NEW c \in Glyphs \cup {NL, BS}, Echo(c),
         line_pos' \in 0 .. MaxLine, Counted(c, line_pos, line_pos')
  PROVE  IInv'
  <1>1. TypeOK /\ Undisturbed /\ Ports
    BY DEF IInv
  <1>2. /\ ~booting /\ IF_flag /\ pc = "user" /\ printed < MaxOut
        /\ vidmem' = Scrolled(Written(c, Cursor, vidmem), Moved(c, Cursor))
        /\ index' = 15 /\ hi' = High(Back(Moved(c, Cursor))) /\ lo' = Low(Back(Moved(c, Cursor)))
        /\ sheet' = Printed(sheet, c) /\ printed' = printed + 1
        /\ UNCHANGED <<pc, ch, offset, IF_flag, booting, cut>>
    BY <1>1 DEF Echo, Record, Undisturbed, main
  <1>3. Cursor \in Int
    BY <1>1, Sizes DEF Cursor, TypeOK
  <1>4. /\ Moved(c, Cursor) \in Int /\ Back(Moved(c, Cursor)) \in Int
        /\ vidmem' \in [Cells -> Glyphs \cup {Blank}]
    <2>1. /\ Moved(c, Cursor) \in Int
          /\ Written(c, Cursor, vidmem) \in [Cells -> Glyphs \cup {Blank}]
      BY <1>1, <1>3, ScreenType DEF TypeOK
    <2> QED
      BY <1>2, <2>1, ScreenType
  <1>5. TypeOK'
    <2>1. hi' \in 0 .. Byte - 1 /\ lo' \in 0 .. Byte - 1
      BY <1>2, <1>4, TwoBytes
    <2>2. sheet.text \in Texts /\ sheet.at \in Int /\ sheet.top \in Nat
      BY <1>1 DEF TypeOK, Texts
    <2>3. sheet'.text \in Texts /\ sheet'.at \in Int /\ sheet'.top \in Nat
      BY <1>2, <2>2, SheetType
    <2>4. printed' \in 0 .. MaxOut
      BY <1>1, <1>2, Sizes DEF TypeOK
    <2> QED
      BY <1>1, <1>2, <1>4, <2>1, <2>3, <2>4 DEF TypeOK, Texts
  <1>6. Undisturbed' /\ Ports'
    BY <1>1, <1>2 DEF Undisturbed, Ports, Asking, Setting
  <1>7. ASSUME ~cut' PROVE Shows(Screen, Position, sheet)' /\ Ends(sheet, printed, line_pos)'
    <2>1. Shows(vidmem, Cursor, sheet) /\ Ends(sheet, printed, line_pos)
      BY <1>2, <1>7 DEF IInv, Screen, Position, Setting
    <2>2. /\ Shows(vidmem', Back(Moved(c, Cursor)), sheet')
          /\ Ends(sheet', printed', line_pos')
      <3>1. printed \in Nat /\ sheet.text \in Texts /\ sheet.at \in Int /\ sheet.top \in Nat
        BY <1>1 DEF TypeOK, Texts
      <3> QED
        BY <1>2, <2>1, <3>1, PrintsAlike
    <2>3. Back(Moved(c, Cursor)) \in Cells
      BY <1>5, <2>2, OnScreen DEF TypeOK
    <2>4. Cursor' = Back(Moved(c, Cursor))
      <3> DEFINE x == Back(Moved(c, Cursor))
      <3>1. High(x) * Byte + Low(x) = x
        BY <1>4, <2>3, TwoBytes
      <3> QED
        BY <1>2, <3>1 DEF Cursor
    <2>5. Screen' = vidmem' /\ Position' = Cursor'
      BY <1>2 DEF Screen, Position, Setting
    <2> QED
      BY <2>2, <2>4, <2>5 DEF Shows, Ends
  <1> QED
    BY <1>5, <1>6, <1>7 DEF IInv

\* The keys of the line editor, each echoed.
LEMMA KeysInv ==
  ASSUME IInv, ~TypesAtBoot, (\E c \in Glyphs : Type(c)) \/ Backspace \/ Enter
  PROVE  IInv'
  <1>1. line_pos \in 0 .. MaxLine /\ MaxLine \in Nat
    BY Sizes DEF IInv, TypeOK
  <1>2. NL # BS /\ NL \notin Glyphs /\ BS \notin Glyphs
    BY ConsoleAssumption DEF ConsoleAssumption
  <1>3. CASE \E c \in Glyphs : Type(c)
    <2>1. PICK c \in Glyphs : Type(c)
      BY <1>3
    <2>2. Echo(c) /\ line_pos' \in 0 .. MaxLine /\ Counted(c, line_pos, line_pos')
      BY <1>1, <1>2, <2>1 DEF Type, Counted
    <2> QED
      BY <2>2, EchoInv
  <1>4. CASE Backspace
    <2>1. Echo(BS) /\ line_pos' \in 0 .. MaxLine /\ Counted(BS, line_pos, line_pos')
      BY <1>1, <1>2, <1>4 DEF Backspace, Counted
    <2> QED
      BY <2>1, EchoInv
  <1>5. CASE Enter
    <2>1. Echo(NL) /\ line_pos' \in 0 .. MaxLine /\ Counted(NL, line_pos, line_pos')
      BY <1>1, <1>2, <1>5 DEF Enter, Counted
    <2> QED
      BY <2>1, EchoInv
  <1> QED
    BY <1>3, <1>4, <1>5

\* Steps of the main thread that print nothing, and leave the screen and the
\* cursor as they were to become.
LEMMA ApartInv ==
  ASSUME IInv, UNCHANGED <<sheet, printed, line_pos>>,
         TypeOK', Undisturbed', Ports',
         ~cut' => ~cut /\ Screen' = Screen /\ Position' = Position
  PROVE  IInv'
  <1>1. ASSUME ~cut' PROVE Shows(Screen, Position, sheet)' /\ Ends(sheet, printed, line_pos)'
    BY <1>1 DEF IInv, Shows, Ends
  <1> QED
    BY <1>1 DEF IInv

\* Between prints: a system call, its return, and the start of a print.
LEMMA CallInv == IInv /\ (Syscall \/ Return \/ \E c \in Glyphs \cup {NL} : PrintChar(c)) => IInv'
  <1> SUFFICES ASSUME IInv, Syscall \/ Return \/ \E c \in Glyphs \cup {NL} : PrintChar(c)
               PROVE  IInv'
    OBVIOUS
  <1>1. TypeOK /\ Undisturbed /\ Ports
    BY DEF IInv
  <1>2. CASE Syscall
    <2>1. IF_flag' \in BOOLEAN
      BY <1>2, Zenon DEF Syscall
    <2>2. TypeOK' /\ Undisturbed' /\ Ports'
      BY <1>1, <1>2, <2>1
      DEF Syscall, TypeOK, Undisturbed, Ports, Asking, Setting, vga, past, Cursor
    <2> QED
      BY <1>2, <2>2, ApartInv DEF Syscall, vga, past, Screen, Position, Cursor, Setting
  <1>3. CASE Return
    <2>1. IF_flag' \in BOOLEAN /\ booting' \in BOOLEAN
      BY <1>3, Zenon DEF Return
    <2>2. TypeOK' /\ Undisturbed' /\ Ports'
      BY <1>1, <1>3, <2>1
      DEF Return, TypeOK, Undisturbed, Ports, Asking, Setting, vga, past, Cursor
    <2> QED
      BY <1>3, <2>2, ApartInv DEF Return, vga, past, Screen, Position, Cursor, Setting
  <1>4. CASE \E c \in Glyphs \cup {NL} : PrintChar(c)
    <2>1. TypeOK' /\ Undisturbed' /\ Ports'
      BY <1>1, <1>4
      DEF PrintChar, TypeOK, Undisturbed, Ports, Asking, Setting, vga, Cursor
    <2> QED
      BY <1>4, <2>1, ApartInv DEF PrintChar, vga, Screen, Position, Cursor, Setting
  <1> QED
    BY <1>2, <1>3, <1>4

\* clear_screen, which starts a new sheet.
LEMMA ClearInv == IInv /\ ClearScreen => IInv'
  <1> SUFFICES ASSUME IInv, ClearScreen PROVE IInv'
    OBVIOUS
  <1>1. TypeOK /\ Undisturbed /\ Ports
    BY DEF IInv
  <1>2. /\ pc' = "set_high" /\ vidmem' = [i \in Cells |-> Blank] /\ offset' = 0
        /\ sheet'.text = [i \in Sheet |-> Blank] /\ sheet'.at = 0 /\ sheet'.top = 0
        /\ printed' = 0 /\ 0 * Cols = 0 /\ Cols * 0 = 0
    BY Sizes DEF ClearScreen, EmptySheet
  <1>3. cut' = (line_pos > 0) /\ line_pos \in 0 .. MaxLine /\ line_pos' = line_pos
    BY <1>1 DEF ClearScreen, TypeOK
  <1>4. TypeOK'
    <2>0. (line_pos > 0) \in BOOLEAN
      OBVIOUS
    <2>1. cut' \in BOOLEAN
      BY <1>3, <2>0, Zenon
    <2>2. 0 \in Int /\ 0 \in Nat /\ 0 \in 0 .. MaxOut
      BY Sizes
    <2> QED
      BY <1>1, <1>2, <1>3, <2>1, <2>2 DEF ClearScreen, TypeOK, vga
  <1>5. Undisturbed' /\ Ports'
    BY <1>1, <1>2 DEF ClearScreen, Undisturbed, Ports, Asking, Setting
  <1>6. ASSUME ~cut' PROVE Shows(Screen, Position, sheet)' /\ Ends(sheet, printed, line_pos)'
    <2>1. line_pos' = 0
      <3>1. ~(line_pos > 0)
        BY <1>3, <1>6, Zenon
      <3> QED
        BY <1>3, <3>1, Sizes
    <2>2. \A i \in Cells : i \in Sheet /\ 0 + i = i
      BY Sizes DEF Cells, Sheet
    <2>3. Screen' = vidmem' /\ Position' = 0
      BY <1>2 DEF Screen, Position, Setting
    <2>4. Shows(vidmem', 0, sheet')
      BY <1>2, <2>2 DEF Shows
    <2>5. Ends(sheet', printed', line_pos')
      BY <1>2, <2>1, Sizes DEF Ends
    <2> QED
      BY <2>3, <2>4, <2>5 DEF Shows, Ends
  <1> QED
    BY <1>4, <1>5, <1>6 DEF IInv

\* get_cursor_offset asks for the two bytes one after the other.
LEMMA GetInv == IInv /\ (AskHigh \/ ReadHigh \/ AskLow \/ ReadLow) => IInv'
  <1> SUFFICES ASSUME IInv, AskHigh \/ ReadHigh \/ AskLow \/ ReadLow PROVE IInv'
    OBVIOUS
  <1>1. TypeOK /\ Undisturbed /\ Ports
    BY DEF IInv
  <1>2. hi * Byte \in Int /\ hi \in Int /\ lo \in Int
    BY <1>1, Sizes DEF TypeOK
  <1> USE DEF TypeOK, Undisturbed, Ports, Asking, Setting, vga, past
  <1>3. CASE AskHigh
    <2>1. TypeOK' /\ Undisturbed' /\ Ports'
      BY <1>1, <1>3 DEF AskHigh, Cursor
    <2> QED
      BY <1>3, <2>1, ApartInv DEF AskHigh, Screen, Position, Cursor
  <1>4. CASE ReadHigh
    <2>1. offset' = hi * Byte
      BY <1>1, <1>4 DEF ReadHigh, Data
    <2>2. TypeOK' /\ Undisturbed' /\ Ports'
      BY <1>1, <1>2, <1>4, <2>1 DEF ReadHigh, Cursor
    <2> QED
      BY <1>4, <2>2, ApartInv DEF ReadHigh, Screen, Position, Cursor
  <1>5. CASE AskLow
    <2>1. TypeOK' /\ Undisturbed' /\ Ports'
      BY <1>1, <1>5 DEF AskLow, Cursor
    <2> QED
      BY <1>5, <2>1, ApartInv DEF AskLow, Screen, Position, Cursor
  <1>6. CASE ReadLow
    <2>1. offset' = Cursor /\ Cursor \in Int
      BY <1>1, <1>2, <1>6 DEF ReadLow, Data, Cursor
    <2>2. TypeOK' /\ Undisturbed' /\ Ports'
      BY <1>1, <1>2, <1>6, <2>1 DEF ReadLow, Cursor
    <2> QED
      BY <1>6, <2>2, ApartInv DEF ReadLow, Screen, Position, Cursor
  <1> QED
    BY <1>3, <1>4, <1>5, <1>6

\* The character goes to the screen, which then scrolls if it must.
LEMMA WriteInv == IInv /\ (Write \/ Scroll) => IInv'
  <1> SUFFICES ASSUME IInv, Write \/ Scroll PROVE IInv'
    OBVIOUS
  <1>1. TypeOK /\ Undisturbed /\ Ports
    BY DEF IInv
  <1>2. CASE Write
    <2>1. /\ pc = "write" /\ pc' = "scroll" /\ offset = Cursor /\ printed < MaxOut
          /\ vidmem' = Written(ch, Cursor, vidmem) /\ offset' = Moved(ch, Cursor)
          /\ sheet' = Printed(sheet, ch) /\ printed' = printed + 1
          /\ UNCHANGED <<index, hi, lo, ch, IF_flag, booting, line_pos, seen, cut>>
      BY <1>1, <1>2 DEF Write, Record, Ports, Asking, vga
    <2>2. /\ ch \in Glyphs \cup {NL, BS} /\ ch # BS /\ line_pos \in 0 .. MaxLine
          /\ Cursor \in Int /\ printed \in Nat /\ MaxLine \in Nat
          /\ sheet.text \in Texts /\ sheet.at \in Int /\ sheet.top \in Nat
      BY <1>1, <2>1, Sizes, ConsoleAssumption DEF TypeOK, Texts, ConsoleAssumption
    <2>3. TypeOK'
      <3>1. vidmem' \in [Cells -> Glyphs \cup {Blank}] /\ offset' \in Int
        BY <1>1, <2>1, <2>2, ScreenType DEF TypeOK
      <3>2. sheet'.text \in Texts /\ sheet'.at \in Int /\ sheet'.top \in Nat
        BY <2>1, <2>2, SheetType
      <3>3. printed' \in 0 .. MaxOut
        BY <2>1, <2>2, Sizes
      <3> QED
        BY <1>1, <2>1, <3>1, <3>2, <3>3 DEF TypeOK, Texts
    <2>4. Undisturbed' /\ Ports'
      BY <1>1, <2>1 DEF Undisturbed, Ports, Asking, Setting
    <2>5. ASSUME ~cut' PROVE Shows(Screen, Position, sheet)' /\ Ends(sheet, printed, line_pos)'
      <3>1. Shows(vidmem, Cursor, sheet) /\ Ends(sheet, printed, line_pos)
        BY <2>1, <2>5 DEF IInv, Screen, Position, Setting
      <3>2. Counted(ch, line_pos, line_pos)
        BY <2>2 DEF Counted
      <3>3. /\ Shows(Scrolled(vidmem', offset'), Back(offset'), sheet')
            /\ Ends(sheet', printed', line_pos)
        BY <2>1, <2>2, <3>1, <3>2, PrintsAlike
      <3>4. Screen' = Scrolled(vidmem', offset') /\ Position' = Back(offset')
        BY <2>1 DEF Screen, Position, Scrolled, Back
      <3> QED
        BY <2>1, <3>3, <3>4 DEF Shows, Ends
    <2> QED
      BY <2>3, <2>4, <2>5 DEF IInv
  <1>3. CASE Scroll
    <2>1. vidmem' \in [Cells -> Glyphs \cup {Blank}] /\ offset' \in Int
      <3>1. offset \in Int /\ vidmem \in [Cells -> Glyphs \cup {Blank}]
        BY <1>1 DEF TypeOK
      <3>2. NL \in Glyphs \cup {NL, BS}
        OBVIOUS
      <3> QED
        BY <1>3, <3>1, <3>2, ScreenType DEF Scroll
    <2>2. TypeOK'
      BY <1>1, <1>3, <2>1 DEF Scroll, TypeOK, vga, past
    <2>3. Undisturbed' /\ Ports'
      BY <1>1, <1>3 DEF Scroll, Undisturbed, Ports, Asking, Setting
    <2>4. Screen' = Screen /\ Position' = Position
      BY <1>3 DEF Scroll, Screen, Position, Setting
    <2> QED
      BY <1>3, <2>2, <2>3, <2>4, ApartInv DEF Scroll, past
  <1> QED
    BY <1>2, <1>3

\* set_cursor_offset tells the two bytes one after the other.
LEMMA SetInv == IInv /\ (SetHigh \/ WriteHigh \/ SetLow \/ WriteLow) => IInv'
  <1> SUFFICES ASSUME IInv, SetHigh \/ WriteHigh \/ SetLow \/ WriteLow PROVE IInv'
    OBVIOUS
  <1>1. TypeOK /\ Undisturbed /\ Ports
    BY DEF IInv
  <1>2. /\ offset \in Int /\ High(offset) \in 0 .. Byte - 1 /\ Low(offset) \in 0 .. Byte - 1
        /\ offset \in Cells => High(offset) * Byte + Low(offset) = offset
    BY <1>1, TwoBytes DEF TypeOK
  <1>3. CASE SetHigh
    <2>1. TypeOK' /\ Undisturbed' /\ Ports'
      BY <1>1, <1>3
      DEF SetHigh, TypeOK, Undisturbed, Ports, Asking, Setting, past
    <2> QED
      BY <1>3, <2>1, ApartInv DEF SetHigh, Screen, Position, Setting, past
  <1>4. CASE WriteHigh
    <2>1. hi' = High(offset) /\ lo' = lo
      BY <1>1, <1>4 DEF WriteHigh, Out, Ports
    <2>2. TypeOK'
      BY <1>1, <1>2, <1>4, <2>1 DEF WriteHigh, TypeOK, past
    <2>3. offset' = offset
      BY <1>4 DEF WriteHigh
    <2>4. High(offset)' = High(offset)
      BY <2>3 DEF High
    <2>5. Undisturbed' /\ Ports'
      BY <1>1, <1>4, <2>1, <2>4
      DEF WriteHigh, Undisturbed, Ports, Asking, Setting, past
    <2> QED
      BY <1>4, <2>2, <2>5, ApartInv DEF WriteHigh, Screen, Position, Setting, past
  <1>5. CASE SetLow
    <2>1. High(offset)' = High(offset)
      BY <1>5 DEF SetLow, High
    <2>2. TypeOK' /\ Undisturbed' /\ Ports'
      BY <1>1, <1>5, <2>1
      DEF SetLow, TypeOK, Undisturbed, Ports, Asking, Setting, past
    <2> QED
      BY <1>5, <2>2, ApartInv DEF SetLow, Screen, Position, Setting, past
  <1>6. CASE WriteLow
    <2>1. lo' = Low(offset) /\ hi' = hi /\ hi = High(offset)
      BY <1>1, <1>6 DEF WriteLow, Out, Ports
    <2>2. TypeOK' /\ Undisturbed' /\ Ports'
      BY <1>1, <1>2, <1>6, <2>1
      DEF WriteLow, TypeOK, Undisturbed, Ports, Asking, Setting, past
    <2>3. ASSUME ~cut' PROVE ~cut /\ Screen' = Screen /\ Position' = Position
      <3>1. ~cut /\ pc = "write_low" /\ pc' = "more" /\ vidmem' = vidmem
        BY <1>6, <2>3 DEF WriteLow, past
      <3>2. Position = offset /\ Position' = Cursor' /\ Screen' = Screen
        BY <3>1 DEF Position, Screen, Setting
      <3>3. offset \in Cells
        <4>1. Shows(Screen, offset, sheet) /\ Ends(sheet, printed, line_pos)
          BY <3>1, <3>2 DEF IInv
        <4> QED
          BY <1>1, <4>1, OnScreen DEF TypeOK
      <3>4. Cursor' = offset
        BY <1>2, <2>1, <3>3 DEF Cursor
      <3> QED
        BY <3>1, <3>2, <3>4
    <2> QED
      BY <1>6, <2>2, <2>3, ApartInv DEF WriteLow, past
  <1> QED
    BY <1>3, <1>4, <1>5, <1>6

\* Every step keeps the invariant, if nobody types while main prints.
LEMMA NextInv == ~TypesAtBoot /\ IInv /\ [Next]_vars => IInv'
  <1> SUFFICES ASSUME ~TypesAtBoot, IInv, [Next]_vars PROVE IInv'
    OBVIOUS
  <1>1. CASE UNCHANGED vars
    <2>1. TypeOK' /\ Undisturbed' /\ Ports'
      BY <1>1
      DEF vars, vga, main, past, IInv, TypeOK, Undisturbed, Ports, Asking, Setting, Cursor, High
    <2> QED
      BY <1>1, <2>1, ApartInv
      DEF vars, vga, main, past, Screen, Position, Scrolled, Back, Cursor, Setting
  <1> QED
    BY <1>1, KeysInv, CallInv, ClearInv, GetInv, WriteInv, SetInv DEF Next

-----------------------------------------------------------------------------
(* What follows.                                                           *)

\* The video memory holds characters, the registers bytes, and the line that is
\* being typed stays within line_buffer (print_char, keyboard_callback).
THEOREM ConsoleTypesHold == ~TypesAtBoot => (Spec => []TypeOK)
  <1> SUFFICES ASSUME ~TypesAtBoot PROVE Spec => []TypeOK
    OBVIOUS
  <1>1. IInv => TypeOK
    BY DEF IInv
  <1>2. IInv /\ [Next]_vars => IInv'
    BY NextInv
  <1> QED
    BY InitInv, <1>1, <1>2, PTL DEF Spec

\* get_cursor_offset returns a position the cursor had during the call, although
\* it reads it in four port accesses of registers it shares with the handler.
THEOREM CursorIsRead == ~TypesAtBoot => (Spec => []GetsCursor)
  <1> SUFFICES ASSUME ~TypesAtBoot PROVE Spec => []GetsCursor
    OBVIOUS
  <1>1. IInv => GetsCursor
    BY DEF IInv, Ports, GetsCursor, Asking
  <1>2. IInv /\ [Next]_vars => IInv'
    BY NextInv
  <1> QED
    BY InitInv, <1>1, <1>2, PTL DEF Spec

\* print_char and the echo together show the last lines of all that was printed,
\* on a screen of any size: no cell is lost, doubled or left over when lines
\* wrap, the screen scrolls, or a line is erased across the edge.
THEOREM ScreenShowsSheet == ~TypesAtBoot => (Spec => []ShowsOutput)
  <1> SUFFICES ASSUME ~TypesAtBoot PROVE Spec => []ShowsOutput
    OBVIOUS
  <1>1. IInv => ShowsOutput
    BY DEF IInv, ShowsOutput, Shows, Quiet, Screen, Position, Setting
  <1>2. IInv /\ [Next]_vars => IInv'
    BY NextInv
  <1> QED
    BY InitInv, <1>1, <1>2, PTL DEF Spec
=============================================================================
