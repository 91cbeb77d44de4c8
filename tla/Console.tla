------------------------------ MODULE Console ------------------------------
(***************************************************************************)
(* The text console: print_char of drivers/screen.c, used by two actors.   *)
(* The main thread prints while the machine boots, later inside system     *)
(* calls; the keyboard handler echoes.  Both take the cursor from the VGA  *)
(* registers and put it back there, one port access at a time, through an  *)
(* index register they share.  The handler runs whenever the interrupt     *)
(* flag is set: at boot between any two port accesses of the main thread,  *)
(* later only outside system calls, whose gate clears the flag.            *)
(*                                                                         *)
(* A position is the number of a character cell (half a byte offset).      *)
(* Colours are left out; ' ' and 0 are both Blank.                         *)
(***************************************************************************)
EXTENDS Integers

CONSTANTS
  Cols, Rows,     \* MAX_COLS, MAX_ROWS (80, 25)
  Byte,           \* values of a VGA data register (256)
  Glyphs,         \* characters other than the two that follow
  NL, BS,         \* '\n', '\b'
  Blank,          \* an empty cell
  MaxLine,        \* characters the line editor takes (255)
  TypesAtBoot,    \* somebody types before the shell runs
  MaxOut          \* bound: characters printed since the last clear

Size  == Cols * Rows
Cells == 0 .. Size - 1

ASSUME ConsoleAssumption ==
  /\ Cols \in Nat \ {0} /\ Rows \in Nat \ {0}
  /\ Byte \in Nat /\ Size <= Byte * Byte
  /\ MaxLine \in Nat /\ MaxLine <= (Rows - 1) * Cols /\ MaxOut \in Nat
  /\ TypesAtBoot \in BOOLEAN
  /\ Blank \notin Glyphs /\ NL # BS /\ {NL, BS} \cap Glyphs = {}

VARIABLES
  vidmem,         \* the cells of the screen
  index, hi, lo,  \* the VGA: which register the data port is, the cursor's bytes
  pc, ch, offset, \* print_char of the main thread
  IF_flag,        \* the processor's interrupt flag
  booting,        \* main has not jumped to user mode
  line_pos,       \* the keyboard driver's line: its length
  sheet, printed, \* history: what was printed since the screen was cleared
  seen,           \* history: cursor positions since get_cursor_offset was called
  cut             \* history: a line was being typed when the screen was last cleared

vga  == <<index, hi, lo>>
main == <<pc, ch, offset, IF_flag, booting>>
past == <<sheet, printed, seen, cut>>
vars == <<vidmem, vga, main, line_pos, past>>

-----------------------------------------------------------------------------
Cursor == hi * Byte + lo
High(at) == (at \div Byte) % Byte
Low(at)  == at % Byte
Data == IF index = 14 THEN hi ELSE lo

\* Writes outside of the video memory are lost.
Put(v, at, c) == [i \in Cells |-> IF i = at THEN c ELSE v[i]]

\* Where print_char goes on and what it writes, before it scrolls.
Moved(c, at) ==
  CASE c = NL -> (at \div Cols + 1) * Cols
    [] c = BS -> at - 1
    [] OTHER  -> at + 1

Written(c, at, v) ==
  CASE c = NL -> v
    [] c = BS -> Put(v, at - 1, Blank)
    [] OTHER  -> Put(v, at, c)

\* Mutant of Scrolled: the lines move up, the last one is not blanked.
ScrolledDirty(v, at) ==
  IF at < Size THEN v ELSE [i \in Cells |-> v[IF i + Cols < Size THEN i + Cols ELSE i]]

Scrolled(v, at) ==
  IF at < Size THEN v ELSE [i \in Cells |-> IF i + Cols < Size THEN v[i + Cols] ELSE Blank]

Back(at) == IF at < Size THEN at ELSE at - Cols

-----------------------------------------------------------------------------
(* What a console shows: the end of an endless sheet of lines.             *)

Sheet == 0 .. Size + Cols * MaxOut

EmptySheet == [text |-> [i \in Sheet |-> Blank], at |-> 0, top |-> 0]

\* One more character; the sheet moves up when its last line is full.
Printed(old, c) ==
  LET at == Moved(c, old.at)
      top == at \div Cols - Rows + 1
  IN [text |-> CASE c = NL -> old.text
                 [] c = BS -> [old.text EXCEPT ![at] = Blank]
                 [] OTHER  -> [old.text EXCEPT ![old.at] = c],
      at   |-> at,
      top  |-> IF top > old.top THEN top ELSE old.top]

Record(c) == sheet' = Printed(sheet, c) /\ printed' = printed + 1

Init ==
  /\ vidmem = [i \in Cells |-> Blank]
  /\ index \in {14, 15} /\ hi = 0 /\ lo = 0
  /\ pc = "more" /\ ch = NL /\ offset = 0
  /\ IF_flag = TRUE /\ booting = TRUE
  /\ line_pos = 0
  /\ sheet = EmptySheet /\ printed = 0 /\ seen = {} /\ cut = FALSE

-----------------------------------------------------------------------------
\* The keyboard handler echoes one character, uninterrupted.
Echo(c) ==
  LET at == Moved(c, Cursor)
  IN /\ IF_flag /\ (booting => TypesAtBoot)
     /\ printed < MaxOut
     /\ vidmem' = Scrolled(Written(c, Cursor, vidmem), at)
     /\ index' = 15 /\ hi' = High(Back(at)) /\ lo' = Low(Back(at))
     /\ Record(c)
     /\ seen' = seen \cup {hi' * Byte + lo'}
     /\ UNCHANGED <<main, cut>>

\* Mutant of Type: the line has no end.
TypeAnyway(c) ==
  /\ line_pos' = line_pos + 1
  /\ Echo(c)

Type(c) ==
  /\ line_pos < MaxLine /\ line_pos' = line_pos + 1
  /\ Echo(c)

Backspace ==
  /\ line_pos > 0 /\ line_pos' = line_pos - 1
  /\ Echo(BS)

Enter ==
  /\ line_pos' = 0
  /\ Echo(NL)

-----------------------------------------------------------------------------
(* The main thread.                                                        *)

\* Mutant of Syscall: vector 0x80 is a trap gate, which leaves the flag alone.
SyscallByTrapGate ==
  /\ pc = "user" /\ pc' = "more"
  /\ UNCHANGED <<vidmem, vga, ch, offset, IF_flag, booting, line_pos, past>>

\* A system call that prints: its interrupt gate clears the flag.
Syscall ==
  /\ pc = "user" /\ pc' = "more"
  /\ IF_flag' = FALSE
  /\ UNCHANGED <<vidmem, vga, ch, offset, booting, line_pos, past>>

\* The call returns; at the end of main, the jump to user mode.
Return ==
  /\ pc = "more" /\ pc' = "user"
  /\ IF_flag' = TRUE /\ booting' = FALSE
  /\ UNCHANGED <<vidmem, vga, ch, offset, line_pos, past>>

\* The next character of what the main thread prints.
PrintChar(c) ==
  /\ pc = "more" /\ pc' = "ask_high"
  /\ printed < MaxOut
  /\ ch' = c /\ seen' = {Cursor}
  /\ UNCHANGED <<vidmem, vga, offset, IF_flag, booting, line_pos, sheet, printed, cut>>

\* clear_screen, the command of that name.
ClearScreen ==
  /\ pc = "more" /\ ~booting /\ pc' = "set_high"
  /\ vidmem' = [i \in Cells |-> Blank]
  /\ offset' = 0
  /\ sheet' = EmptySheet /\ printed' = 0
  /\ cut' = (line_pos > 0)
  /\ UNCHANGED <<vga, ch, IF_flag, booting, line_pos, seen>>

\* get_cursor_offset
AskHigh ==
  /\ pc = "ask_high" /\ pc' = "read_high"
  /\ index' = 14
  /\ UNCHANGED <<vidmem, hi, lo, ch, offset, IF_flag, booting, line_pos, past>>

ReadHigh ==
  /\ pc = "read_high" /\ pc' = "ask_low"
  /\ offset' = Data * Byte
  /\ UNCHANGED <<vidmem, vga, ch, IF_flag, booting, line_pos, past>>

AskLow ==
  /\ pc = "ask_low" /\ pc' = "read_low"
  /\ index' = 15
  /\ UNCHANGED <<vidmem, hi, lo, ch, offset, IF_flag, booting, line_pos, past>>

ReadLow ==
  /\ pc = "read_low" /\ pc' = "write"
  /\ offset' = offset + Data
  /\ UNCHANGED <<vidmem, vga, ch, IF_flag, booting, line_pos, past>>

Write ==
  /\ pc = "write" /\ pc' = "scroll"
  /\ vidmem' = Written(ch, offset, vidmem)
  /\ offset' = Moved(ch, offset)
  /\ Record(ch)
  /\ UNCHANGED <<vga, ch, IF_flag, booting, line_pos, seen, cut>>

Scroll ==
  /\ pc = "scroll" /\ pc' = "set_high"
  /\ vidmem' = Scrolled(vidmem, offset)
  /\ offset' = Back(offset)
  /\ UNCHANGED <<vga, ch, IF_flag, booting, line_pos, past>>

\* set_cursor_offset
SetHigh ==
  /\ pc = "set_high" /\ pc' = "write_high"
  /\ index' = 14
  /\ UNCHANGED <<vidmem, hi, lo, ch, offset, IF_flag, booting, line_pos, past>>

Out(byte) ==
  IF index = 14 THEN hi' = byte /\ UNCHANGED lo ELSE lo' = byte /\ UNCHANGED hi

WriteHigh ==
  /\ pc = "write_high" /\ pc' = "set_low"
  /\ Out(High(offset))
  /\ UNCHANGED <<vidmem, index, ch, offset, IF_flag, booting, line_pos, past>>

SetLow ==
  /\ pc = "set_low" /\ pc' = "write_low"
  /\ index' = 15
  /\ UNCHANGED <<vidmem, hi, lo, ch, offset, IF_flag, booting, line_pos, past>>

WriteLow ==
  /\ pc = "write_low" /\ pc' = "more"
  /\ Out(Low(offset))
  /\ UNCHANGED <<vidmem, index, ch, offset, IF_flag, booting, line_pos, past>>

Next ==
  \/ (\E c \in Glyphs : Type(c)) \/ Backspace \/ Enter
  \/ Syscall \/ Return \/ ClearScreen
  \/ \E c \in Glyphs \cup {NL} : PrintChar(c)
  \/ AskHigh \/ ReadHigh \/ AskLow \/ ReadLow \/ Write \/ Scroll
  \/ SetHigh \/ WriteHigh \/ SetLow \/ WriteLow

Spec == Init /\ [][Next]_vars

-----------------------------------------------------------------------------
\* No print is in progress.
Quiet == pc \in {"more", "user"}

\* The registers hold bytes, a print in progress stays near the screen.
TypeOK ==
  /\ vidmem \in [Cells -> Glyphs \cup {Blank}]
  /\ index \in {14, 15} /\ hi \in 0 .. Byte - 1 /\ lo \in 0 .. Byte - 1
  /\ IF_flag \in BOOLEAN /\ booting \in BOOLEAN /\ cut \in BOOLEAN
  /\ offset \in Int /\ ch \in Glyphs \cup {NL}
  /\ line_pos \in 0 .. MaxLine
  /\ sheet.text \in [Sheet -> Glyphs \cup {Blank}] /\ sheet.at \in Int /\ sheet.top \in Nat
  /\ printed \in 0 .. MaxOut

\* Between prints the screen shows the last lines of everything that was
\* printed and echoed, in that order, and the cursor stands behind them (on the
\* screen, so), unless the screen was last cleared while a line was being typed: erasing that line
\* takes the cursor off the screen.
ShowsOutput ==
  Quiet /\ ~cut =>
    /\ vidmem = [i \in Cells |-> sheet.text[sheet.top * Cols + i]]
    /\ Cursor = sheet.at - sheet.top * Cols

\* screen.c:100 "Use the VGA ports to get the current cursor position": what
\* get_cursor_offset returns is where the cursor was at some time of the call.
GetsCursor == pc = "write" => offset \in seen
=============================================================================
