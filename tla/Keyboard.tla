------------------------------ MODULE Keyboard ------------------------------
(***************************************************************************)
(* drivers/keyboard.c: the line editor of the IRQ 1 handler, the ring it   *)
(* commits lines to, and keyboard_read, the blocking system call that      *)
(* takes them out.  The two meet on one processor: the handler runs        *)
(* between any two steps of the program for which the interrupt flag is    *)
(* set, and is not itself interrupted (its gate clears the flag).          *)
(*                                                                         *)
(* A key is what scancode_to_ascii makes of it (module Scancode): Enter,    *)
(* Backspace, one of Chars; the keys the handler ignores and the modifier  *)
(* keys change none of these variables.  Echoing is left out.              *)
(***************************************************************************)
EXTENDS Integers, Sequences, SequencesExt

CONSTANTS
  BufferSize,   \* BUFFER_SIZE, the size of input_buffer and line_buffer (256)
  Chars,        \* the characters other than newline a key can produce
  NL,           \* '\n'
  Counts        \* the counts callers pass to read

ASSUME KeyboardAssumption ==
  /\ BufferSize \in Nat /\ BufferSize > 1
  /\ NL \notin Chars
  /\ Counts \subseteq Nat \ {0}

Cells == 0 .. BufferSize - 1

VARIABLES
  input_buffer, read_pos, write_pos,   \* the ring of committed bytes
  line,         \* line_buffer up to line_pos
  IF_flag,      \* the processor's interrupt flag
  pc,           \* where the thread that reads is
  count,        \* keyboard_read's argument
  got,          \* user_buf up to bytes_read
  pending,      \* history: committed bytes no read has taken yet
  overrun       \* history: a line was committed that did not fit

ring   == <<input_buffer, read_pos, write_pos>>
reader == <<pc, count, got, IF_flag>>
vars   == <<ring, line, reader, pending, overrun>>

-----------------------------------------------------------------------------
Wrap(i) == i % BufferSize
Unread  == Wrap(write_pos - read_pos)

\* The bytes from read_pos up to write_pos.
RingContents == [i \in 1 .. Unread |-> input_buffer[Wrap(read_pos + i - 1)]]

\* has_complete_line
HasCompleteLine == \E i \in 1 .. Unread : RingContents[i] = NL

Init ==
  /\ input_buffer = [i \in Cells |-> 0]      \* .bss
  /\ read_pos = 0 /\ write_pos = 0
  /\ line = <<>>
  /\ pc = "user" /\ IF_flag = TRUE
  /\ count = 0 /\ got = <<>>
  /\ pending = <<>> /\ overrun = FALSE

-----------------------------------------------------------------------------
(* Interrupts.  One that finds the processor halted resumes it.            *)

\* Where iret leads: on with the interrupted step, or behind the hlt.
Resumed == IF pc = "halted" THEN "check" ELSE pc

\* irq_handler acknowledges the interrupt before it calls the handler, which
\* runs to its end: one that arrives meanwhile is taken behind the iret.
Interrupt ==
  /\ IF_flag
  /\ pc' = Resumed
  /\ UNCHANGED <<count, got, IF_flag>>

\* commit_line writes the line and a newline without looking at read_pos.
Enter ==
  LET bytes == Append(line, NL)
      offset(i) == Wrap(i - write_pos)
  IN /\ Interrupt
     /\ input_buffer' = [i \in Cells |-> IF offset(i) < Len(bytes)
                                         THEN bytes[offset(i) + 1]
                                         ELSE input_buffer[i]]
     /\ write_pos' = Wrap(write_pos + Len(bytes))
     /\ line' = <<>>
     /\ overrun' = (overrun \/ Unread + Len(bytes) >= BufferSize)
     /\ pending' = IF overrun' THEN <<>> ELSE pending \o bytes
     /\ UNCHANGED read_pos

Backspace ==
  /\ Interrupt
  /\ line # <<>>
  /\ line' = Front(line)
  /\ UNCHANGED <<ring, pending, overrun>>

\* Mutant of Char: line_pos is not compared with BUFFER_SIZE - 1.
CharsUnbounded(c) ==
  /\ Interrupt
  /\ line' = Append(line, c)
  /\ UNCHANGED <<ring, pending, overrun>>

Char(c) ==
  /\ Interrupt
  /\ Len(line) < BufferSize - 1
  /\ line' = Append(line, c)
  /\ UNCHANGED <<ring, pending, overrun>>

\* Mutant of Tick: the timer is not programmed and nobody types.
NeverTicks == FALSE /\ UNCHANGED vars

\* A modifier, a released key, one without a character: the handler returns
\* early.  Like the tick it matters to a halted processor only.
IgnoredKey ==
  /\ pc = "halted" /\ Interrupt
  /\ UNCHANGED <<ring, line, pending, overrun>>

\* The timer's handler counts.
Tick ==
  /\ pc = "halted" /\ Interrupt
  /\ UNCHANGED <<ring, line, pending, overrun>>

-----------------------------------------------------------------------------
(* The reading thread.  The system call gate clears the interrupt flag;    *)
(* keyboard_read sets it when it first has to wait and never clears it.    *)

sys_read(n) ==
  /\ pc = "user" /\ pc' = "check"
  /\ IF_flag' = FALSE
  /\ count' = n /\ got' = <<>>
  /\ UNCHANGED <<ring, line, pending, overrun>>

Check ==
  /\ pc = "check"
  /\ pc' = IF HasCompleteLine THEN "copy" ELSE "wait"
  /\ UNCHANGED <<ring, line, count, got, IF_flag, pending, overrun>>

\* sti; hlt.  After the first round the flag is set already, and an interrupt
\* can come between the check and the hlt.
Halt ==
  /\ pc = "wait" /\ pc' = "halted"
  /\ IF_flag' = TRUE
  /\ UNCHANGED <<ring, line, count, got, pending, overrun>>

\* Mutant of CopyDone: the copy loop does not stop at a newline.
CopiesAllLines == Len(got) >= count \/ read_pos = write_pos

CopyDone ==
  \/ Len(got) >= count \/ read_pos = write_pos
  \/ got # <<>> /\ Last(got) = NL

CopyByte ==
  /\ pc = "copy" /\ ~CopyDone
  /\ got' = Append(got, input_buffer[read_pos])
  /\ read_pos' = Wrap(read_pos + 1)
  /\ pending' = IF overrun THEN <<>> ELSE Tail(pending)
  /\ UNCHANGED <<input_buffer, write_pos, line, pc, count, IF_flag, overrun>>

\* Mutant of Return: what the caller had no room for is flushed.
ReturnFlushes ==
  /\ pc = "copy" /\ CopyDone
  /\ pc' = "user" /\ IF_flag' = TRUE
  /\ read_pos' = write_pos
  /\ UNCHANGED <<input_buffer, write_pos, line, count, got, pending, overrun>>

\* The return to user mode restores the caller's interrupt flag.
Return ==
  /\ pc = "copy" /\ CopyDone
  /\ pc' = "user" /\ IF_flag' = TRUE
  /\ UNCHANGED <<ring, line, count, got, pending, overrun>>

ReaderStep == Check \/ Halt \/ CopyByte \/ Return

Next ==
  \/ Enter \/ Backspace \/ (\E c \in Chars : Char(c)) \/ IgnoredKey \/ Tick
  \/ (\E n \in Counts : sys_read(n))
  \/ ReaderStep

\* The processor executes the reading thread whenever it is not halted, and
\* the timer interrupts at 50 Hz.  Nobody has to type, and no one has to read.
Spec == Init /\ [][Next]_vars /\ WF_vars(ReaderStep) /\ WF_vars(Tick)

-----------------------------------------------------------------------------
\* The ring, the line and the reader stay within their buffers.
TypeOK ==
  /\ input_buffer \in [Cells -> Chars \cup {NL, 0}]
  /\ read_pos \in Cells /\ write_pos \in Cells
  /\ line \in Seq(Chars) /\ Len(line) < BufferSize
  /\ IF_flag \in BOOLEAN
  /\ pc \in {"user", "check", "wait", "halted", "copy"}
  /\ count \in Counts \cup {0}
  /\ got \in Seq(Chars \cup {NL, 0}) /\ Len(got) <= count
  /\ pending \in Seq(Chars \cup {NL})
  /\ overrun \in BOOLEAN

\* While every line fitted, what lies between read_pos and write_pos is exactly
\* the committed and unread bytes, in order, whatever interrupts the copy loop.
RingHoldsStream == overrun \/ RingContents = pending

\* keyboard_read "waits until a complete line is available": it returns once
\* one is, also if the interrupt comes between its check and its hlt.
LineIsDelivered == (pc # "user" /\ HasCompleteLine) ~> (pc = "user" \/ overrun)

\* keyboard.c:65 "Commit current line to the input buffer": when the handler
\* for Enter is done the reader finds a complete line (keyboard.c:126).
EnterMakesLineAvailable == [][Enter => HasCompleteLine']_vars

\* To its callers the driver is the line queue of LineQueue; bytes count as
\* returned when the call returns.
Stream == IF pc = "copy" THEN got \o pending ELSE pending
Wanted == IF pc = "user" THEN 0 ELSE count
Answer == IF pc = "user" THEN got ELSE <<>>

LQ == INSTANCE LineQueue WITH
  Capacity <- BufferSize - 1, typed <- Len(line),
  stream <- Stream, wanted <- Wanted, answer <- Answer, void <- overrun

DeliversLines == LQ!Spec
=============================================================================
