--------------------------- MODULE KeyboardProofs ---------------------------
(***************************************************************************)
(* The keyboard driver implements the line queue, for every size of the    *)
(* ring, every alphabet and every count a reader may pass.                 *)
(*                                                                         *)
(* The invariant says, of a ring that never overflowed, that its bytes are *)
(* the pending ones; and of a reader that is copying, that a whole line    *)
(* lies in front of it, of which it has taken no newline but the last.     *)
(***************************************************************************)
EXTENDS Keyboard, SequenceTheorems, TLAPS

-----------------------------------------------------------------------------
(* The invariant.                                                          *)

\* The ring's bytes, cell by cell.
Holds ==
  IF overrun THEN pending = <<>>
  ELSE /\ Len(pending) = Unread
       /\ \A i \in 1 .. Unread : input_buffer[Wrap(read_pos + i - 1)] = pending[i]

HasLine(s) == \E i \in 1 .. Len(s) : s[i] = NL

\* The newlines of what has been copied: none but possibly the last byte.
OneLine(s) == \A i \in 1 .. Len(s) - 1 : s[i] # NL

Reading ==
  /\ pc # "user" => count # 0
  /\ pc \in {"check", "wait", "halted"} => got = <<>>
  /\ pc = "copy" => OneLine(got)
  /\ pc = "copy" /\ ~overrun => HasLine(got \o pending)

IInv == TypeOK /\ Holds /\ Reading

-----------------------------------------------------------------------------
(* Positions in the ring.                                                  *)

\* Positions are at most once around: `% BUFFER_SIZE' adds or takes one round.
LEMMA WrapIs ==
  ASSUME NEW i \in Int, -BufferSize <= i, i < 2 * BufferSize
  PROVE  Wrap(i) = IF i < 0 THEN i + BufferSize
                   ELSE IF i < BufferSize THEN i ELSE i - BufferSize
  BY KeyboardAssumption DEF Wrap, KeyboardAssumption

\* The bytes between two positions, which are equal when there are none.
LEMMA Between ==
  ASSUME NEW r \in Cells, NEW w \in Cells
  PROVE  /\ Wrap(w - r) \in Cells /\ Wrap(w - r) \in Nat
         /\ Wrap(w - r) = IF r <= w THEN w - r ELSE w - r + BufferSize
         /\ Wrap(w - r) = 0 <=> r = w
  <1>1. Wrap(w - r) = IF r <= w THEN w - r ELSE w - r + BufferSize
    BY KeyboardAssumption, WrapIs DEF Cells, KeyboardAssumption
  <1> QED
    BY <1>1, KeyboardAssumption DEF Cells, KeyboardAssumption

\* A position in the ring is the position of one of its bytes.
LEMMA InRing ==
  ASSUME read_pos \in Cells, NEW i \in 1 .. BufferSize
  PROVE  /\ Wrap(read_pos + i - 1) \in Cells
         /\ Wrap(read_pos + i - 1) = IF read_pos + i - 1 < BufferSize THEN read_pos + i - 1
                                     ELSE read_pos + i - 1 - BufferSize
  BY KeyboardAssumption, WrapIs DEF Cells, KeyboardAssumption

\* A sequence and the ring with the same bytes are equal.
LEMMA HoldsIsEqual == TypeOK /\ Holds => RingHoldsStream
  <1> SUFFICES ASSUME TypeOK, Holds, ~overrun PROVE RingContents = pending
    BY DEF RingHoldsStream
  <1>1. pending = [i \in 1 .. Len(pending) |-> pending[i]]
    BY DEF TypeOK
  <1> QED
    BY <1>1 DEF Holds, RingContents

-----------------------------------------------------------------------------
(* The handler for Enter.                                                  *)

\* commit_line: a line that fits leaves the unread bytes alone and lies behind
\* them; the positions have moved as `% BUFFER_SIZE' says.
LEMMA CommitsBehind ==
  ASSUME TypeOK, Holds, Enter, ~overrun'
  PROVE  /\ Unread' = Unread + Len(line) + 1
         /\ \A i \in 1 .. Unread' :
              input_buffer'[Wrap(read_pos' + i - 1)] = pending'[i]
         /\ Len(pending') = Unread'
  <1> DEFINE bytes == Append(line, NL)
             L == Len(line) + 1
             offset(i) == Wrap(i - write_pos)
  <1>1. /\ bytes \in Seq(Chars \cup {NL}) /\ Len(bytes) = L
        /\ L \in 1 .. BufferSize
    BY KeyboardAssumption DEF TypeOK, KeyboardAssumption
  <1> HIDE DEF bytes, L
  <1>2. /\ ~overrun /\ Unread + L < BufferSize
        /\ pending' = pending \o bytes
    <2>1. overrun' = (overrun \/ Unread + Len(bytes) >= BufferSize)
          /\ pending' = IF overrun' THEN <<>> ELSE pending \o bytes
      BY DEF Enter, bytes
    <2>2. ~overrun /\ ~(Unread + L >= BufferSize)
      BY <2>1, <1>1
    <2>3. Unread \in Nat /\ BufferSize \in Nat
      BY Between, KeyboardAssumption DEF TypeOK, Unread, KeyboardAssumption
    <2>4. L \in Nat
      BY <1>1
    <2>5. Unread + L < BufferSize
      BY <2>2, <2>3, <2>4
    <2>6. pending' = pending \o bytes
      BY <2>1
    <2> QED
      BY <2>2, <2>5, <2>6
  <1>3. /\ read_pos' = read_pos /\ write_pos' = Wrap(write_pos + L)
        /\ \A i \in Cells : input_buffer'[i] = IF offset(i) < L THEN bytes[offset(i) + 1]
                                               ELSE input_buffer[i]
    BY <1>1 DEF Enter, bytes
  <1>4. /\ read_pos \in Cells /\ write_pos \in Cells
        /\ read_pos \in Nat /\ write_pos \in Nat /\ L \in Nat /\ BufferSize \in Nat
        /\ read_pos < BufferSize /\ write_pos < BufferSize /\ Unread \in Nat
    <2>1. read_pos \in Cells /\ write_pos \in Cells
      BY DEF TypeOK
    <2>2. Unread \in Nat
      BY <2>1, Between DEF Unread
    <2> QED
      BY <1>1, <2>1, <2>2, KeyboardAssumption DEF Cells, KeyboardAssumption
  <1>5. Unread = IF read_pos <= write_pos THEN write_pos - read_pos
                 ELSE write_pos - read_pos + BufferSize
    BY <1>4, Between DEF Unread
  <1>6. write_pos' = IF write_pos + L < BufferSize THEN write_pos + L
                     ELSE write_pos + L - BufferSize
    BY <1>1, <1>3, <1>4, WrapIs
  <1>7. write_pos' \in Cells /\ read_pos' \in Cells
    BY <1>1, <1>3, <1>4, <1>6 DEF Cells
  <1>8. Unread' = Unread + L
    <2>1. Unread' = IF read_pos' <= write_pos' THEN write_pos' - read_pos'
                    ELSE write_pos' - read_pos' + BufferSize
      <3>1. Unread' = Wrap(write_pos' - read_pos')
        BY DEF Unread, Wrap
      <3> QED
        BY <1>7, <3>1, Between
    <2>2. CASE write_pos + L < BufferSize
      BY <1>2, <1>3, <1>4, <1>5, <1>6, <2>1, <2>2
    <2>3. CASE ~(write_pos + L < BufferSize)
      BY <1>1, <1>2, <1>3, <1>4, <1>5, <1>6, <2>1, <2>3
    <2> QED
      BY <2>2, <2>3
  <1>9. pending \in Seq(Chars \cup {NL}) /\ Len(pending) = Unread
    BY <1>2 DEF TypeOK, Holds
  <1>10. ASSUME NEW i \in 1 .. Unread'
         PROVE  input_buffer'[Wrap(read_pos' + i - 1)] = pending'[i]
    <2> DEFINE at == Wrap(read_pos + i - 1)
    <2>1. /\ i \in 1 .. BufferSize /\ i < BufferSize /\ i \in Nat
          /\ Unread \in Nat /\ i <= Unread + L
      BY <1>2, <1>4, <1>5, <1>8
    <2>2. /\ at \in Cells
          /\ at = IF read_pos + i - 1 < BufferSize THEN read_pos + i - 1
                  ELSE read_pos + i - 1 - BufferSize
      BY <1>4, <2>1, InRing
    <2>3. offset(at) = IF at - write_pos < 0 THEN at - write_pos + BufferSize
                       ELSE at - write_pos
      <3>1. at - write_pos \in Int /\ -BufferSize <= at - write_pos
            /\ at - write_pos < BufferSize
        BY <1>4, <2>2 DEF Cells
      <3> QED
        BY <1>4, <3>1, WrapIs
    <2>4. CASE i <= Unread
      <3>1. ~(offset(at) < L)
        BY <1>2, <1>4, <1>5, <2>1, <2>2, <2>3, <2>4
      <3>2. input_buffer'[at] = input_buffer[at]
        BY <1>3, <2>2, <3>1
      <3>3. input_buffer[at] = pending[i]
        BY <1>2, <2>1, <2>4 DEF Holds
      <3>4. pending'[i] = pending[i]
        BY <1>1, <1>2, <1>9, <2>1, <2>4
      <3> QED
        BY <1>3, <3>2, <3>3, <3>4
    <2>5. CASE i > Unread
      <3>1. offset(at) = i - Unread - 1
        BY <1>2, <1>4, <1>5, <2>1, <2>2, <2>3, <2>5
      <3>2. offset(at) < L /\ offset(at) + 1 = i - Unread
        BY <1>4, <2>1, <2>5, <3>1
      <3>3. input_buffer'[at] = bytes[i - Unread]
        BY <1>3, <2>2, <3>2
      <3>4. pending'[i] = bytes[i - Unread]
        BY <1>1, <1>2, <1>9, <2>1, <2>5
      <3> QED
        BY <1>3, <3>3, <3>4
    <2> QED
      BY <2>1, <2>4, <2>5
  <1>11. Len(pending') = Unread'
    <2>1. Len(pending \o bytes) = Len(pending) + Len(bytes)
      BY <1>1, <1>9
    <2> QED
      BY <1>1, <1>2, <1>8, <1>9, <2>1
  <1>12. Unread' = Unread + Len(line) + 1
    <2>1. Len(line) \in Nat
      BY DEF TypeOK
    <2> QED
      BY <1>4, <1>8, <2>1 DEF L
  <1> QED
    BY <1>10, <1>11, <1>12

\* What a committed line does to the stream of bytes that it joins.
LEMMA CommitsLine ==
  ASSUME TypeOK, NEW s \in Seq(Chars \cup {NL, 0})
  PROVE  LET t == s \o Append(line, NL)
         IN /\ t \in Seq(Chars \cup {NL, 0}) /\ Len(t) = Len(s) + Len(line) + 1
            /\ \A i \in 1 .. Len(s) : t[i] = s[i]
            /\ \A i \in Len(s) + 1 .. Len(t) : t[i] = NL <=> i = Len(t)
  <1> DEFINE bytes == Append(line, NL)
             t == s \o bytes
  <1>1. /\ line \in Seq(Chars) /\ NL \notin Chars /\ Len(s) \in Nat /\ Len(line) \in Nat
        /\ bytes \in Seq(Chars \cup {NL, 0}) /\ Len(bytes) = Len(line) + 1
    BY KeyboardAssumption DEF TypeOK, KeyboardAssumption
  <1>2. \A i \in 1 .. Len(bytes) : bytes[i] = NL <=> i = Len(bytes)
    <2> TAKE i \in 1 .. Len(bytes)
    <2>1. i <= Len(line) => bytes[i] = line[i] /\ line[i] \in Chars
      BY <1>1
    <2>2. i = Len(bytes) => bytes[i] = NL
      BY <1>1
    <2> QED
      BY <1>1, <2>1, <2>2
  <1> HIDE DEF bytes
  <1>3. t \in Seq(Chars \cup {NL, 0}) /\ Len(t) = Len(s) + Len(bytes)
    BY <1>1
  <1>4. \A i \in 1 .. Len(s) : t[i] = s[i]
    BY <1>1
  <1>5. \A i \in Len(s) + 1 .. Len(t) : t[i] = bytes[i - Len(s)]
    BY <1>1, <1>3
  <1>6. \A i \in Len(s) + 1 .. Len(t) : t[i] = NL <=> i = Len(t)
    <2> HIDE DEF t
    <2> TAKE i \in Len(s) + 1 .. Len(t)
    <2>1. i - Len(s) \in 1 .. Len(bytes)
      BY <1>1, <1>3
    <2>2. bytes[i - Len(s)] = NL <=> i - Len(s) = Len(bytes)
      BY <1>2, <2>1
    <2> QED
      BY <1>1, <1>3, <1>5, <2>2
  <1> HIDE DEF t
  <1>7. Len(t) = Len(s) + Len(line) + 1
    BY <1>1, <1>3
  <1> QED
    BY <1>3, <1>4, <1>6, <1>7 DEF t, bytes

\* The handler for Enter keeps the invariant, wherever it interrupts the reader.
LEMMA EnterInv == IInv /\ Enter => IInv'
  <1> SUFFICES ASSUME IInv, Enter PROVE IInv'
    OBVIOUS
  <1> USE KeyboardAssumption DEF KeyboardAssumption
  <1>1. TypeOK /\ Holds /\ Reading
    BY DEF IInv
  <1>2. /\ overrun' \in BOOLEAN
        /\ pending' = IF overrun' THEN <<>> ELSE pending \o Append(line, NL)
        /\ ~overrun' => ~overrun
    BY DEF Enter
  <1>3. /\ pc' = Resumed /\ UNCHANGED <<count, got, IF_flag, read_pos>>
        /\ line' = <<>>
        /\ write_pos' = Wrap(write_pos + Len(Append(line, NL)))
    BY DEF Enter, Interrupt
  <1>4. line \in Seq(Chars) /\ Len(line) < BufferSize /\ Len(Append(line, NL)) = Len(line) + 1
    BY <1>1 DEF TypeOK
  <1>5. TypeOK'
    <2>1. input_buffer' \in [Cells -> Chars \cup {NL, 0}]
      <3> DEFINE bytes == Append(line, NL)
      <3>1. bytes \in Seq(Chars \cup {NL, 0})
        BY <1>4
      <3> HIDE DEF bytes
      <3>2. input_buffer' = [i \in Cells |-> IF Wrap(i - write_pos) < Len(bytes)
                                             THEN bytes[Wrap(i - write_pos) + 1]
                                             ELSE input_buffer[i]]
        BY DEF Enter, bytes
      <3>3. \A i \in Cells : Wrap(i - write_pos) \in Nat
        BY <1>1, Between DEF TypeOK
      <3> QED
        BY <1>1, <3>1, <3>2, <3>3 DEF TypeOK
    <2>2. write_pos' \in Cells
      <3>1. write_pos \in Nat /\ write_pos < BufferSize
        BY <1>1 DEF TypeOK, Cells
      <3>2. Len(line) \in Nat
        BY <1>4
      <3>3. write_pos + Len(Append(line, NL)) \in 0 .. 2 * BufferSize - 1
        BY <1>4, <3>1, <3>2
      <3> QED
        BY <1>3, <3>3, WrapIs DEF Cells
    <2>3. pending' \in Seq(Chars \cup {NL})
      <3>1. Append(line, NL) \in Seq(Chars \cup {NL})
        BY <1>4
      <3> QED
        BY <1>1, <1>2, <3>1 DEF TypeOK
    <2>4. pc' \in {"user", "check", "wait", "halted", "copy"}
      BY <1>1, <1>3 DEF TypeOK, Resumed
    <2> QED
      BY <1>1, <1>2, <1>3, <2>1, <2>2, <2>3, <2>4 DEF TypeOK
  <1>6. Holds'
    <2>1. CASE overrun'
      BY <1>2, <2>1 DEF Holds
    <2>2. CASE ~overrun'
      BY <1>1, <2>2, CommitsBehind DEF Holds, Wrap
    <2> QED
      BY <2>1, <2>2
  <1>7. Reading'
    <2>1. ASSUME pc' = "copy", ~overrun' PROVE HasLine(got \o pending)'
      <3>1. pc = "copy" /\ ~overrun /\ HasLine(got \o pending)
        BY <1>1, <1>2, <1>3, <2>1 DEF Reading, Resumed
      <3> DEFINE s == got \o pending
                 t == s \o Append(line, NL)
      <3>2. s \in Seq(Chars \cup {NL, 0})
        BY <1>1 DEF TypeOK
      <3>3. (got \o pending)' = t
        <4>1. got \in Seq(Chars \cup {NL, 0}) /\ pending \in Seq(Chars \cup {NL, 0})
              /\ Append(line, NL) \in Seq(Chars \cup {NL, 0})
          BY <1>1 DEF TypeOK
        <4>2. \A x, y, z \in Seq(Chars \cup {NL, 0}) : (x \o y) \o z = x \o (y \o z)
          BY ConcatAssociative
        <4>3. got' = got /\ pending' = pending \o Append(line, NL)
          BY <1>2, <1>3, <2>1
        <4> QED
          BY <4>1, <4>2, <4>3
      <3>4. Len(s) \in Nat /\ Len(t) >= Len(s) /\ \A i \in 1 .. Len(s) : t[i] = s[i]
        BY <1>1, <1>4, <2>1, <3>2, CommitsLine
      <3>5. PICK i \in 1 .. Len(s) : s[i] = NL
        BY <3>1 DEF HasLine
      <3>6. i \in 1 .. Len(t) /\ t[i] = NL
        BY <3>2, <3>4, <3>5
      <3> HIDE DEF t
      <3> QED
        BY <3>3, <3>6 DEF HasLine
    <2> QED
      BY <1>1, <1>3, <2>1 DEF Reading, Resumed, OneLine
  <1> QED
    BY <1>5, <1>6, <1>7 DEF IInv

-----------------------------------------------------------------------------
(* The copy loop.                                                          *)

\* The byte the loop takes is the first of the pending ones, and the others
\* are where the new read_pos finds them.
LEMMA TakesFirst ==
  ASSUME TypeOK, Holds, CopyByte, ~overrun
  PROVE  /\ pending # <<>> /\ input_buffer[read_pos] = Head(pending)
         /\ pending' = Tail(pending)
         /\ Unread' = Unread - 1
         /\ \A i \in 1 .. Unread' : input_buffer'[Wrap(read_pos' + i - 1)] = pending'[i]
  <1> USE KeyboardAssumption DEF KeyboardAssumption
  <1>1. /\ read_pos \in Cells /\ write_pos \in Cells /\ read_pos # write_pos
        /\ pending \in Seq(Chars \cup {NL}) /\ Len(pending) = Unread
        /\ read_pos' = Wrap(read_pos + 1) /\ UNCHANGED <<input_buffer, write_pos>>
        /\ pending' = Tail(pending)
    BY DEF TypeOK, Holds, CopyByte, CopyDone
  <1>2. /\ Unread \in 1 .. BufferSize - 1
        /\ Unread = IF read_pos <= write_pos THEN write_pos - read_pos
                    ELSE write_pos - read_pos + BufferSize
    BY <1>1, Between DEF Unread, Cells
  <1>3. pending # <<>>
    BY <1>1, <1>2
  <1>4. input_buffer[read_pos] = Head(pending)
    <2>1. Wrap(read_pos + 1 - 1) = read_pos
      BY <1>1, WrapIs DEF Cells
    <2>2. pending[1] = Head(pending)
      BY <1>1, <1>3
    <2>3. input_buffer[Wrap(read_pos + 1 - 1)] = pending[1]
      BY <1>2 DEF Holds
    <2> QED
      BY <2>1, <2>2, <2>3
  <1>5. /\ read_pos' = IF read_pos + 1 < BufferSize THEN read_pos + 1 ELSE 0
        /\ read_pos' \in Cells
    BY <1>1, WrapIs DEF Cells
  <1>6. Unread' = Unread - 1
    <2>1. Unread' = Wrap(write_pos - read_pos')
      BY <1>1 DEF Unread, Wrap
    <2>2. Unread' = IF read_pos' <= write_pos THEN write_pos - read_pos'
                    ELSE write_pos - read_pos' + BufferSize
      BY <1>1, <1>5, <2>1, Between
    <2> QED
      BY <1>1, <1>2, <1>5, <2>2 DEF Cells
  <1>7. ASSUME NEW i \in 1 .. Unread'
        PROVE  input_buffer'[Wrap(read_pos' + i - 1)] = pending'[i]
    <2>1. i \in Nat /\ i + 1 \in 1 .. Unread /\ i \in 1 .. BufferSize /\ i + 1 \in 1 .. BufferSize
      BY <1>2, <1>6
    <2>2. Wrap(read_pos' + i - 1) = Wrap(read_pos + (i + 1) - 1)
      <3>1. Wrap(read_pos + (i + 1) - 1)
              = IF read_pos + i < BufferSize THEN read_pos + i ELSE read_pos + i - BufferSize
        BY <1>1, <2>1, WrapIs DEF Cells
      <3>2. Wrap(read_pos' + i - 1)
              = IF read_pos' + i - 1 < BufferSize THEN read_pos' + i - 1
                ELSE read_pos' + i - 1 - BufferSize
        BY <1>5, <2>1, WrapIs DEF Cells
      <3>3. read_pos \in Nat /\ read_pos < BufferSize
        BY <1>1 DEF Cells
      <3>4. CASE read_pos + 1 < BufferSize
        BY <1>5, <2>1, <3>1, <3>2, <3>3, <3>4
      <3>5. CASE read_pos + 1 = BufferSize
        <4>1. read_pos' + i - 1 = i - 1 /\ i - 1 < BufferSize
          BY <1>5, <2>1, <3>5
        <4>2. read_pos + i - BufferSize = i - 1 /\ ~(read_pos + i < BufferSize)
          BY <2>1, <3>3, <3>5
        <4> QED
          BY <3>1, <3>2, <4>1, <4>2
      <3> QED
        BY <3>3, <3>4, <3>5
    <2>3. input_buffer[Wrap(read_pos + (i + 1) - 1)] = pending[i + 1]
      BY <2>1 DEF Holds
    <2>4. pending'[i] = pending[i + 1]
      BY <1>1, <1>3, <2>1, <1>2
    <2> QED
      BY <1>1, <2>2, <2>3, <2>4
  <1> QED
    BY <1>1, <1>3, <1>4, <1>6, <1>7

\* The first byte moves from the front of what is pending to the end of what
\* has been copied: the stream stays the same.
LEMMA MovesFirst ==
  ASSUME NEW S, NEW s \in Seq(S), NEW t \in Seq(S), t # <<>>
  PROVE  Append(s, Head(t)) \o Tail(t) = s \o t
  <1> DEFINE u == Append(s, Head(t)) \o Tail(t)
             v == s \o t
  <1>1. /\ Head(t) \in S /\ Tail(t) \in Seq(S) /\ Len(Tail(t)) = Len(t) - 1
        /\ Len(s) \in Nat /\ Len(t) \in Nat /\ Len(t) > 0
        /\ \A i \in 1 .. Len(Tail(t)) : Tail(t)[i] = t[i + 1]
        /\ Head(t) = t[1]
    BY HeadTailProperties
  <1>2. /\ Append(s, Head(t)) \in Seq(S) /\ Len(Append(s, Head(t))) = Len(s) + 1
        /\ \A i \in 1 .. Len(s) : Append(s, Head(t))[i] = s[i]
        /\ Append(s, Head(t))[Len(s) + 1] = Head(t)
    BY <1>1, AppendProperties
  <1>3. /\ u \in Seq(S) /\ Len(u) = Len(s) + Len(t)
        /\ \A i \in 1 .. Len(u) : u[i] = IF i <= Len(s) + 1 THEN Append(s, Head(t))[i]
                                         ELSE Tail(t)[i - (Len(s) + 1)]
    BY <1>1, <1>2, ConcatProperties
  <1>4. /\ v \in Seq(S) /\ Len(v) = Len(s) + Len(t)
        /\ \A i \in 1 .. Len(v) : v[i] = IF i <= Len(s) THEN s[i] ELSE t[i - Len(s)]
    BY <1>1, ConcatProperties
  <1>5. \A i \in 1 .. Len(u) : u[i] = v[i]
    <2> HIDE DEF u, v
    <2> TAKE i \in 1 .. Len(u)
    <2>1. CASE i <= Len(s)
      BY <1>1, <1>2, <1>3, <1>4, <2>1
    <2>2. CASE i = Len(s) + 1
      BY <1>1, <1>2, <1>3, <1>4, <2>2
    <2>3. CASE i > Len(s) + 1
      <3>1. /\ i - (Len(s) + 1) \in 1 .. Len(Tail(t))
            /\ i - (Len(s) + 1) + 1 = i - Len(s)
        BY <1>1, <1>3, <2>3
      <3>2. Tail(t)[i - (Len(s) + 1)] = t[i - Len(s)]
        BY <1>1, <3>1
      <3> QED
        BY <1>1, <1>3, <1>4, <2>3, <3>2
    <2> QED
      BY <1>1, <1>3, <2>1, <2>2, <2>3
  <1> HIDE DEF u, v
  <1>6. u = v
    BY <1>3, <1>4, <1>5, SeqEqual
  <1> QED
    BY <1>6 DEF u, v

\* One round of the copy loop keeps the invariant, also when the ring has been
\* overrun and what it finds is not what was pending.
LEMMA CopyByteInv == IInv /\ CopyByte => IInv'
  <1> SUFFICES ASSUME IInv, CopyByte PROVE IInv'
    OBVIOUS
  <1> USE KeyboardAssumption DEF KeyboardAssumption
  <1>1. TypeOK /\ Holds /\ Reading
    BY DEF IInv
  <1>2. /\ pc = "copy" /\ Len(got) < count /\ (got # <<>> => Last(got) # NL)
        /\ got' = Append(got, input_buffer[read_pos])
        /\ read_pos' = Wrap(read_pos + 1)
        /\ pending' = IF overrun THEN <<>> ELSE Tail(pending)
        /\ UNCHANGED <<input_buffer, write_pos, line, pc, count, IF_flag, overrun>>
    <2>1. count \in Nat /\ Len(got) \in Nat
      BY <1>1 DEF TypeOK
    <2> QED
      BY <2>1 DEF CopyByte, CopyDone
  <1>3. /\ got \in Seq(Chars \cup {NL, 0}) /\ input_buffer[read_pos] \in Chars \cup {NL, 0}
        /\ read_pos \in Cells /\ count \in Nat /\ Len(got) \in Nat
        /\ pending \in Seq(Chars \cup {NL}) /\ pending \in Seq(Chars \cup {NL, 0})
    BY <1>1 DEF TypeOK
  <1>4. got' \in Seq(Chars \cup {NL, 0}) /\ Len(got') = Len(got) + 1
    BY <1>2, <1>3
  <1>5. TypeOK'
    <2>1. read_pos' \in Cells
      <3>1. read_pos' = IF read_pos + 1 < BufferSize THEN read_pos + 1
                        ELSE read_pos + 1 - BufferSize
        BY <1>2, <1>3, WrapIs DEF Cells
      <3> QED
        BY <1>3, <3>1 DEF Cells
    <2>2. pending' \in Seq(Chars \cup {NL})
      <3>1. CASE overrun
        BY <1>2, <3>1
      <3>2. CASE ~overrun
        BY <1>1, <1>2, <1>3, <3>2, TakesFirst
      <3> QED
        BY <3>1, <3>2
    <2>3. Len(got') <= count
      BY <1>2, <1>3, <1>4
    <2> QED
      BY <1>1, <1>2, <1>4, <2>1, <2>2, <2>3 DEF TypeOK
  <1>6. Holds'
    <2>1. CASE overrun
      BY <1>2, <2>1 DEF Holds
    <2>2. CASE ~overrun
      <3>1. /\ pending # <<>> /\ pending' = Tail(pending) /\ Unread' = Unread - 1
            /\ \A i \in 1 .. Unread' : input_buffer'[Wrap(read_pos' + i - 1)] = pending'[i]
        BY <1>1, <2>2, TakesFirst
      <3>2. Len(pending') = Len(pending) - 1
        BY <1>3, <3>1
      <3>3. Len(pending') = Unread'
        BY <1>1, <2>2, <3>1, <3>2 DEF Holds
      <3> QED
        BY <1>2, <2>2, <3>1, <3>3 DEF Holds, Wrap
    <2> QED
      BY <2>1, <2>2
  <1>7. Reading'
    <2>1. OneLine(got)'
      <3> SUFFICES ASSUME NEW i \in 1 .. Len(got') - 1 PROVE got'[i] # NL
        BY DEF OneLine
      <3>1. i \in 1 .. Len(got) /\ got'[i] = got[i]
        BY <1>2, <1>3, <1>4
      <3>2. CASE i = Len(got)
        <4>1. got # <<>>
          BY <1>3, <3>1
        <4> QED
          BY <1>2, <3>1, <3>2, <4>1 DEF Last
      <3>3. CASE i # Len(got)
        <4>1. i \in 1 .. Len(got) - 1
          BY <1>3, <3>1, <3>3
        <4> QED
          BY <1>1, <1>2, <3>1, <4>1 DEF Reading, OneLine
      <3> QED
        BY <3>2, <3>3
    <2>2. ASSUME ~overrun' PROVE HasLine(got \o pending)'
      <3>1. ~overrun
        BY <1>2, <2>2
      <3>2. /\ pending # <<>> /\ input_buffer[read_pos] = Head(pending)
            /\ pending' = Tail(pending)
        BY <1>1, <3>1, TakesFirst
      <3>3. Append(got, Head(pending)) \o Tail(pending) = got \o pending
        BY <1>3, <3>2, MovesFirst
      <3>4. (got \o pending)' = got \o pending
        BY <1>2, <3>2, <3>3
      <3>5. HasLine(got \o pending)
        BY <1>1, <1>2, <3>1 DEF Reading
      <3> QED
        BY <3>4, <3>5 DEF HasLine
    <2> QED
      BY <1>1, <1>2, <2>1, <2>2 DEF Reading
  <1> QED
    BY <1>5, <1>6, <1>7 DEF IInv

-----------------------------------------------------------------------------
(* The other steps.                                                        *)

\* The line editor's other keys touch the line only, the timer nothing.
LEMMA EditInv ==
  ASSUME IInv, Backspace \/ (\E c \in Chars : Char(c)) \/ IgnoredKey \/ Tick
  PROVE  IInv'
  <1>1. TypeOK /\ Holds /\ Reading
    BY DEF IInv
  <1>2. /\ pc' = Resumed
        /\ UNCHANGED <<input_buffer, read_pos, write_pos, count, got, IF_flag, pending, overrun>>
    BY DEF Backspace, Char, IgnoredKey, Tick, Interrupt, ring
  <1>3. line' \in Seq(Chars) /\ Len(line') < BufferSize
    <2>1. line \in Seq(Chars) /\ Len(line) < BufferSize /\ BufferSize \in Nat
      BY <1>1, KeyboardAssumption DEF TypeOK, KeyboardAssumption
    <2>2. CASE Backspace
      <3>1. line # <<>> /\ line' = SubSeq(line, 1, Len(line) - 1)
        BY <2>2 DEF Backspace, Front
      <3> QED
        BY <2>1, <3>1
    <2>3. CASE \E c \in Chars : Char(c)
      <3>1. PICK c \in Chars : line' = Append(line, c) /\ Len(line) < BufferSize - 1
        BY <2>3 DEF Char
      <3> QED
        BY <2>1, <3>1
    <2>4. CASE IgnoredKey \/ Tick
      BY <2>1, <2>4 DEF IgnoredKey, Tick
    <2> QED
      BY <2>2, <2>3, <2>4
  <1>4. TypeOK'
    BY <1>1, <1>2, <1>3 DEF TypeOK, Resumed
  <1>5. Holds' /\ Reading'
    BY <1>1, <1>2 DEF Holds, Reading, Unread, Wrap, Resumed, OneLine, HasLine
  <1> QED
    BY <1>4, <1>5 DEF IInv

\* The read from its gate to the copy loop, which it enters with a whole line
\* in the ring and nothing copied yet, and its return.
LEMMA ReaderInv ==
  ASSUME IInv, (\E n \in Counts : sys_read(n)) \/ Check \/ Halt \/ Return
  PROVE  IInv'
  <1>1. TypeOK /\ Holds /\ Reading
    BY DEF IInv
  <1>2. UNCHANGED <<input_buffer, read_pos, write_pos, line, pending, overrun>>
    BY DEF sys_read, Check, Halt, Return, ring
  <1>3. Holds'
    BY <1>1, <1>2 DEF Holds, Unread, Wrap
  <1>4. CASE \E n \in Counts : sys_read(n)
    <2>1. PICK n \in Counts : sys_read(n)
      BY <1>4
    <2>2. n \in Nat \ {0}
      BY KeyboardAssumption DEF KeyboardAssumption
    <2> QED
      <3>1. /\ pc' = "check" /\ IF_flag' = FALSE /\ count' = n
            /\ got' = <<>> /\ Len(got') = 0 /\ got' \in Seq(Chars \cup {NL, 0})
        BY <2>1 DEF sys_read
      <3>2. TypeOK'
        <4>1. Len(got') <= count'
          BY <2>2, <3>1
        <4>2. IF_flag' \in BOOLEAN
          BY <3>1, Zenon
        <4> QED
          BY <1>1, <1>2, <3>1, <4>1, <4>2 DEF TypeOK
      <3>3. Reading'
        BY <2>2, <3>1 DEF Reading
      <3> QED
        BY <1>3, <3>2, <3>3 DEF IInv
  <1>5. CASE Check
    <2>1. ASSUME pc' = "copy", ~overrun PROVE HasLine(got \o pending)
      <3>1. pc = "check" /\ got = <<>> /\ HasCompleteLine
        BY <1>1, <1>5, <2>1 DEF Check, Reading
      <3>2. pending = RingContents /\ Len(pending) = Unread
        BY <1>1, <2>1, HoldsIsEqual DEF RingHoldsStream, Holds
      <3>3. HasLine(pending)
        BY <3>1, <3>2 DEF HasCompleteLine, HasLine
      <3>4. got \o pending = pending
        BY <1>1, <3>1, ConcatEmptySeq DEF TypeOK
      <3> QED
        BY <3>3, <3>4
    <2>2. pc = "check" /\ pc' \in {"copy", "wait"} /\ UNCHANGED <<count, got, IF_flag>>
      BY <1>5 DEF Check
    <2>3. Reading'
      BY <1>1, <1>2, <2>1, <2>2 DEF Reading, OneLine, HasLine
    <2>4. TypeOK'
      BY <1>1, <1>2, <2>2 DEF TypeOK
    <2> QED
      BY <1>3, <2>3, <2>4 DEF IInv
  <1>6. CASE Halt
    BY <1>1, <1>2, <1>3, <1>6 DEF Halt, TypeOK, Reading, IInv
  <1>7. CASE Return
    BY <1>1, <1>2, <1>3, <1>7 DEF Return, TypeOK, Reading, IInv
  <1> QED
    BY <1>4, <1>5, <1>6, <1>7

-----------------------------------------------------------------------------
(* The invariant, and what follows from it.                                *)

\* The ring is empty when the program starts, and nobody reads.
LEMMA InitInv == Init => IInv
  <1> SUFFICES ASSUME Init PROVE IInv
    OBVIOUS
  <1> USE KeyboardAssumption DEF KeyboardAssumption
  <1>1. TypeOK
    <2>1. 0 \in Cells
      BY DEF Cells
    <2>2. IF_flag \in BOOLEAN /\ overrun \in BOOLEAN
      BY Zenon DEF Init
    <2> QED
      BY <2>1, <2>2 DEF Init, TypeOK
  <1>2. Unread = 0
    BY <1>1, Between DEF Init, Unread, TypeOK
  <1> QED
    BY <1>1, <1>2 DEF Init, IInv, Holds, Reading

\* Every step of the handler, the timer and the reader keeps the invariant.
LEMMA NextInv == IInv /\ [Next]_vars => IInv'
  <1> SUFFICES ASSUME IInv, [Next]_vars PROVE IInv'
    OBVIOUS
  <1>1. CASE Enter
    BY <1>1, EnterInv
  <1>2. CASE Backspace \/ (\E c \in Chars : Char(c)) \/ IgnoredKey \/ Tick
    BY <1>2, EditInv
  <1>3. CASE (\E n \in Counts : sys_read(n)) \/ Check \/ Halt \/ Return
    BY <1>3, ReaderInv
  <1>4. CASE CopyByte
    BY <1>4, CopyByteInv
  <1>5. CASE UNCHANGED vars
    BY <1>5
    DEF vars, ring, reader, IInv, TypeOK, Holds, Reading, Unread, Wrap, OneLine, HasLine
  <1> QED
    BY <1>1, <1>2, <1>3, <1>4, <1>5 DEF Next, ReaderStep

\* The ring's positions, the line and what a read has copied stay within their
\* buffers: the checks of keyboard_callback and keyboard_read are enough for
\* every BUFFER_SIZE above 1.
THEOREM BuffersSuffice == Spec => []TypeOK
  <1>1. IInv => TypeOK
    BY DEF IInv
  <1> QED
    BY InitInv, NextInv, <1>1, PTL DEF Spec

\* What commit_line writes is what keyboard_read finds, byte by byte and in
\* order, as long as every line fitted.
THEOREM RingKeepsStream == Spec => []RingHoldsStream
  <1>1. IInv => RingHoldsStream
    BY HoldsIsEqual DEF IInv
  <1> QED
    BY InitInv, NextInv, <1>1, PTL DEF Spec

-----------------------------------------------------------------------------
(* The line queue.                                                         *)

\* A sequence that starts with the elements of another one has it as a prefix.
LEMMA PrefixIs ==
  ASSUME NEW S, NEW s \in Seq(S), NEW t \in Seq(S), Len(s) <= Len(t),
         \A i \in 1 .. Len(s) : t[i] = s[i]
  PROVE  LQ!IsPrefix(s, t)
  <1>1. Len(s) \in Nat /\ Len(t) \in Nat
    OBVIOUS
  <1>2. /\ SubSeq(s, 1, Len(s)) \in Seq(S) /\ SubSeq(t, 1, Len(s)) \in Seq(S)
        /\ Len(SubSeq(s, 1, Len(s))) = Len(s) /\ Len(SubSeq(t, 1, Len(s))) = Len(s)
        /\ \A i \in 1 .. Len(s) : /\ SubSeq(s, 1, Len(s))[i] = s[i]
                                  /\ SubSeq(t, 1, Len(s))[i] = t[i]
    BY <1>1
  <1>3. SubSeq(s, 1, Len(s)) = SubSeq(t, 1, Len(s))
    BY <1>2, SeqEqual
  <1> QED
    BY <1>1, <1>3 DEF LQ!IsPrefix

\* Where the copy loop ends, a full answer or a whole line has been copied.
LEMMA AnswerIsLine ==
  ASSUME IInv, pc = "copy", CopyDone, ~overrun
  PROVE  /\ Len(got) = count \/ Last(got) = NL
         /\ HasLine(got \o pending)
         /\ OneLine(got)
  <1>1. TypeOK /\ Holds /\ HasLine(got \o pending) /\ OneLine(got)
    BY DEF IInv, Reading
  <1>2. got \in Seq(Chars \cup {NL, 0}) /\ Len(got) <= count /\ count \in Nat /\ Len(got) \in Nat
    BY <1>1, KeyboardAssumption DEF TypeOK, KeyboardAssumption
  <1>3. CASE Len(got) >= count
    BY <1>1, <1>2, <1>3
  <1>4. CASE read_pos = write_pos
    <2>1. pending \in Seq(Chars \cup {NL, 0}) /\ Len(pending) = 0
      BY <1>1, <1>4, Between DEF TypeOK, Holds, Unread
    <2>2. got \o pending = got
      BY <1>2, <2>1, ConcatEmptySeq
    <2>3. PICK i \in 1 .. Len(got) : got[i] = NL
      BY <1>1, <2>2 DEF HasLine
    <2>4. i = Len(got)
      BY <1>1, <1>2, <2>3 DEF OneLine
    <2> QED
      BY <1>1, <2>3, <2>4 DEF Last
  <1>5. CASE got # <<>> /\ Last(got) = NL
    BY <1>1, <1>5
  <1> QED
    BY <1>3, <1>4, <1>5 DEF CopyDone

\* A committed line enters the queue, or voids its promise.
LEMMA EnterIsEnter == IInv /\ Enter => [LQ!Next]_(LQ!vars)
  <1> SUFFICES ASSUME IInv, Enter PROVE LQ!Enter \/ LQ!Overflow \/ LQ!AfterOverflow
    BY DEF LQ!Next
  <1>1. TypeOK /\ Holds
    BY DEF IInv
  <1>2. CASE overrun
    BY <1>2 DEF Enter, LQ!AfterOverflow
  <1>3. CASE ~overrun /\ overrun'
    <2>1. Unread + Len(Append(line, NL)) >= BufferSize /\ Len(Append(line, NL)) = Len(line) + 1
      BY <1>1, <1>3 DEF Enter, TypeOK
    <2>2. Len(Stream) \in Nat /\ Len(Stream) >= Unread /\ Unread \in Nat /\ Len(line) \in Nat
      <3>1. Len(pending) = Unread /\ Len(pending) \in Nat /\ Len(line) \in Nat
        BY <1>1, <1>3 DEF Holds, TypeOK
      <3>2. got \in Seq(Chars \cup {NL, 0}) /\ pending \in Seq(Chars \cup {NL, 0})
        BY <1>1 DEF TypeOK
      <3>3. Len(got \o pending) = Len(got) + Len(pending) /\ Len(got) \in Nat
        BY <3>2
      <3> QED
        BY <3>1, <3>3 DEF Stream
    <2>3. Len(Stream) + Len(line) + 1 > BufferSize - 1
      BY <2>1, <2>2, KeyboardAssumption DEF KeyboardAssumption
    <2> QED
      BY <1>3, <2>3 DEF LQ!Overflow, Stream
  <1>4. CASE ~overrun'
    <2> DEFINE t == Stream \o Append(line, NL)
    <2>1. /\ got \in Seq(Chars \cup {NL, 0}) /\ pending \in Seq(Chars \cup {NL, 0})
          /\ Append(line, NL) \in Seq(Chars \cup {NL, 0})
      BY <1>1 DEF TypeOK
    <2>2. Stream \in Seq(Chars \cup {NL, 0})
      BY <2>1 DEF Stream
    <2>3. /\ pending' = pending \o Append(line, NL) /\ line' = <<>>
          /\ pc' = Resumed /\ UNCHANGED <<got, count>> /\ overrun' = overrun
      <3>1. overrun' = (overrun \/ Unread + Len(Append(line, NL)) >= BufferSize)
            /\ overrun \in BOOLEAN
        BY <1>1 DEF Enter, TypeOK
      <3>2. overrun' = overrun
        BY <1>4, <3>1, Zenon
      <3> QED
        BY <1>4, <3>2 DEF Enter, Interrupt
    <2>4. Stream' = t
      <3>1. \A x, y, z \in Seq(Chars \cup {NL, 0}) : (x \o y) \o z = x \o (y \o z)
        BY ConcatAssociative
      <3>2. Stream' = IF pc = "copy" THEN got \o (pending \o Append(line, NL))
                      ELSE pending \o Append(line, NL)
        BY <2>3 DEF Stream, Resumed
      <3> QED
        BY <2>1, <3>1, <3>2 DEF Stream
    <2>5. /\ t \in Seq(Chars \cup {NL, 0}) /\ Len(t) = Len(Stream) + Len(line) + 1
          /\ \A i \in 1 .. Len(Stream) : t[i] = Stream[i]
          /\ \A i \in Len(Stream) + 1 .. Len(t) : t[i] = NL <=> i = Len(t)
      BY <1>1, <2>2, CommitsLine
    <2> HIDE DEF t
    <2>6. LQ!IsPrefix(Stream, t)
      BY <2>2, <2>5, PrefixIs
    <2>7. Wanted' = Wanted /\ Answer' = Answer
      BY <2>3 DEF Wanted, Answer, Resumed
    <2>8. Len(line)' = 0
      BY <2>3
    <2> QED
      BY <2>3, <2>4, <2>5, <2>6, <2>7, <2>8 DEF LQ!Enter
  <1> QED
    BY <1>2, <1>3, <1>4 DEF Enter

\* The other keys type, or take back, a character.
LEMMA EditIsType ==
  ASSUME IInv, Backspace \/ (\E c \in Chars : Char(c)) \/ IgnoredKey \/ Tick
  PROVE  [LQ!Next]_(LQ!vars)
  <1>1. line \in Seq(Chars) /\ Len(line) \in Nat
    BY DEF IInv, TypeOK
  <1>2. UNCHANGED <<Stream, Wanted, Answer, overrun>>
    <2>1. pc' = Resumed /\ UNCHANGED <<count, got, pending, overrun>>
      BY DEF Backspace, Char, IgnoredKey, Tick, Interrupt
    <2> QED
      BY <2>1 DEF Stream, Wanted, Answer, Resumed
  <1>3. CASE Backspace
    <2>1. line # <<>> /\ line' = SubSeq(line, 1, Len(line) - 1)
      BY <1>3 DEF Backspace, Front
    <2>2. Len(line) - 1 \in Nat
      BY <1>1, <2>1, EmptySeq
    <2>3. Len(SubSeq(line, 1, Len(line) - 1)) = Len(line) - 1
      <3> DEFINE k == Len(line) - 1
      <3>1. k \in Nat /\ \A i \in 1 .. k : line[i] \in Chars
        BY <1>1, <2>2
      <3> HIDE DEF k
      <3>2. Len(SubSeq(line, 1, k)) = k
        BY <3>1, SubSeqProperties
      <3> QED
        BY <3>2 DEF k
    <2> QED
      BY <1>1, <1>2, <2>1, <2>2, <2>3 DEF LQ!Next, LQ!Type
  <1>4. CASE \E c \in Chars : Char(c)
    <2>1. PICK c \in Chars : line' = Append(line, c)
      BY <1>4 DEF Char
    <2>2. Len(line)' = Len(line) + 1 /\ Len(line) + 1 \in Nat
      BY <1>1, <2>1
    <2> QED
      BY <1>1, <1>2, <2>2 DEF LQ!Next, LQ!Type
  <1>5. CASE IgnoredKey \/ Tick
    <2>1. line' = line
      BY <1>5 DEF IgnoredKey, Tick
    <2> QED
      BY <1>2, <2>1 DEF LQ!vars
  <1> QED
    BY <1>3, <1>4, <1>5

\* keyboard_read requests at its gate and replies at its return; what it does
\* in between the queue does not see.
LEMMA ReaderIsRead ==
  ASSUME IInv, (\E n \in Counts : sys_read(n)) \/ ReaderStep
  PROVE  [LQ!Next]_(LQ!vars)
  <1> USE KeyboardAssumption DEF KeyboardAssumption
  <1>1. TypeOK /\ Holds /\ Reading
    BY DEF IInv
  <1>2. line' = line /\ overrun' = overrun
    BY DEF sys_read, ReaderStep, Check, Halt, CopyByte, Return
  <1>3. CASE \E n \in Counts : sys_read(n)
    <2>1. PICK n \in Counts : sys_read(n)
      BY <1>3
    <2>2. n # 0 /\ pc = "user" /\ pc' = "check" /\ count' = n /\ pending' = pending
      BY <2>1 DEF sys_read
    <2>3. Wanted = 0 /\ Wanted' # 0 /\ Answer' = <<>> /\ Stream' = Stream
      BY <2>2 DEF Wanted, Answer, Stream
    <2> QED
      BY <1>2, <2>3 DEF LQ!Next, LQ!Request
  <1>4. CASE Check
    <2>1. /\ pc = "check" /\ pc' \in {"copy", "wait"} /\ got = <<>>
          /\ UNCHANGED <<count, got, pending>>
      BY <1>1, <1>4 DEF Check, Reading
    <2>2. got \o pending = pending
      BY <1>1, <2>1, ConcatEmptySeq DEF TypeOK
    <2>3. UNCHANGED <<Stream, Wanted, Answer>>
      BY <2>1, <2>2 DEF Stream, Wanted, Answer
    <2> QED
      BY <1>2, <2>3 DEF LQ!vars
  <1>5. CASE Halt
    <2>1. UNCHANGED <<Stream, Wanted, Answer>>
      BY <1>5 DEF Halt, Stream, Wanted, Answer
    <2> QED
      BY <1>2, <2>1 DEF LQ!vars
  <1>6. CASE CopyByte
    <2>1. CASE overrun
      BY <1>2, <2>1 DEF LQ!Next, LQ!AfterOverflow
    <2>2. CASE ~overrun
      <3>1. /\ pc = "copy" /\ UNCHANGED <<pc, count>>
            /\ got' = Append(got, input_buffer[read_pos])
        BY <1>6 DEF CopyByte
      <3>2. /\ pending # <<>> /\ input_buffer[read_pos] = Head(pending)
            /\ pending' = Tail(pending)
        BY <1>1, <1>6, <2>2, TakesFirst
      <3>3. Append(got, Head(pending)) \o Tail(pending) = got \o pending
        BY <1>1, <3>2, MovesFirst DEF TypeOK
      <3>4. UNCHANGED <<Stream, Wanted, Answer>>
        BY <3>1, <3>2, <3>3 DEF Stream, Wanted, Answer
      <3> QED
        BY <1>2, <3>4 DEF LQ!vars
    <2> QED
      BY <2>1, <2>2
  <1>7. CASE Return
    <2>1. CASE overrun
      BY <1>2, <2>1 DEF LQ!Next, LQ!AfterOverflow
    <2>2. CASE ~overrun
      <3>1. /\ pc = "copy" /\ pc' = "user" /\ CopyDone
            /\ UNCHANGED <<count, got, pending>> /\ count # 0
        BY <1>1, <1>7 DEF Return, Reading
      <3>2. /\ Len(got) = count \/ Last(got) = NL
            /\ HasLine(got \o pending) /\ OneLine(got)
        BY <2>2, <3>1, AnswerIsLine
      <3>3. /\ Wanted # 0 /\ Wanted' = 0 /\ Wanted = count
            /\ Stream = got \o pending /\ Stream' = pending /\ Answer' = got
        BY <3>1 DEF Wanted, Stream, Answer
      <3>4. NL \in LQ!Range(Stream)
        <4>1. got \o pending \in Seq(Chars \cup {NL, 0})
          BY <1>1 DEF TypeOK
        <4> QED
          BY <3>2, <3>3, <4>1 DEF HasLine, LQ!Range
      <3>5. NL \notin LQ!Range(LQ!Front(got))
        <4>1. got \in Seq(Chars \cup {NL, 0}) /\ Len(got) \in Nat
          BY <1>1 DEF TypeOK
        <4> DEFINE f == SubSeq(got, 1, Len(got) - 1)
        <4>2. /\ DOMAIN f = 1 .. Len(got) - 1
              /\ \A i \in 1 .. Len(got) - 1 : f[i] = got[i]
          BY <4>1
        <4> HIDE DEF f
        <4>3. \A i \in DOMAIN f : f[i] # NL
          BY <3>2, <4>2 DEF OneLine
        <4> QED
          BY <4>3 DEF f, LQ!Range, LQ!Front
      <3>6. Len(got) = count \/ LQ!Last(got) = NL
        BY <3>2 DEF Last, LQ!Last
      <3> QED
        BY <1>2, <3>3, <3>4, <3>5, <3>6 DEF LQ!Next, LQ!Reply
    <2> QED
      BY <2>1, <2>2
  <1> QED
    BY <1>3, <1>4, <1>5, <1>6, <1>7 DEF ReaderStep

\* To its callers the driver is the line queue: a read returns the first bytes
\* of what was entered, up to a newline or the reader's count, only once a line
\* is there, and no byte twice, with the handler coming between any two of its
\* steps; until a line does not fit.
THEOREM ImplementsLineQueue == Spec => DeliversLines
  <1>1. Init => LQ!Init
    BY DEF Init, LQ!Init, Stream, Wanted, Answer
  <1>2. IInv /\ [Next]_vars => [LQ!Next]_(LQ!vars)
    <2> SUFFICES ASSUME IInv, [Next]_vars PROVE [LQ!Next]_(LQ!vars)
      OBVIOUS
    <2>1. CASE UNCHANGED vars
      BY <2>1 DEF vars, ring, reader, LQ!vars, Stream, Wanted, Answer
    <2> QED
      BY <2>1, EnterIsEnter, EditIsType, ReaderIsRead DEF Next
  <1> QED
    BY InitInv, NextInv, <1>1, <1>2, PTL DEF Spec, DeliversLines, LQ!Spec
=============================================================================
