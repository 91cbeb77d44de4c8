---------------------------- MODULE ShellProofs ----------------------------
(***************************************************************************)
(* What module Shell promises, proved for lines, words and files of any    *)
(* number and for buffers of any size.                                     *)
(***************************************************************************)
EXTENDS Shell, Fat12Proofs, SequenceTheorems

-----------------------------------------------------------------------------
(* The least element of a set.                                             *)

LEMMA MinIsLeast ==
  ASSUME NEW T \in SUBSET Nat, T # {}
  PROVE  Min(T) \in T /\ \A m \in T : Min(T) <= m
  BY LeastElement DEF Min

LEMMA LeastIsMin ==
  ASSUME NEW T \in SUBSET Nat, NEW n \in T, \A m \in T : n <= m
  PROVE  Min(T) = n
  <1>1. Min(T) \in T /\ Min(T) <= n
    BY MinIsLeast
  <1>2. PICK least : least = Min(T)
    OBVIOUS
  <1>3. least \in T /\ least <= n /\ n <= least /\ least \in Nat /\ n \in Nat
    BY <1>1, <1>2
  <1> QED
    BY <1>2, <1>3

-----------------------------------------------------------------------------
(* The keyboard's ring: what waits there are the lines that were typed.    *)

\* b[i] is the place of the newline behind line i.
Split(b, lines, s) ==
  /\ b \in [0 .. Len(lines) -> Nat]
  /\ b[0] = 0 /\ b[Len(lines)] = Len(s)
  /\ \A i, j \in 0 .. Len(lines) : i <= j => b[i] <= b[j]
  /\ \A i \in 1 .. Len(lines) :
       /\ b[i] = b[i - 1] + Len(lines[i]) + 1
       /\ s[b[i]] = NL
       /\ \A j \in 1 .. Len(lines[i]) : s[b[i - 1] + j] = lines[i][j]

Joined(lines, s) == \E b : Split(b, lines, s)

LEMMA LineType ==
  ASSUME NEW l \in Lines
  PROVE  /\ l \in Seq(Cells) /\ Len(l) \in Nat
         /\ \A j \in 1 .. Len(l) : /\ l[j] \in Word \cup {SP}
                                   /\ l[j] # NL /\ l[j] # NUL
  <1>1. l \in Seq(Word \cup {SP})
    BY ShellAssumption
  <1>2. \A w \in Word \cup {SP} : w # NL /\ w # NUL /\ w \in Cells
    BY ShellAssumption DEF Cells
  <1> QED
    BY <1>1, <1>2

LEMMA NothingJoined == Joined(<<>>, <<>>)
  <1> DEFINE b == [i \in 0 .. 0 |-> 0]
  <1>1. Split(b, <<>>, <<>>)
    BY DEF Split
  <1> QED
    BY <1>1 DEF Joined

\* Another line is entered.
LEMMA JoinsLine ==
  ASSUME NEW lines \in Seq(Lines), NEW s \in Seq(Cells), Joined(lines, s), NEW l \in Lines
  PROVE  Joined(Append(lines, l), s \o l \o <<NL>>)
  <1> DEFINE n == Len(lines)
             more == Append(lines, l)
             t == s \o l \o <<NL>>
  <1>1. PICK b : Split(b, lines, s)
    BY DEF Joined
  <1> DEFINE c == [i \in 0 .. n + 1 |-> IF i <= n THEN b[i] ELSE b[n] + Len(l) + 1]
  <1>2. /\ n \in Nat /\ b \in [0 .. n -> Nat]
        /\ b[0] = 0 /\ b[n] = Len(s)
        /\ \A i, j \in 0 .. n : i <= j => b[i] <= b[j]
    BY <1>1 DEF Split
  <1>3. /\ Len(more) = n + 1 /\ more[n + 1] = l
        /\ \A i \in 1 .. n : more[i] = lines[i] /\ lines[i] \in Lines
    OBVIOUS
  <1>4. l \in Seq(Cells) /\ Len(l) \in Nat
    BY LineType
  <1>5. /\ Len(t) = Len(s) + Len(l) + 1 /\ t[Len(s) + Len(l) + 1] = NL
        /\ \A j \in 1 .. Len(s) : t[j] = s[j]
        /\ \A j \in 1 .. Len(l) : t[Len(s) + j] = l[j]
    <2>1. s \o l \in Seq(Cells) /\ Len(s \o l) = Len(s) + Len(l)
      BY <1>4
    <2>2. /\ \A j \in 1 .. Len(s) : (s \o l)[j] = s[j]
          /\ \A j \in 1 .. Len(l) : (s \o l)[Len(s) + j] = l[j]
      BY <1>4
    <2>3. <<NL>> \in Seq(Cells) /\ Len(<<NL>>) = 1
      BY DEF Cells
    <2> QED
      BY <1>4, <2>1, <2>2, <2>3
  <1> HIDE DEF more, t, n
  <1>6. /\ c \in [0 .. n + 1 -> Nat]
        /\ c[0] = 0 /\ c[n + 1] = Len(t)
        /\ \A i \in 0 .. n : c[i] = b[i]
    BY <1>2, <1>4, <1>5
  <1> HIDE DEF c
  <1>7. \A i, j \in 0 .. n + 1 : i <= j => c[i] <= c[j]
    <2> SUFFICES ASSUME NEW i \in 0 .. n + 1, NEW j \in 0 .. n + 1, i <= j PROVE c[i] <= c[j]
      OBVIOUS
    <2>1. CASE j \in 0 .. n
      BY <1>2, <1>6, <2>1
    <2>2. CASE j = n + 1
      <3>1. \A k \in 0 .. n : c[k] <= Len(s) /\ c[k] \in Nat
        BY <1>2, <1>6
      <3>2. c[n + 1] = Len(s) + Len(l) + 1 /\ Len(s) \in Nat
        BY <1>5, <1>6
      <3>3. i \in 0 .. n \/ i = n + 1
        BY <1>2
      <3> QED
        BY <1>4, <2>2, <3>1, <3>2, <3>3
    <2> QED
      BY <1>2, <2>1, <2>2
  <1>8. ASSUME NEW i \in 1 .. n + 1
        PROVE  /\ c[i] = c[i - 1] + Len(more[i]) + 1
               /\ t[c[i]] = NL
               /\ \A j \in 1 .. Len(more[i]) : t[c[i - 1] + j] = more[i][j]
    <2>1. CASE i \in 1 .. n
      <3>1. /\ b[i] = b[i - 1] + Len(lines[i]) + 1
            /\ s[b[i]] = NL
            /\ \A j \in 1 .. Len(lines[i]) : s[b[i - 1] + j] = lines[i][j]
        BY <1>1, <2>1 DEF Split, n
      <3>2. c[i] = b[i] /\ c[i - 1] = b[i - 1] /\ more[i] = lines[i]
        BY <1>2, <1>3, <1>6, <2>1
      <3>3. b[i] \in Nat /\ b[i - 1] \in Nat /\ b[i] <= Len(s) /\ Len(lines[i]) \in Nat
        BY <1>2, <1>3, <2>1, LineType
      <3>4. b[i] \in 1 .. Len(s) /\ \A j \in 1 .. Len(lines[i]) : b[i - 1] + j \in 1 .. Len(s)
        BY <3>1, <3>3
      <3> QED
        BY <1>5, <3>1, <3>2, <3>4
    <2>2. CASE i = n + 1
      <3>1. c[i] = Len(s) + Len(l) + 1 /\ more[i] = l
        BY <1>3, <1>5, <1>6, <2>2
      <3>2. i - 1 = n /\ c[i - 1] = Len(s)
        BY <1>2, <1>6, <2>2
      <3> QED
        BY <1>5, <3>1, <3>2
    <2> QED
      BY <1>2, <2>1, <2>2
  <1>9. Split(c, more, t)
    BY <1>3, <1>6, <1>7, <1>8 DEF Split, n, more
  <1> QED
    BY <1>9 DEF Joined, more, t

\* The first line that waits is read, and with it nothing of the next one.
LEMMA LeavesLine ==
  ASSUME NEW lines \in Seq(Lines), NEW s \in Seq(Cells), Joined(lines, s), Len(s) # 0
  PROVE  LET n == Len(lines[1]) + 1 IN
         /\ lines # <<>> /\ lines[1] \in Lines
         /\ n \in 1 .. Len(s) /\ s[n] = NL
         /\ \A j \in 1 .. n - 1 : s[j] = lines[1][j]
         /\ Joined(Tail(lines), SubSeq(s, n + 1, Len(s)))
  <1> DEFINE n == Len(lines[1]) + 1
             rest == Tail(lines)
             t == SubSeq(s, n + 1, Len(s))
             m == Len(lines)
  <1>1. PICK b : Split(b, lines, s)
    BY DEF Joined
  <1> DEFINE c == [i \in 0 .. m - 1 |-> b[i + 1] - n]
  <1>2. /\ m \in Nat /\ b \in [0 .. m -> Nat]
        /\ b[0] = 0 /\ b[m] = Len(s)
        /\ \A i, j \in 0 .. m : i <= j => b[i] <= b[j]
        /\ \A i \in 1 .. m :
             /\ b[i] = b[i - 1] + Len(lines[i]) + 1
             /\ s[b[i]] = NL
             /\ \A j \in 1 .. Len(lines[i]) : s[b[i - 1] + j] = lines[i][j]
    BY <1>1 DEF Split
  <1>3. m # 0 /\ lines # <<>>
    BY <1>2
  <1>4. /\ 1 \in 1 .. m /\ lines[1] \in Lines /\ Len(lines[1]) \in Nat
        /\ \A i \in 1 .. m : Len(lines[i]) \in Nat
    BY <1>2, <1>3, LineType
  <1>5. /\ Len(rest) = m - 1
        /\ \A i \in 1 .. m - 1 : rest[i] = lines[i + 1]
    BY <1>3
  <1> HIDE DEF m, rest
  <1>6. b[1] = n /\ n \in 1 .. Len(s)
    <2>1. b[1] = b[0] + Len(lines[1]) + 1 /\ b[1] <= b[m]
      BY <1>2, <1>3, <1>4
    <2> QED
      BY <1>2, <1>4, <2>1
  <1>7. s[n] = NL /\ \A j \in 1 .. n - 1 : s[j] = lines[1][j]
    <2>1. /\ s[b[1]] = NL
          /\ \A j \in 1 .. Len(lines[1]) : s[b[1 - 1] + j] = lines[1][j]
      BY <1>2, <1>4
    <2>2. \A j \in 1 .. n - 1 : j \in 1 .. Len(lines[1]) /\ b[1 - 1] + j = j
      BY <1>2, <1>4
    <2> QED
      BY <1>6, <2>1, <2>2
  <1> HIDE DEF n
  <1>8. /\ Len(t) = Len(s) - n
        /\ \A j \in 1 .. Len(s) - n : t[j] = s[n + j]
    BY <1>6
  <1> HIDE DEF t
  <1>9. /\ c \in [0 .. m - 1 -> Nat]
        /\ c[0] = 0 /\ c[m - 1] = Len(t)
        /\ \A i \in 0 .. m - 1 : c[i] = b[i + 1] - n
    <2>1. \A i \in 0 .. m - 1 : i + 1 \in 0 .. m /\ b[i + 1] - n \in Nat
      BY <1>2, <1>3, <1>6
    <2> QED
      BY <1>2, <1>3, <1>6, <1>8, <2>1
  <1> HIDE DEF c
  <1>10. ASSUME NEW i \in 0 .. m - 1, NEW j \in 0 .. m - 1, i <= j
         PROVE  c[i] <= c[j]
    <2>1. i + 1 \in 0 .. m /\ j + 1 \in 0 .. m /\ i + 1 <= j + 1
      BY <1>2, <1>10
    <2>2. b[i + 1] <= b[j + 1] /\ b[i + 1] \in Nat /\ b[j + 1] \in Nat
      BY <1>2, <2>1
    <2>3. c[i] = b[i + 1] - n /\ c[j] = b[j + 1] - n
      BY <1>9
    <2> QED
      BY <1>6, <2>2, <2>3
  <1>11. ASSUME NEW i \in 1 .. m - 1
         PROVE  /\ c[i] = c[i - 1] + Len(rest[i]) + 1
                /\ t[c[i]] = NL
                /\ \A j \in 1 .. Len(rest[i]) : t[c[i - 1] + j] = rest[i][j]
    <2>1. PICK k : k = i + 1
      OBVIOUS
    <2>2. k \in 1 .. m /\ k - 1 \in 1 .. m /\ k - 1 = i /\ i - 1 \in 0 .. m - 1 /\ i \in 0 .. m - 1
      BY <1>2, <2>1
    <2>3. /\ b[k] = b[i] + Len(lines[k]) + 1
          /\ s[b[k]] = NL
          /\ \A j \in 1 .. Len(lines[k]) : s[b[i] + j] = lines[k][j]
      BY <1>2, <2>2
    <2>4. c[i] = b[k] - n /\ c[i - 1] = b[i] - n /\ rest[i] = lines[k]
      <3>1. i - 1 + 1 = i
        OBVIOUS
      <3> QED
        BY <1>5, <1>9, <2>1, <2>2, <3>1
    <2>5. b[i] \in Nat /\ b[k] \in Nat /\ b[k] <= Len(s) /\ n <= b[i] /\ Len(lines[k]) \in Nat
      BY <1>2, <1>4, <1>6, <2>2
    <2>6. b[k] - n \in 1 .. Len(s) - n /\ n + (b[k] - n) = b[k]
      BY <1>6, <2>3, <2>5
    <2>7. ASSUME NEW j \in 1 .. Len(lines[k])
          PROVE  b[i] - n + j \in 1 .. Len(s) - n /\ n + (b[i] - n + j) = b[i] + j
      <3>1. PICK at, end, size : at = b[i] /\ end = b[k] /\ size = Len(lines[k])
        OBVIOUS
      <3>2. end = at + size + 1 /\ at \in Nat /\ size \in Nat /\ end <= Len(s) /\ n <= at
        BY <2>3, <2>5, <3>1
      <3>3. j \in Nat /\ 1 <= j /\ j <= size /\ Len(s) \in Nat /\ n \in Nat
        BY <1>6, <3>1, <3>2
      <3>4. at - n + j \in 1 .. Len(s) - n /\ n + (at - n + j) = at + j
        BY <3>2, <3>3
      <3> QED
        BY <3>1, <3>4
    <2>8. t[b[k] - n] = NL
      BY <1>8, <2>3, <2>6
    <2>9. \A j \in 1 .. Len(lines[k]) : t[b[i] - n + j] = lines[k][j]
      BY <1>8, <2>3, <2>7
    <2>10. b[k] - n = b[i] - n + Len(lines[k]) + 1
      BY <1>6, <2>3, <2>5
    <2> QED
      BY <2>4, <2>8, <2>9, <2>10
  <1>12. Split(c, rest, t)
    BY <1>5, <1>9, <1>10, <1>11 DEF Split
  <1> QED
    BY <1>3, <1>4, <1>6, <1>7, <1>12 DEF Joined, rest, t, n

-----------------------------------------------------------------------------
(* The line in the shell's buffer.                                         *)

\* The buffer starts with the line l, and what is behind it is c.
Starts(l, c) ==
  /\ Len(l) + 1 \in 1 .. LineCells /\ line[Len(l) + 1] = c
  /\ \A j \in 1 .. Len(l) : line[j] = l[j]

\* There is one next word at most.
LEMMA OneWordAfter ==
  ASSUME NEW l \in Lines, NEW i \in Nat
  PROVE  /\ \A k, m \in WordAfter(l, i) : k = m
         /\ \A j \in i + 1 .. Len(l) : l[j] # SP => WordAfter(l, i) # {}
  <1>1. \A k, m \in WordAfter(l, i) : k = m
    BY LineType DEF WordAfter
  <1>2. ASSUME NEW j \in i + 1 .. Len(l), l[j] # SP PROVE WordAfter(l, i) # {}
    <2> DEFINE W == {k \in i + 1 .. Len(l) : l[k] # SP}
    <2>1. W \in SUBSET Nat /\ W # {}
      BY <1>2, LineType
    <2> HIDE DEF W
    <2>2. PICK k \in W : \A m \in W : k <= m
      BY <2>1, LeastElement
    <2>3. k \in WordAfter(l, i)
      BY <2>2, LineType DEF WordAfter, W
    <2> QED
      BY <2>3
  <1> QED
    BY <1>1, <1>2

\* FirstWord finds the line's first word, and Arguments its second or, if there
\* is none, the terminator.
LEMMA FindsWords ==
  ASSUME line \in [1 .. LineCells -> Cells], NEW l \in Lines, Starts(l, NUL),
         \E j \in 1 .. Len(l) : l[j] # SP
  PROVE  /\ WordAfter(l, 0) = {FirstWord(line)}
         /\ FirstWord(line) \in 1 .. Len(l) /\ line[FirstWord(line)] = l[FirstWord(line)]
         /\ \/ /\ Arguments \in WordAfter(l, FirstWord(line))
               /\ line[Arguments] = l[Arguments]
            \/ /\ WordAfter(l, FirstWord(line)) = {}
               /\ line[Arguments] = NUL
  <1>1. /\ LineCells \in Nat /\ Len(l) \in Nat /\ Len(l) + 1 \in 1 .. LineCells
        /\ line[Len(l) + 1] = NUL /\ NUL # SP
        /\ \A j \in 1 .. Len(l) : line[j] = l[j] /\ j \in 1 .. LineCells
    BY LineType, ShellAssumption DEF Starts
  <1> DEFINE W == {j \in 1 .. LineCells : line[j] # SP}
             A(i) == {j \in 1 .. LineCells : j > i /\ line[j] # SP}
  <1>2. W \in SUBSET Nat /\ FirstWord(line) = Min(W)
    BY DEF FirstWord
  <1>3. PICK i \in WordAfter(l, 0) : TRUE
    BY <1>1, OneWordAfter
  <1>4. /\ i \in 1 .. Len(l) /\ l[i] # SP /\ i \in Nat
        /\ \A m \in 1 .. i - 1 : l[m] = SP
    BY <1>1, <1>3 DEF WordAfter
  <1>5. i \in W /\ \A m \in W : i <= m
    BY <1>1, <1>4
  <1> HIDE DEF W
  <1>6. FirstWord(line) = i
    BY <1>2, <1>5, LeastIsMin
  <1>7. WordAfter(l, 0) = {i}
    BY <1>3, OneWordAfter
  <1>8. A(i) \in SUBSET Nat /\ Arguments = Min(A(i))
    BY <1>6 DEF Arguments
  <1>9. CASE WordAfter(l, i) # {}
    <2>1. PICK k \in WordAfter(l, i) : TRUE
      BY <1>9
    <2>2. /\ k \in i + 1 .. Len(l) /\ k \in 1 .. Len(l) /\ l[k] # SP
          /\ \A m \in i + 1 .. k - 1 : l[m] = SP
      BY <1>1, <1>4, <2>1 DEF WordAfter
    <2>3. k \in A(i) /\ \A m \in A(i) : k <= m
      <3>1. k \in A(i)
        BY <1>1, <1>4, <2>2
      <3>2. ASSUME NEW m \in A(i), m < k PROVE FALSE
        <4>1. m \in i + 1 .. k - 1 /\ m \in 1 .. Len(l) /\ line[m] # SP
          BY <1>1, <1>4, <2>2, <3>2
        <4> QED
          BY <1>1, <2>2, <4>1
      <3> QED
        BY <2>2, <3>1, <3>2
    <2> HIDE DEF A
    <2>4. Arguments = k
      BY <1>8, <2>3, LeastIsMin
    <2> QED
      BY <1>1, <1>4, <1>6, <1>7, <2>1, <2>2, <2>4
  <1>10. CASE WordAfter(l, i) = {}
    <2>1. \A m \in i + 1 .. Len(l) : l[m] = SP
      BY <1>4, <1>10, OneWordAfter
    <2>2. Len(l) + 1 \in A(i) /\ \A m \in A(i) : Len(l) + 1 <= m
      <3>1. Len(l) + 1 \in A(i)
        BY <1>1, <1>4
      <3>2. ASSUME NEW m \in A(i), m < Len(l) + 1 PROVE FALSE
        <4>1. m \in i + 1 .. Len(l) /\ m \in 1 .. Len(l) /\ line[m] # SP
          BY <1>1, <1>4, <3>2
        <4> QED
          BY <1>1, <2>1, <4>1
      <3> QED
        BY <1>1, <3>1, <3>2
    <2> HIDE DEF A
    <2>3. Arguments = Len(l) + 1
      BY <1>8, <2>2, LeastIsMin
    <2> QED
      BY <1>1, <1>4, <1>6, <1>7, <1>10, <2>3
  <1> QED
    BY <1>9, <1>10

-----------------------------------------------------------------------------
(* The session: the invariant of lines, buffers and the command they give. *)

\* The lines that wait in the ring: the first is in the buffer once it is read.
Waiting == IF sh \in {"prompt", "read"} THEN typed ELSE Tail(typed)

Buffers ==
  /\ line \in [1 .. LineCells -> Cells] /\ len \in 0 .. LineCells - 1
  /\ stream \in Seq(Cells) /\ Len(stream) < BufferSize
  /\ typed \in Seq(Lines) /\ (sh \notin {"prompt", "read"} => typed # <<>>)
  /\ Joined(Waiting, stream)

LineRead ==
  /\ sh = "parse" => len = Len(Head(typed)) + 1 /\ Starts(Head(typed), NL)
  /\ sh = "exec" => /\ Starts(Head(typed), NUL)
                    /\ \E j \in 1 .. Len(Head(typed)) : Head(typed)[j] # SP

Given ==
  /\ sh \in {"prompt", "read", "parse", "exec", "halted", "lost"} => arg = NoArg
  /\ sh \in {"create", "creating"} => arg.cmd = "create"
  /\ sh \in {"open", "transfer", "loop"} => arg # NoArg
  /\ arg # NoArg => /\ arg.cmd \in {"create", "cat"} /\ arg.name \in Names
                    /\ Complete(Head(typed)) => Says(Head(typed))

Session == Buffers /\ LineRead /\ Given

LEMMA SizeFacts ==
  /\ BufferSize \in Nat \ {0} /\ LineCells \in Nat /\ BufferSize <= LineCells
  /\ SP \in Cells /\ NL \in Cells /\ NUL \in Cells
  /\ SP # NL /\ SP # NUL /\ NL # NUL
  BY ShellAssumption DEF Cells

LEMMA FreshSession ==
  ASSUME line' \in Fresh, len' = 0, stream' = <<>>, typed' = <<>>, sh' = "prompt", arg' = NoArg
  PROVE  Session'
  <1>1. Joined(Waiting', stream')
    BY NothingJoined DEF Waiting
  <1>2. Buffers'
    BY <1>1, SizeFacts, ShellAssumption DEF Buffers
  <1>3. LineRead'
    BY DEF LineRead
  <1>4. Given'
    BY DEF Given
  <1> QED
    BY <1>2, <1>3, <1>4 DEF Session

LEMMA EnterSession ==
  ASSUME NEW l \in Lines, Session, Enter(l)
  PROVE  Session'
  <1>1. /\ sh \in {"prompt", "read"} /\ UNCHANGED <<sh, line, len, arg>>
        /\ Len(stream) + Len(l) + 1 < BufferSize
        /\ stream' = stream \o l \o <<NL>>
        /\ typed' = Append(typed, l)
    BY DEF Enter, command
  <1>2. /\ typed \in Seq(Lines) /\ stream \in Seq(Cells) /\ Joined(typed, stream)
        /\ arg = NoArg
    BY <1>1 DEF Session, Buffers, Given, Waiting
  <1>3. Joined(typed', stream') /\ Waiting' = typed'
    BY <1>1, <1>2, JoinsLine DEF Waiting
  <1>4. stream' \in Seq(Cells) /\ Len(stream') = Len(stream) + Len(l) + 1
    <2>1. l \in Seq(Cells) /\ <<NL>> \in Seq(Cells) /\ Len(<<NL>>) = 1
      BY LineType, SizeFacts
    <2> QED
      BY <1>1, <1>2, <2>1
  <1>5. typed' \in Seq(Lines)
    BY <1>1, <1>2
  <1>6. Buffers'
    BY <1>1, <1>3, <1>4, <1>5 DEF Session, Buffers
  <1> QED
    BY <1>1, <1>2, <1>6 DEF Session, LineRead, Given

\* read returns one line, whole: the ring is smaller than the buffer.
LEMMA ReadSession ==
  ASSUME Session, Read
  PROVE  Session'
  <1>1. /\ sh = "read" /\ NL \in Range(stream) /\ sh' = "parse"
        /\ len' = Taken(LineCells - 1)
        /\ line' = [j \in DOMAIN line |->
                      IF j <= Taken(LineCells - 1) THEN stream[j] ELSE line[j]]
        /\ stream' = SubSeq(stream, Taken(LineCells - 1) + 1, Len(stream))
        /\ UNCHANGED <<typed, arg>>
    BY DEF Read, command
  <1>2. /\ typed \in Seq(Lines) /\ stream \in Seq(Cells) /\ Joined(typed, stream)
        /\ Len(stream) \in Nat /\ Len(stream) < BufferSize
        /\ line \in [1 .. LineCells -> Cells] /\ arg = NoArg
    BY <1>1 DEF Session, Buffers, Given, Waiting
  <1>3. PICK l, n : l = Head(typed) /\ n = Len(l) + 1
    OBVIOUS
  <1>4. Len(stream) # 0
    BY <1>1, <1>2 DEF Range
  <1>5. /\ typed # <<>> /\ l \in Lines /\ l = typed[1]
        /\ n \in 1 .. Len(stream) /\ stream[n] = NL
        /\ \A j \in 1 .. n - 1 : stream[j] = l[j]
        /\ Joined(Tail(typed), SubSeq(stream, n + 1, Len(stream)))
    <2>1. typed # <<>> /\ l = typed[1]
      BY <1>2, <1>3, <1>4, LeavesLine
    <2> QED
      BY <1>2, <1>3, <1>4, <2>1, LeavesLine
  <1>6. Len(l) \in Nat /\ \A j \in 1 .. Len(l) : l[j] # NL
    BY <1>5, LineType
  <1>7. LineCells \in Nat /\ n + 1 <= LineCells
    BY <1>2, <1>5, SizeFacts
  <1>8. Taken(LineCells - 1) = n
    <2> DEFINE T == {LineCells - 1} \cup {j \in DOMAIN stream : stream[j] = NL}
    <2>1. T \in SUBSET Nat /\ n \in T
      BY <1>2, <1>5, <1>7
    <2>2. ASSUME NEW m \in T PROVE n <= m
      <3>1. CASE m \in 1 .. n - 1
        BY <1>3, <1>5, <1>6, <1>7, <2>2, <3>1
      <3> QED
        BY <1>5, <1>7, <2>1, <2>2, <3>1
    <2> HIDE DEF T
    <2>3. Min(T) = n
      BY <2>1, <2>2, LeastIsMin
    <2> QED
      BY <2>3 DEF Taken, T
  <1>9. /\ len' = n /\ n \in 0 .. LineCells - 1
        /\ stream' = SubSeq(stream, n + 1, Len(stream))
        /\ line' = [j \in 1 .. LineCells |-> IF j <= n THEN stream[j] ELSE line[j]]
    <2>1. DOMAIN line = 1 .. LineCells /\ n \in 0 .. LineCells - 1
      BY <1>2, <1>5, <1>7
    <2> QED
      BY <1>1, <1>8, <2>1
  <1>10. line' \in [1 .. LineCells -> Cells] /\ line'[n] = NL /\ \A j \in 1 .. Len(l) : line'[j] = l[j]
    <2>1. \A j \in 1 .. n : j \in 1 .. Len(stream) /\ j \in 1 .. LineCells /\ stream[j] \in Cells
      BY <1>2, <1>5, <1>7
    <2>2. \A j \in 1 .. LineCells : j <= n => j \in 1 .. n
      BY <1>5
    <2>3. \A j \in 1 .. Len(l) : j \in 1 .. n /\ j \in 1 .. n - 1
      BY <1>3, <1>6
    <2> QED
      BY <1>2, <1>5, <1>9, <2>1, <2>2, <2>3
  <1>11. stream' \in Seq(Cells) /\ Len(stream') < BufferSize
    <2>1. /\ SubSeq(stream, n + 1, Len(stream)) \in Seq(Cells)
          /\ Len(SubSeq(stream, n + 1, Len(stream))) = Len(stream) - n
      BY <1>2, <1>5
    <2>2. Len(stream) - n < BufferSize
      BY <1>2, <1>5, SizeFacts
    <2> QED
      BY <1>9, <2>1, <2>2
  <1>12. Buffers'
    BY <1>1, <1>2, <1>5, <1>9, <1>10, <1>11 DEF Buffers, Waiting
  <1>13. LineRead'
    BY <1>1, <1>3, <1>5, <1>6, <1>7, <1>9, <1>10 DEF LineRead, Starts
  <1> QED
    BY <1>1, <1>2, <1>12, <1>13 DEF Session, Given

\* The newline becomes a terminator; the line goes if there is no word in it.
LEMMA ParseSession ==
  ASSUME Session, Parse
  PROVE  Session'
  <1> DEFINE last == [line EXCEPT ![len + 1] = NUL]
             buf  == IF last[len] = NL THEN [last EXCEPT ![len] = NUL] ELSE last
  <1>1. /\ sh = "parse" /\ line' = buf /\ UNCHANGED <<len, stream, arg>>
        /\ IF buf[FirstWord(buf)] = NUL
           THEN sh' = "prompt" /\ typed' = Tail(typed)
           ELSE sh' \in {"halted", "exec"} /\ UNCHANGED typed
    BY DEF Parse, command, syscall_dispatcher
  <1>2. /\ typed \in Seq(Lines) /\ typed # <<>> /\ Joined(Tail(typed), stream)
        /\ line \in [1 .. LineCells -> Cells] /\ arg = NoArg
        /\ len = Len(Head(typed)) + 1 /\ Starts(Head(typed), NL)
        /\ len \in 0 .. LineCells - 1
    BY <1>1 DEF Session, Buffers, Given, Waiting, LineRead
  <1>3. PICK l : l = Head(typed)
    OBVIOUS
  <1>4. l \in Lines /\ Len(l) \in Nat /\ Len(l) + 1 \in 1 .. LineCells
    BY <1>2, <1>3, LineType DEF Starts
  <1>5. /\ buf \in [1 .. LineCells -> Cells] /\ buf[Len(l) + 1] = NUL
        /\ \A j \in 1 .. Len(l) : buf[j] = l[j]
    <2>1. last \in [1 .. LineCells -> Cells] /\ last[len] = NL
      BY <1>2, <1>3, <1>4, SizeFacts DEF Starts
    <2>2. \A j \in 1 .. Len(l) : j \in 1 .. LineCells /\ j # len /\ j # len + 1
      <3>1. len = Len(l) + 1 /\ LineCells \in Nat
        BY <1>2, <1>3, SizeFacts
      <3> QED
        BY <1>4, <3>1
    <2> QED
      BY <1>2, <1>3, <1>4, <2>1, <2>2, SizeFacts DEF Starts
  <1> HIDE DEF buf
  <1>6. Buffers'
    <2>1. typed' \in Seq(Lines) /\ Waiting' = Tail(typed)
      <3>1. Tail(typed) \in Seq(Lines)
        BY <1>2
      <3>2. CASE sh' = "prompt" /\ typed' = Tail(typed)
        BY <3>1, <3>2 DEF Waiting
      <3>3. CASE sh' \in {"halted", "exec"} /\ typed' = typed
        BY <1>2, <3>3 DEF Waiting
      <3> QED
        BY <1>1, <3>2, <3>3
    <2> QED
      BY <1>1, <1>2, <1>5, <2>1 DEF Session, Buffers
  <1>7. CASE sh' = "exec"
    <2>1. buf[FirstWord(buf)] # NUL /\ typed' = typed
      BY <1>1, <1>7
    <2>2. \E j \in 1 .. Len(l) : l[j] # SP
      <3> DEFINE W == {j \in 1 .. LineCells : buf[j] # SP}
      <3>1. W \in SUBSET Nat /\ Len(l) + 1 \in W
        BY <1>4, <1>5, SizeFacts
      <3>2. FirstWord(buf) = Min(W)
        BY <1>5 DEF FirstWord
      <3>3. PICK i : i = Min(W)
        OBVIOUS
      <3>4. i \in W /\ i <= Len(l) + 1
        BY <3>1, <3>3, MinIsLeast
      <3>5. i \in 1 .. Len(l) /\ buf[i] # SP
        BY <1>4, <1>5, <2>1, <3>2, <3>3, <3>4
      <3> QED
        BY <1>5, <3>5
    <2>3. Starts(l, NUL)'
      BY <1>1, <1>4, <1>5 DEF Starts
    <2> QED
      BY <1>1, <1>2, <1>3, <1>6, <1>7, <2>1, <2>2, <2>3 DEF Session, LineRead, Given
  <1>8. CASE sh' # "exec"
    BY <1>1, <1>2, <1>6, <1>8 DEF Session, LineRead, Given
  <1> QED
    BY <1>7, <1>8

\* What both copy loops find: the command is the line's first word, the name
\* its second, or empty.
LEMMA CommandIs ==
  ASSUME Session, sh = "exec"
  PROVE  LET l == Head(typed)
             i == FirstWord(line)
         IN /\ l \in Lines /\ Starts(l, NUL) /\ WordAfter(l, 0) = {i}
            /\ i \in 1 .. Len(l) /\ Command = Kind[l[i]]
            /\ NamePlace(l) = WordAfter(l, i)
            /\ \/ /\ Arguments \in WordAfter(l, i) /\ Name = l[Arguments]
                  /\ line[Arguments] \notin {SP, NUL} /\ Name \in Word
               \/ WordAfter(l, i) = {} /\ Name = Empty
            /\ Name \in Names
  <1> DEFINE l == Head(typed)
             i == FirstWord(line)
  <1>1. /\ l \in Lines /\ Starts(l, NUL) /\ line \in [1 .. LineCells -> Cells]
        /\ \E j \in 1 .. Len(l) : l[j] # SP
    BY DEF Session, Buffers, LineRead
  <1> HIDE DEF l
  <1>2. /\ WordAfter(l, 0) = {i} /\ i \in 1 .. Len(l) /\ line[i] = l[i]
        /\ \/ Arguments \in WordAfter(l, i) /\ line[Arguments] = l[Arguments]
           \/ WordAfter(l, i) = {} /\ line[Arguments] = NUL
    BY <1>1, FindsWords
  <1>3. Command = Kind[l[i]]
    BY <1>2 DEF Command
  <1> HIDE DEF i
  <1>4. NamePlace(l) = WordAfter(l, i)
    BY <1>2 DEF NamePlace
  <1>5. /\ \/ /\ Arguments \in WordAfter(l, i) /\ Name = l[Arguments]
              /\ line[Arguments] \notin {SP, NUL} /\ Name \in Word
           \/ WordAfter(l, i) = {} /\ Name = Empty
        /\ Name \in Names
    <2>1. CASE Arguments \in WordAfter(l, i) /\ line[Arguments] = l[Arguments]
      <3>1. PICK k : k = Arguments
        OBVIOUS
      <3>2. k \in 1 .. Len(l) /\ l[k] # SP
        BY <1>1, <1>2, <2>1, <3>1, LineType DEF WordAfter
      <3>3. l[k] \in Word /\ l[k] \notin {SP, NUL}
        BY <1>1, <3>2, LineType
      <3>4. Name = l[k]
        BY <2>1, <3>1, <3>3 DEF Name
      <3> QED
        BY <2>1, <3>1, <3>3, <3>4, ShellAssumption
    <2>2. CASE WordAfter(l, i) = {} /\ line[Arguments] = NUL
      BY <2>2, ShellAssumption DEF Name
    <2> QED
      BY <1>2, <2>1, <2>2
  <1> QED
    BY <1>1, <1>2, <1>3, <1>4, <1>5 DEF l, i

\* A complete create writes what its line says, to the end of the line.
LEMMA CreateSays ==
  ASSUME Session, sh = "exec", Command = "create", Complete(Head(typed))
  PROVE  LET l == Head(typed) IN
         \E k \in NamePlace(l) : Name = l[k] /\ Text = SubSeq(l, k + 2, Len(l))
  <1>1. PICK l, i : l = Head(typed) /\ i = FirstWord(line)
    OBVIOUS
  <1>2. /\ l \in Lines /\ Starts(l, NUL) /\ WordAfter(l, 0) = {i}
        /\ i \in 1 .. Len(l) /\ Kind[l[i]] = "create"
        /\ NamePlace(l) = WordAfter(l, i)
        /\ \/ /\ Arguments \in WordAfter(l, i) /\ Name = l[Arguments]
              /\ line[Arguments] \notin {SP, NUL}
           \/ WordAfter(l, i) = {}
    BY <1>1, CommandIs
  <1>3. PICK k \in WordAfter(l, i) : k < Len(l) /\ l[k + 1] = SP
    BY <1>1, <1>2 DEF Complete
  <1>4. Len(l) \in Nat /\ i \in Nat /\ k \in 1 .. Len(l) - 1
    BY <1>2, <1>3, LineType DEF WordAfter
  <1>5. Arguments = k /\ Name = l[k] /\ line[k] # SP
    BY <1>2, <1>3, <1>4, OneWordAfter
  <1>6. /\ line \in [1 .. LineCells -> Cells] /\ LineCells \in Nat
        /\ Len(l) + 1 \in 1 .. LineCells /\ line[Len(l) + 1] = NUL
        /\ \A j \in 1 .. Len(l) : line[j] = l[j] /\ l[j] # NUL
    BY <1>2, SizeFacts, LineType DEF Session, Buffers, Starts
  <1>7. Min(NameEnds) = k + 1
    <2>1. NameEnds = {j \in 1 .. LineCells : j >= k /\ line[j] = SP}
      BY <1>5, <1>6 DEF NameEnds
    <2>2. k + 1 \in NameEnds
      BY <1>3, <1>4, <1>6, <2>1
    <2>3. \A m \in NameEnds : k + 1 <= m
      BY <1>4, <1>5, <2>1
    <2>4. NameEnds \in SUBSET Nat
      BY <2>1
    <2> QED
      BY <2>2, <2>3, <2>4, LeastIsMin
  <1>8. Min(TextEnds) = Len(l) + 1
    <2>1. TextEnds = {j \in 1 .. LineCells : j > k + 1 /\ line[j] = NUL}
      BY <1>6, <1>7 DEF TextEnds
    <2>2. Len(l) + 1 \in TextEnds
      BY <1>4, <1>6, <2>1
    <2>3. ASSUME NEW m \in TextEnds, m < Len(l) + 1 PROVE FALSE
      <3>1. m \in 1 .. Len(l) /\ line[m] = NUL
        BY <1>4, <2>1, <2>3
      <3> QED
        BY <1>6, <3>1
    <2>4. TextEnds \in SUBSET Nat
      BY <2>1
    <2>5. \A m \in TextEnds : Len(l) + 1 <= m
      BY <1>4, <2>3, <2>4
    <2> QED
      BY <2>2, <2>4, <2>5, LeastIsMin
  <1>9. Text = SubSeq(l, k + 2, Len(l))
    <2>1. Text = SubSeq(line, k + 2, Len(l))
      <3>1. Min(NameEnds) + 1 = k + 2 /\ Min(TextEnds) - 1 = Len(l)
        BY <1>4, <1>7, <1>8
      <3>2. Text = SubSeq(line, Min(NameEnds) + 1, Min(TextEnds) - 1)
        BY DEF Text
      <3> QED
        BY <3>1, <3>2, Zenon
    <2>2. line \in Seq(Cells) /\ Len(line) = LineCells /\ l \in Seq(Cells)
      BY <1>2, <1>6, LineType
    <2>3. /\ SubSeq(line, k + 2, Len(l)) \in Seq(Cells)
          /\ SubSeq(l, k + 2, Len(l)) \in Seq(Cells)
          /\ Len(SubSeq(line, k + 2, Len(l))) = Len(l) - k - 1
          /\ Len(SubSeq(l, k + 2, Len(l))) = Len(l) - k - 1
      BY <1>4, <1>6, <2>2
    <2>4. ASSUME NEW j \in 1 .. Len(l) - k - 1
          PROVE  SubSeq(line, k + 2, Len(l))[j] = SubSeq(l, k + 2, Len(l))[j]
      <3>1. k + 2 + j - 1 \in 1 .. Len(l) /\ j \in 1 .. Len(l) - (k + 2) + 1
        BY <1>4
      <3>2. /\ SubSeq(line, k + 2, Len(l))[j] = line[k + 2 + j - 1]
            /\ SubSeq(l, k + 2, Len(l))[j] = l[k + 2 + j - 1]
        BY <1>4, <1>6, <2>2, <3>1
      <3> QED
        BY <1>6, <3>1, <3>2
    <2> QED
      BY <2>1, <2>3, <2>4, SeqEqual
  <1> QED
    BY <1>1, <1>2, <1>3, <1>5, <1>9

\* While a command is executed the buffers stay as they are.
LEMMA BuffersStay ==
  ASSUME Session, UNCHANGED session, sh \notin {"prompt", "read"},
         sh' \in {"create", "creating", "open", "transfer", "loop", "done", "lost"}
  PROVE  Buffers' /\ LineRead'
  <1> USE DEF session
  <1>1. Waiting' = Waiting
    BY DEF Waiting
  <1>2. Buffers'
    BY <1>1 DEF Session, Buffers
  <1>3. LineRead'
    BY DEF LineRead
  <1> QED
    BY <1>2, <1>3

\* A step inside a command.
LEMMA CommandGoesOn ==
  ASSUME Session, UNCHANGED <<session, arg>>,
         sh \in {"create", "creating", "open", "transfer", "loop"},
         sh' \in {"creating", "open", "transfer", "loop", "done"},
         sh' = "creating" => sh \in {"create", "creating"}
  PROVE  Session'
  <1>1. Buffers' /\ LineRead'
    BY BuffersStay, Zenon
  <1>2. Given'
    <2>1. /\ arg # NoArg /\ arg.cmd \in {"create", "cat"} /\ arg.name \in Names
          /\ Complete(Head(typed)) => Says(Head(typed))
          /\ sh \in {"create", "creating"} => arg.cmd = "create"
      BY DEF Session, Given, NoArg
    <2>2. (Complete(Head(typed)) => Says(Head(typed)))' <=> (Complete(Head(typed)) => Says(Head(typed)))
      BY DEF Says, session
    <2> QED
      BY <2>1, <2>2 DEF Given
  <1> QED
    BY <1>1, <1>2 DEF Session

LEMMA ExecSession ==
  ASSUME Session, ExecCreate \/ ExecCat \/ ExecOther
  PROVE  Session'
  <1>1. sh = "exec" /\ UNCHANGED session /\ arg = NoArg
    BY DEF ExecCreate, ExecCat, ExecOther, Session, Given
  <1>2. CASE arg' = NoArg /\ sh' \in {"lost", "done"}
    <2>1. Buffers' /\ LineRead'
      BY <1>1, <1>2, BuffersStay
    <2> QED
      BY <1>2, <2>1 DEF Session, Given
  <1>3. PICK l, i : l = Head(typed) /\ i = FirstWord(line)
    OBVIOUS
  <1>4. /\ WordAfter(l, 0) = {i} /\ Command = Kind[l[i]] /\ Name \in Names
        /\ NamePlace(l) = WordAfter(l, i)
        /\ \/ Arguments \in WordAfter(l, i) /\ Name = l[Arguments]
           \/ WordAfter(l, i) = {} /\ Name = Empty
    BY <1>1, <1>3, CommandIs
  <1>5. CASE ExecCreate /\ arg' = [cmd |-> "create", name |-> Name, text |-> Text] /\ sh' = "create"
    <2>1. Buffers' /\ LineRead'
      BY <1>1, <1>5, BuffersStay
    <2>2. Command = "create" /\ arg'.cmd = "create" /\ arg'.name = Name /\ arg'.text = Text
      BY <1>5 DEF ExecCreate
    <2>3. ASSUME Complete(l) PROVE Says(l)'
      <3>1. \E k \in NamePlace(l) : Name = l[k] /\ Text = SubSeq(l, k + 2, Len(l))
        BY <1>1, <1>3, <2>2, <2>3, CreateSays
      <3> QED
        BY <1>4, <2>2, <3>1 DEF Says
    <2>4. Head(typed)' = l
      BY <1>1, <1>3 DEF session
    <2>5. Given'
      BY <1>4, <1>5, <2>2, <2>3, <2>4 DEF Given
    <2> QED
      BY <2>1, <2>5 DEF Session
  <1>6. CASE ExecCat /\ arg' = [cmd |-> "cat", name |-> Name] /\ sh' = "open"
    <2>1. Buffers' /\ LineRead'
      BY <1>1, <1>6, BuffersStay
    <2>2. Command = "cat" /\ arg'.cmd = "cat" /\ arg'.name = Name /\ arg' # NoArg
      BY <1>6 DEF ExecCat, NoArg
    <2>3. Says(l)'
      BY <1>4, <2>2 DEF Says
    <2>4. Head(typed)' = l
      BY <1>1, <1>3 DEF session
    <2>5. Given'
      BY <1>4, <1>6, <2>2, <2>3, <2>4 DEF Given
    <2> QED
      BY <2>1, <2>5 DEF Session
  <1>7. \/ arg' = NoArg /\ sh' \in {"lost", "done"}
        \/ ExecCreate /\ arg' = [cmd |-> "create", name |-> Name, text |-> Text] /\ sh' = "create"
        \/ ExecCat /\ arg' = [cmd |-> "cat", name |-> Name] /\ sh' = "open"
    BY <1>1 DEF ExecCreate, ExecCat, ExecOther, command
  <1> QED
    BY <1>2, <1>5, <1>6, <1>7

LEMMA DoneSession ==
  ASSUME Session, Done
  PROVE  Session'
  <1>1. /\ sh = "done" /\ sh' = "prompt" /\ typed' = Tail(typed) /\ arg' = NoArg
        /\ UNCHANGED <<line, len, stream>>
    BY DEF Done
  <1>2. typed' \in Seq(Lines) /\ Waiting' = Waiting
    <2>1. typed \in Seq(Lines) /\ typed # <<>>
      BY <1>1 DEF Session, Buffers
    <2> QED
      BY <1>1, <2>1 DEF Waiting
  <1>3. Buffers'
    BY <1>1, <1>2 DEF Session, Buffers
  <1> QED
    BY <1>1, <1>3 DEF Session, LineRead, Given

LEMMA SessionStutters ==
  ASSUME Session, UNCHANGED <<session, arg>>,
         sh' = sh \/ (sh = "prompt" /\ sh' = "read")
  PROVE  Session'
  <1> USE DEF session
  <1>1. Buffers'
    <2>1. Waiting' = Waiting
      BY DEF Waiting
    <2> QED
      BY <2>1 DEF Session, Buffers
  <1>2. LineRead'
    BY DEF Session, LineRead, Starts
  <1>3. Given'
    <2>1. Says(Head(typed))' <=> Says(Head(typed))
      BY DEF Says
    <2> QED
      BY <2>1 DEF Session, Given
  <1> QED
    BY <1>1, <1>2, <1>3 DEF Session

LEMMA SessionInit == ShellInit => Session
  <1> SUFFICES ASSUME ShellInit PROVE Session
    OBVIOUS
  <1>1. /\ sh = "prompt" /\ line \in Fresh /\ len = 0 /\ stream = <<>> /\ typed = <<>>
        /\ arg = NoArg
    BY DEF ShellInit
  <1>2. Joined(Waiting, stream)
    BY <1>1, NothingJoined DEF Waiting
  <1>3. Buffers
    BY <1>1, <1>2, SizeFacts, ShellAssumption DEF Buffers
  <1> QED
    BY <1>1, <1>3 DEF Session, LineRead, Given

LEMMA SessionNext == Session /\ [ShellNext]_shellvars => Session'
  <1> SUFFICES ASSUME Session, [ShellNext]_shellvars PROVE Session'
    OBVIOUS
  <1>1. CASE UNCHANGED shellvars
    BY <1>1, SessionStutters DEF shellvars, command
  <1>2. CASE Prompt
    BY <1>2, SessionStutters DEF Prompt, command, syscall_dispatcher
  <1>3. CASE ExecCreate \/ ExecCat \/ ExecOther
    BY <1>3, ExecSession
  <1>4. CASE Create \/ Creating \/ Open \/ NoFileFound \/ Transfer
    <2>1. /\ UNCHANGED <<session, arg>>
          /\ sh \in {"create", "creating", "open", "transfer"}
          /\ sh' \in {"creating", "open", "transfer", "loop", "done"}
          /\ sh' = "creating" => sh \in {"create", "creating"}
      BY <1>4 DEF Create, Creating, Open, NoFileFound, Transfer, command
    <2> QED
      BY <2>1, CommandGoesOn
  <1>5. CASE Loop
    <2>1. /\ UNCHANGED <<session, arg>> /\ sh = "loop" /\ sh' \in {"loop", "done"}
      BY <1>5 DEF Loop
    <2> QED
      BY <2>1, CommandGoesOn
  <1>6. CASE Reboot
    BY <1>6, FreshSession DEF Reboot, Booted
  <1> QED
    BY <1>1, <1>2, <1>3, <1>4, <1>5, <1>6, EnterSession, ReadSession, ParseSession, DoneSession
    DEF ShellNext

-----------------------------------------------------------------------------
(* Commands and files: where a command stands in the file system's calls.  *)

\* The handle is of the file that fat12_open finds under the command's name.
Opened ==
  /\ file # NoFile /\ file.dos = Dos[arg.name]
  /\ \E s \in SlotsOf(Dos[arg.name]) : file.first = root[s].first /\ file.size = root[s].size

\* fat12_write of 256 bytes is one round of its loop, fat12_read one at most.
Writing ==
  /\ pc = "write" /\ {"what", "sector"} \subseteq DOMAIN op
  /\ \/ /\ op.left = BuffSize /\ op.what = arg.text /\ op.sector = 1
        /\ file.current = file.first
     \/ op.left = 0 /\ data[file.first] = <<arg.text, 1>>

Reading ==
  /\ pc = "read"
  /\ \/ /\ got = <<>> /\ op.left <= SectorUnits /\ (file.size > 0 => op.left > 0)
        /\ file.current = file.first
     \/ op.left = 0 /\ got = <<data[file.first]>>

Progress ==
  /\ pc # "idle" => sh \in {"creating", "loop"}
  /\ sh = "creating" => /\ pc \in {"sync1", "sync2", "entry"}
                        /\ op.dos = Dos[arg.name] /\ op.entry.size > 0
  /\ sh = "transfer" /\ file # NoFile =>
       Opened /\ file.current = file.first /\ file.position = 0
  /\ sh = "loop" => Opened /\ IF arg.cmd = "create" THEN Writing ELSE Reading
  /\ sh = "done" /\ arg.cmd = "create" =>
       told \/ \E s \in SlotsOf(Dos[arg.name]) : data[root[s].first] = <<arg.text, 1>>
  /\ sh = "done" /\ arg.cmd = "cat" /\ file # NoFile =>
       \E s \in SlotsOf(Dos[arg.name]) : shown = <<data[root[s].first]>> \/ root[s].size = 0

Storage == IInv /\ Progress /\ DOMAIN expected \subseteq DosNames

LEMMA StorageInit == ShellInit => Storage
  <1> SUFFICES ASSUME ShellInit PROVE Storage
    OBVIOUS
  <1>1. IInv
    BY InitInv DEF ShellInit
  <1>2. pc = "idle" /\ sh = "prompt" /\ DOMAIN expected = {}
    BY DEF ShellInit, Init
  <1> QED
    BY <1>1, <1>2 DEF Storage, Progress

\* Outside of the file system's calls the disk waits.
LEMMA FilesWait ==
  ASSUME Storage, UNCHANGED <<fsvars, expected>>, sh \notin {"creating", "loop"},
         sh' \notin {"creating", "transfer", "loop"}, sh' = "done" => arg' = NoArg
  PROVE  Storage'
  <1>1. IInv'
    BY StutterInv DEF Storage, fsvars, vars
  <1>2. pc' = "idle"
    BY DEF Storage, Progress, fsvars, volatile
  <1>3. Progress'
    BY <1>2 DEF Progress, NoArg
  <1> QED
    BY <1>1, <1>3 DEF Storage

LEMMA StorageStutters == ASSUME Storage, UNCHANGED shellvars PROVE Storage'
  <1>1. UNCHANGED <<vars, sh, arg, shown, told, expected>>
    BY DEF shellvars, fsvars, vars, command
  <1>2. IInv'
    BY <1>1, StutterInv DEF Storage
  <1>3. \A dos : SlotsOf(dos)' = SlotsOf(dos)
    BY <1>1 DEF vars, disk, SlotsOf
  <1>4. Progress'
    BY <1>1, <1>3 DEF Storage, Progress, Opened, Writing, Reading, vars, disk, volatile
  <1> QED
    BY <1>1, <1>2, <1>4 DEF Storage

LEMMA CreateStores ==
  ASSUME Session, Storage, Create
  PROVE  Storage'
  <1>1. arg.name \in Names /\ BuffSize \in Sizes /\ BuffSize \in Nat \ {0}
    BY ShellAssumption, FatAssumption DEF Create, Session, Given, NoArg
  <1>2. UNCHANGED <<arg, expected>> /\ sh = "create"
    BY DEF Create, command
  <1>3. CASE CreateExisting(arg.name) /\ sh' = "open"
    <2>1. IInv'
      BY <1>1, <1>3, CreateExistingInv DEF Storage
    <2>2. pc' = "idle"
      BY <1>3 DEF CreateExisting
    <2> QED
      BY <1>2, <1>3, <2>1, <2>2 DEF Storage, Progress
  <1>4. CASE CreateNew(arg.name, BuffSize) /\ sh' = IF pc' = "idle" THEN "open" ELSE "creating"
    <2>1. IInv'
      BY <1>1, <1>4, CreateNewInv DEF Storage
    <2>2. \/ pc' = "idle"
          \/ pc' = "sync1" /\ op'.dos = Dos[arg.name] /\ op'.entry.size = BuffSize
      BY <1>4 DEF CreateNew
    <2> QED
      BY <1>1, <1>2, <1>4, <2>1, <2>2 DEF Storage, Progress
  <1>5. CASE sh' = "open" /\ UNCHANGED fsvars
    BY <1>2, <1>5, FilesWait
  <1> QED
    BY <1>3, <1>4, <1>5 DEF Create

LEMMA CreatingStores ==
  ASSUME Storage, Creating
  PROVE  Storage'
  <1>1. /\ sh = "creating" /\ UNCHANGED <<arg, expected>>
        /\ SyncFat1 \/ SyncFat2 \/ WriteEntry
        /\ sh' = IF pc' = "idle" THEN "open" ELSE "creating"
    BY DEF Creating, command
  <1>2. IInv'
    BY <1>1, SyncFat1Inv, SyncFat2Inv, WriteEntryInv DEF Storage
  <1>3. /\ op \in [dos : DosNames, slot : Slots, i : FatSectors, entry : Files]
        /\ op.dos = Dos[arg.name] /\ op.entry.size > 0
    BY <1>1 DEF Storage, IInv, NewFile, Progress
  <1>4. \/ pc' = "idle"
        \/ pc' \in {"sync1", "sync2", "entry"} /\ op'.dos = op.dos /\ op'.entry = op.entry
    BY <1>1, <1>3 DEF SyncFat1, SyncFat2, WriteEntry
  <1>5. Progress'
    BY <1>1, <1>3, <1>4 DEF Progress
  <1> QED
    BY <1>1, <1>2, <1>5 DEF Storage

LEMMA OpenStores ==
  ASSUME Session, Storage, Open
  PROVE  Storage'
  <1>1. sh = "open" /\ sh' = "transfer" /\ fat12_open(arg.name) /\ UNCHANGED <<arg, expected>>
    BY DEF Open, command
  <1>2. arg.name \in Names
    BY <1>1 DEF Session, Given
  <1>3. IInv'
    BY <1>1, <1>2, OpenInv DEF Storage
  <1>4. pc' = "idle" /\ \A dos : SlotsOf(dos)' = SlotsOf(dos)
    BY <1>1 DEF fat12_open, disk, SlotsOf
  <1>5. ASSUME file' # NoFile
        PROVE  Opened' /\ file'.current = file'.first /\ file'.position = 0
    <2>1. PICK s \in SlotsOf(Dos[arg.name]) :
            file' = [dos |-> Dos[arg.name], first |-> root[s].first, current |-> root[s].first,
                     size |-> root[s].size, position |-> 0, eof |-> FALSE]
      BY <1>1, <1>5 DEF fat12_open
    <2>2. UNCHANGED root
      BY <1>1 DEF fat12_open, disk
    <2> QED
      BY <1>1, <1>4, <1>5, <2>1, <2>2 DEF Opened
  <1>6. Progress'
    BY <1>1, <1>4, <1>5 DEF Progress
  <1> QED
    BY <1>1, <1>3, <1>6 DEF Storage

LEMMA NoFileStores ==
  ASSUME Session, Storage, NoFileFound
  PROVE  Storage'
  <1>1. /\ sh = "transfer" /\ file = NoFile /\ sh' = "done" /\ told' = (arg.cmd = "create")
        /\ UNCHANGED <<fsvars, arg, expected>>
    BY DEF NoFileFound
  <1>2. IInv' /\ pc' = "idle" /\ file' = NoFile
    <2>1. IInv'
      BY <1>1, StutterInv DEF Storage, fsvars, vars
    <2> QED
      BY <1>1, <2>1 DEF Storage, Progress, fsvars, volatile
  <1>3. Progress'
    BY <1>1, <1>2 DEF Progress
  <1> QED
    BY <1>1, <1>2, <1>3 DEF Storage

LEMMA TransferStores ==
  ASSUME Session, Storage, Transfer
  PROVE  Storage'
  <1>1. /\ sh = "transfer" /\ sh' = "loop" /\ UNCHANGED <<arg, expected>>
        /\ IF arg.cmd = "create" THEN fat12_write(arg.text, BuffSize) ELSE fat12_read(BuffSize)
    BY DEF Transfer, command
  <1>2. BuffSize \in Sizes /\ BuffSize \in Nat \ {0} /\ BuffSize <= SectorUnits /\ SectorUnits \in Nat
    BY ShellAssumption, FatAssumption
  <1>3. file # NoFile
    BY <1>1 DEF fat12_write, fat12_read
  <1>4. /\ Opened /\ file.current = file.first /\ file.position = 0
        /\ file \in Handles
    BY <1>1, <1>3, HandleFacts DEF Storage, Progress
  <1>5. CASE arg.cmd = "create"
    <2>1. /\ pc' = "write"
          /\ op' = [dos |-> file.dos, left |-> BuffSize, what |-> arg.text, sector |-> 1]
          /\ file' = [file EXCEPT !.current = file.first]
          /\ UNCHANGED <<root, data>>
      BY <1>1, <1>5 DEF fat12_write, disk
    <2>2. IInv'
      BY <1>1, <1>2, <1>5, WriteInv DEF Storage
    <2>3. file' # NoFile /\ file'.dos = file.dos /\ file'.first = file.first
          /\ file'.size = file.size /\ file'.current = file.first
      <3>1. file'.dos = file.dos /\ file'.first = file.first
            /\ file'.size = file.size /\ file'.current = file.first
        BY <1>4, <2>1 DEF Handles
      <3>2. file' # NoFile
        BY <2>1, <2>2 DEF IInv, Call
      <3> QED
        BY <3>1, <3>2
    <2>4. \A dos : SlotsOf(dos)' = SlotsOf(dos)
      BY <2>1 DEF SlotsOf
    <2>5. Opened'
      BY <1>1, <1>4, <2>1, <2>3, <2>4 DEF Opened
    <2>6. Writing'
      BY <1>1, <2>1, <2>3 DEF Writing
    <2> QED
      BY <1>1, <1>5, <2>2, <2>5, <2>6 DEF Storage, Progress
  <1>6. CASE arg.cmd # "create"
    <2> DEFINE left == IF BuffSize > file.size - file.position
                       THEN file.size - file.position ELSE BuffSize
    <2>1. /\ pc = "idle" /\ pc' = "read" /\ op' = [dos |-> file.dos, left |-> left]
          /\ UNCHANGED <<root, data, file, got>>
      BY <1>1, <1>6 DEF fat12_read, disk
    <2>2. IInv'
      BY <1>1, <1>2, <1>6, ReadInv DEF Storage
    <2>3. left <= SectorUnits /\ (file.size > 0 => left > 0)
      <3>1. file.size \in Nat /\ file.position = 0
        BY <1>4 DEF Handles
      <3> QED
        BY <1>2, <3>1
    <2>4. \A dos : SlotsOf(dos)' = SlotsOf(dos)
      BY <2>1 DEF SlotsOf
    <2>5. Opened'
      BY <1>1, <1>4, <2>1, <2>4 DEF Opened
    <2>6. got' = <<>>
      BY <2>1 DEF Storage, IInv, Call
    <2>7. op'.left = left
      BY <2>1
    <2> HIDE DEF left
    <2>8. Reading'
      BY <1>4, <2>1, <2>3, <2>6, <2>7 DEF Reading
    <2> QED
      BY <1>1, <1>6, <2>2, <2>5, <2>8 DEF Storage, Progress
  <1> QED
    BY <1>5, <1>6

\* The file that is open is one of the directory, with a cluster of its own.
LEMMA OpenedFile ==
  ASSUME Storage, Opened
  PROVE  /\ file \in Handles /\ file.first \in Clusters /\ IsLink(file.first)
         /\ file.first \in DOMAIN data
         /\ \A s \in SlotsOf(Dos[arg.name]) : root[s].first = file.first /\ root[s].size = file.size
  <1>1. file \in Handles /\ file.first \in Clusters
    BY HandleFacts DEF Storage, Opened, Handles
  <1>2. IsLink(file.first) /\ file.first \in DOMAIN data
    BY <1>1, ClusterFacts DEF Storage, IInv, Types
  <1>3. \A s, t \in SlotsOf(Dos[arg.name]) : s = t
    <2>1. \A s, t \in SlotsOf(Dos[arg.name]) : s <= t /\ t <= s /\ s \in Nat /\ t \in Nat
      BY FatAssumption DEF SlotsOf, LowestOf, Slots
    <2> QED
      BY <2>1
  <1> QED
    BY <1>1, <1>2, <1>3 DEF Opened

LEMMA LoopWrites ==
  ASSUME Session, Storage, Loop, WriteCluster
  PROVE  /\ arg.cmd = "create" /\ op.dos = Dos[arg.name] /\ file.current = file.first
         /\ op.left = BuffSize /\ {"dos", "left"} \subseteq DOMAIN op
         /\ data' = [data EXCEPT ![file.first] = <<arg.text, 1>>]
  <1>1. sh = "loop" /\ pc = "write" /\ op.left > 0
        /\ data' = [data EXCEPT ![file.current] = <<op.what, op.sector>>]
    BY DEF Loop, WriteCluster, LoopGoesOn
  <1>2. Opened /\ arg.cmd = "create" /\ Writing
    BY <1>1 DEF Storage, Progress, Reading
  <1>3. {"dos", "left"} \subseteq DOMAIN op /\ op.dos = file.dos /\ op.left \in Nat
    BY <1>1 DEF Storage, IInv, Call
  <1>4. /\ op.left = BuffSize /\ op.what = arg.text /\ op.sector = 1
        /\ file.current = file.first
    BY <1>1, <1>2, <1>3 DEF Writing
  <1> QED
    BY <1>1, <1>2, <1>3, <1>4 DEF Opened

LEMMA WholeChunk ==
  ASSUME op.left \in Nat, op.left <= SectorUnits
  PROVE  Chunk = op.left /\ op.left - Chunk = 0
  BY FatAssumption DEF Chunk

LEMMA LoopStores ==
  ASSUME Session, Storage, Loop
  PROVE  Storage'
  <1>1. sh = "loop" /\ UNCHANGED <<arg, told>> /\ Opened
        /\ arg.cmd \in {"create", "cat"} /\ arg.name \in Names
    BY DEF Loop, Storage, Progress, Session, Given
  <1>2. file.first \in DOMAIN data /\ IsLink(file.first) /\ file \in Handles
        /\ \A s \in SlotsOf(Dos[arg.name]) : root[s].first = file.first /\ root[s].size = file.size
    BY <1>1, OpenedFile
  <1>3. CASE WriteCluster
    <2>1. /\ UNCHANGED <<root, sh>> /\ pc' = "write"
          /\ op' = [op EXCEPT !.left = @ - Chunk, !.sector = @ + 1]
          /\ file' = [file EXCEPT !.current = get_next_cluster(@)]
          /\ DOMAIN expected' = DOMAIN expected \cup {op.dos}
      BY <1>3 DEF Loop, WriteCluster, EndLoop, ReadCluster
    <2>2. IInv'
      BY <1>3, WriteClusterInv DEF Storage
    <2>3. /\ arg.cmd = "create" /\ op.dos = Dos[arg.name] /\ op.left = BuffSize
          /\ {"dos", "left"} \subseteq DOMAIN op
          /\ data' = [data EXCEPT ![file.first] = <<arg.text, 1>>]
      BY <1>3, LoopWrites
    <2>4. op'.left = 0 /\ {"what", "sector"} \subseteq DOMAIN op'
      <3>1. op.left - Chunk = 0
        BY <2>3, WholeChunk, ShellAssumption, FatAssumption
      <3>2. {"what", "sector"} \subseteq DOMAIN op
        BY <1>1, <2>3 DEF Storage, Progress, Writing
      <3> QED
        BY <2>1, <2>3, <3>1, <3>2
    <2>5. file' # NoFile /\ file'.dos = file.dos /\ file'.first = file.first
          /\ file'.size = file.size
      <3>1. file'.dos = file.dos /\ file'.first = file.first /\ file'.size = file.size
        BY <1>2, <2>1 DEF Handles
      <3>2. file' # NoFile
        BY <2>1, <2>2 DEF IInv, Call
      <3> QED
        BY <3>1, <3>2
    <2>6. Opened'
      BY <1>1, <2>1, <2>5 DEF Opened, SlotsOf
    <2>7. Writing'
      BY <1>1, <1>2, <2>1, <2>3, <2>4, <2>5 DEF Writing
    <2>8. DOMAIN expected' \subseteq DosNames
      <3>1. op.dos \in DosNames
        BY <1>1, <2>3, FatAssumption DEF DosNames, Range
      <3> QED
        BY <2>1, <3>1 DEF Storage
    <2> QED
      BY <1>1, <2>1, <2>2, <2>3, <2>6, <2>7, <2>8 DEF Storage, Progress
  <1>4. CASE ReadCluster
    <2>1. /\ UNCHANGED <<root, data, sh, expected>> /\ pc = "read" /\ pc' = "read"
          /\ op.left > 0
          /\ got' = Append(got, data[file.current])
          /\ op' = [op EXCEPT !.left = @ - Chunk]
          /\ file' = [file EXCEPT !.position = @ + Chunk, !.current = get_next_cluster(@)]
      BY <1>4 DEF Loop, WriteCluster, EndLoop, ReadCluster, LoopGoesOn, disk
    <2>2. IInv'
      BY <1>4, ReadClusterInv DEF Storage
    <2>3. {"dos", "left"} \subseteq DOMAIN op /\ op.left \in Nat
      BY <2>1 DEF Storage, IInv, Call
    <2>4. /\ arg.cmd # "create" /\ got = <<>> /\ op.left <= SectorUnits
          /\ file.current = file.first
      BY <1>1, <2>1, <2>3 DEF Storage, Progress, Writing, Reading
    <2>5. op'.left = 0 /\ got' = <<data[file.first]>>
      BY <2>1, <2>3, <2>4, WholeChunk
    <2>6. file' # NoFile /\ file'.dos = file.dos /\ file'.first = file.first
          /\ file'.size = file.size
      <3>1. file'.dos = file.dos /\ file'.first = file.first /\ file'.size = file.size
        BY <1>2, <2>1 DEF Handles
      <3>2. file' # NoFile
        BY <2>1, <2>2 DEF IInv, Call
      <3> QED
        BY <3>1, <3>2
    <2>7. Opened'
      BY <1>1, <2>1, <2>6 DEF Opened, SlotsOf
    <2>8. Reading'
      BY <2>1, <2>5, <2>6 DEF Reading
    <2> QED
      BY <1>1, <2>1, <2>2, <2>4, <2>7, <2>8 DEF Storage, Progress
  <1>5. CASE EndLoop /\ sh' = "done" /\ shown' = got /\ UNCHANGED expected
    <2>1. /\ UNCHANGED <<root, data>> /\ pc' = "idle"
          /\ ~(op.left > 0 /\ IsLink(file.current))
          /\ pc \in {"read", "write"}
      BY <1>5 DEF EndLoop, LoopGoesOn, disk
    <2>2. IInv'
      BY <1>5, EndLoopInv DEF Storage
    <2>3. \A dos : SlotsOf(dos)' = SlotsOf(dos)
      BY <2>1 DEF SlotsOf
    <2>4. PICK s \in SlotsOf(Dos[arg.name]) : file.first = root[s].first /\ file.size = root[s].size
      BY <1>1 DEF Opened
    <2>5. CASE arg.cmd = "create"
      <3>1. data[file.first] = <<arg.text, 1>>
        BY <1>1, <1>2, <2>1, <2>5, ShellAssumption, FatAssumption DEF Storage, Progress, Writing
      <3> QED
        BY <1>1, <1>5, <2>1, <2>2, <2>3, <2>4, <2>5, <3>1 DEF Storage, Progress
    <2>6. CASE arg.cmd = "cat"
      <3>1. got = <<data[file.first]>> \/ file.size = 0
        <4>1. file.size \in Nat
          BY <1>2 DEF Handles
        <4> QED
          BY <1>1, <1>2, <2>1, <2>6, <4>1 DEF Storage, Progress, Reading
      <3> QED
        BY <1>1, <1>5, <2>1, <2>2, <2>3, <2>4, <2>6, <3>1 DEF Storage, Progress
    <2> QED
      BY <1>1, <2>5, <2>6
  <1> QED
    BY <1>3, <1>4, <1>5 DEF Loop

LEMMA RebootStores ==
  ASSUME Storage, Reboot
  PROVE  Storage'
  <1>1. Restart /\ sh' = "prompt" /\ UNCHANGED expected
    BY DEF Reboot, Booted
  <1>2. IInv' /\ pc' = "idle"
    BY <1>1, RestartInv DEF Storage, Restart, Mounted
  <1> QED
    BY <1>1, <1>2 DEF Storage, Progress

\* The steps in which the file system does nothing.
LEMMA SessionOnly ==
  ASSUME Session, (\E l \in Lines : Enter(l)) \/ Prompt \/ Read \/ Parse
                  \/ ExecCreate \/ ExecCat \/ ExecOther \/ Done
  PROVE  /\ UNCHANGED <<fsvars, expected>> /\ sh \notin {"creating", "loop"}
         /\ sh' \notin {"creating", "transfer", "loop"} /\ (sh' = "done" => arg' = NoArg)
  <1>1. CASE \E l \in Lines : Enter(l)
    BY <1>1 DEF Enter
  <1>2. CASE Prompt \/ Read \/ Parse \/ Done
    BY <1>2 DEF Prompt, Read, Parse, Done, syscall_dispatcher
  <1>3. CASE ExecCreate \/ ExecCat \/ ExecOther
    BY <1>3 DEF ExecCreate, ExecCat, ExecOther, Session, Given, command
  <1> QED
    BY <1>1, <1>2, <1>3

LEMMA StorageNext == Session /\ Storage /\ [ShellNext]_shellvars => Storage'
  <1> SUFFICES ASSUME Session, Storage, [ShellNext]_shellvars PROVE Storage'
    OBVIOUS
  <1>1. CASE (\E l \in Lines : Enter(l)) \/ Prompt \/ Read \/ Parse
             \/ ExecCreate \/ ExecCat \/ ExecOther \/ Done
    BY <1>1, SessionOnly, FilesWait
  <1> QED
    BY <1>1, StorageStutters, CreateStores, CreatingStores, OpenStores, NoFileStores,
       TransferStores, LoopStores, RebootStores
    DEF ShellNext

-----------------------------------------------------------------------------
(* What the files of the commands hold.                                    *)

\* The disks have no file without content and no gap between files: a deleted
\* entry before a file can become a second entry of its name when fat12_open
\* has no page for the first.
OrdinaryDisks ==
  \A image \in Images : \A t \in Slots :
    image.root[t] \notin {End, Deleted} =>
      image.root[t].size > 0 /\ \A s \in 1 .. t : image.root[s] \notin {End, Deleted}

Packed ==
  \A t \in LiveSlots : root[t].size > 0 /\ \A s \in 1 .. t : s \in LiveSlots

Kept ==
  \A dos \in DOMAIN expected :
    /\ SlotsOf(dos) # {}
    /\ \A s \in SlotsOf(dos) : data[root[s].first] = expected[dos]

LEMMA KeptInit == OrdinaryDisks /\ ShellInit => Packed /\ Kept
  <1> SUFFICES ASSUME OrdinaryDisks, ShellInit PROVE Packed /\ Kept
    OBVIOUS
  <1>1. PICK image \in Images : root = image.root
    BY DEF ShellInit, Init
  <1>2. DOMAIN expected = {}
    BY DEF ShellInit
  <1>3. Packed
    <2> SUFFICES ASSUME NEW t \in LiveSlots
                 PROVE  root[t].size > 0 /\ \A s \in 1 .. t : s \in LiveSlots
      BY DEF Packed
    <2>1. t \in Slots /\ \A s \in 1 .. t : s \in Slots
      BY FatAssumption DEF LiveSlots, Slots
    <2>2. root[t] \notin {End, Deleted}
      BY DEF LiveSlots, IsLive
    <2> QED
      BY <1>1, <2>1, <2>2 DEF OrdinaryDisks, LiveSlots, IsLive
  <1> QED
    BY <1>2, <1>3 DEF Kept

LEMMA KeptSame ==
  ASSUME Packed, Kept, UNCHANGED <<root, data, expected>>
  PROVE  Packed' /\ Kept'
  BY DEF Packed, Kept, LiveSlots, SlotsOf

\* A new entry lies behind all others, so no file is hidden by it.
LEMMA EntryKeeps ==
  ASSUME Storage, Storage', Packed, Kept, sh = "creating", WriteEntry, UNCHANGED expected
  PROVE  Packed' /\ Kept'
  <1>1. /\ pc = "entry" /\ root' = [root EXCEPT ![op.slot] = op.entry] /\ UNCHANGED data
    BY DEF WriteEntry
  <1>2. PICK z, e : z = op.slot /\ e = op.entry
    OBVIOUS
  <1>3. /\ z \in Slots /\ ~IsLive(root[z]) /\ e \in Files /\ e.size > 0
        /\ \A t \in Slots : ~IsLive(root[t]) => z <= t
        /\ e \notin {End, Deleted}
    BY <1>1, <1>2, FatAssumption DEF Storage, IInv, NewFile, FreeSlot, LowestOf, Progress
  <1>4. /\ root'[z] = e /\ \A s \in Slots \ {z} : root'[s] = root[s]
        /\ LiveSlots' = LiveSlots \cup {z} /\ z \notin LiveSlots
    <2>1. root'[z] = e /\ \A s \in Slots \ {z} : root'[s] = root[s]
      BY <1>1, <1>2, <1>3 DEF Storage, IInv, Types
    <2> QED
      BY <1>3, <2>1 DEF LiveSlots, IsLive
  <1>5. \A t \in LiveSlots : t \in Nat /\ t \in Slots \ {z} /\ t < z /\ root'[t] = root[t]
    <2> SUFFICES ASSUME NEW t \in LiveSlots PROVE t \in Nat /\ t \in Slots \ {z} /\ t < z
      BY <1>4
    <2>1. t \in Slots \ {z} /\ t \in Nat /\ z \in Nat /\ 1 <= z
      BY <1>3, <1>4, FatAssumption DEF LiveSlots, Slots
    <2>2. ~(z \in 1 .. t)
      BY <1>4 DEF Packed
    <2> QED
      BY <2>1, <2>2
  <1>6. Packed'
    <2>1. \A s \in 1 .. z : s \in LiveSlots'
      <3>1. \A s \in 1 .. z : s \in Slots /\ (s = z \/ s < z)
        BY <1>3, FatAssumption DEF Slots
      <3>2. \A s \in Slots : s < z => s \in LiveSlots
        BY <1>3, FatAssumption DEF LiveSlots, Slots
      <3> QED
        BY <1>4, <3>1, <3>2
    <2> QED
      BY <1>3, <1>4, <1>5, <2>1 DEF Packed
  <1>7. ASSUME NEW dos \in DOMAIN expected
        PROVE  SlotsOf(dos)' = SlotsOf(dos) /\ SlotsOf(dos) \subseteq LiveSlots
    <2> DEFINE S == {s \in LiveSlots : root[s].name = dos}
               T == {s \in LiveSlots' : root'[s].name = dos}
    <2>1. SlotsOf(dos) = LowestOf(S) /\ SlotsOf(dos)' = LowestOf(T)
      BY SlotsByName, SlotsByNameNext DEF Storage, Lookup, LowestOf
    <2>2. PICK u \in SlotsOf(dos) : TRUE
      BY DEF Kept
    <2>3. u \in S /\ S \subseteq LiveSlots
      BY <2>1, <2>2 DEF LowestOf
    <2>4. S \subseteq T /\ T \subseteq S \cup {z}
      BY <1>4, <1>5
    <2> HIDE DEF S, T
    <2>5. LowestOf(T) = LowestOf(S)
      <3>1. z \in Nat /\ u < z /\ u \in Nat /\ z \notin S /\ \A s \in S : s \in Nat /\ s < z
        BY <1>3, <1>4, <1>5, <2>3, FatAssumption DEF Slots
      <3>2. \A s \in S : (\A t \in T : s <= t) <=> (\A t \in S : s <= t)
        BY <2>4, <3>1
      <3>3. z \in T => ~(\A t \in T : z <= t)
        BY <2>3, <2>4, <3>1
      <3> QED
        BY <2>4, <3>2, <3>3 DEF LowestOf
    <2> QED
      BY <2>1, <2>3, <2>5 DEF LowestOf
  <1>8. Kept'
    BY <1>1, <1>5, <1>7 DEF Kept
  <1> QED
    BY <1>6, <1>8

LEMMA FirstOnChain ==
  ASSUME IInv, NEW s \in LiveSlots
  PROVE  root[s].first \in Range(ChainAt(s))
  <1> DEFINE chain == ChainAt(s)
  <1>1. chain[1] = root[s].first /\ chain \in Seq(Clusters) /\ Len(chain) \in Nat \ {0}
    BY LiveChain DEF IInv
  <1>2. 1 \in DOMAIN chain
    BY <1>1
  <1> HIDE DEF chain
  <1> QED
    BY <1>1, <1>2 DEF Range, chain

\* fat12_write changes the file it was called for, and no other.
LEMMA WriteKeeps ==
  ASSUME Session, Storage, Packed, Kept, Loop, WriteCluster
  PROVE  Packed' /\ Kept'
  <1>1. /\ UNCHANGED root /\ pc = "write" /\ sh = "loop"
        /\ expected' = [d \in DOMAIN expected \cup {op.dos} |->
                          IF d = op.dos THEN <<arg.text, 1>> ELSE expected[d]]
    BY DEF Loop, WriteCluster, EndLoop, ReadCluster
  <1>2. /\ op.dos = Dos[arg.name]
        /\ data' = [data EXCEPT ![file.first] = <<arg.text, 1>>]
    BY LoopWrites
  <1>3. /\ Opened /\ file.first \in DOMAIN data
        /\ \A s \in SlotsOf(Dos[arg.name]) : root[s].first = file.first
    BY <1>1, OpenedFile DEF Storage, Progress
  <1>4. PICK u \in SlotsOf(Dos[arg.name]) : root[u].first = file.first
    BY <1>3 DEF Opened
  <1>5. \A dos : SlotsOf(dos)' = SlotsOf(dos)
    BY <1>1 DEF SlotsOf
  <1>6. ASSUME NEW dos \in DOMAIN expected, dos # op.dos, NEW s \in SlotsOf(dos)
        PROVE  data'[root[s].first] = data[root[s].first]
    <2>1. /\ s \in LiveSlots /\ root[s].name = dos
          /\ u \in LiveSlots /\ root[u].name = op.dos
      BY <1>2, <1>4, <1>6, OpenFinds DEF Storage, IInv
    <2>2. root[s].first \in Range(ChainAt(s)) /\ root[u].first \in Range(ChainAt(u))
      BY <2>1, FirstOnChain DEF Storage
    <2>3. root[s].first # file.first
      BY <1>4, <1>6, <2>1, <2>2 DEF Storage, IInv, Directory, NoCrossLink
    <2>4. root[s].first \in DOMAIN data
      BY <2>1, LiveIsFile, ClusterFacts DEF Storage, IInv, Types
    <2> QED
      BY <1>2, <2>3, <2>4
  <1>7. Kept'
    <2> SUFFICES ASSUME NEW dos \in DOMAIN expected'
                 PROVE  /\ SlotsOf(dos) # {}
                        /\ \A s \in SlotsOf(dos) : data'[root[s].first] = expected'[dos]
      BY <1>1, <1>5 DEF Kept
    <2>1. CASE dos = op.dos
      <3>1. expected'[dos] = <<arg.text, 1>> /\ data'[file.first] = <<arg.text, 1>>
        BY <1>1, <1>2, <1>3, <2>1
      <3> QED
        BY <1>2, <1>3, <1>4, <2>1, <3>1
    <2>2. CASE dos # op.dos
      <3>1. dos \in DOMAIN expected /\ expected'[dos] = expected[dos]
        BY <1>1, <2>2
      <3> QED
        BY <1>6, <2>2, <3>1 DEF Kept
    <2> QED
      BY <2>1, <2>2
  <1>8. Packed'
    BY <1>1 DEF Packed, LiveSlots
  <1> QED
    BY <1>7, <1>8

LEMMA KeptNext ==
  Session /\ Storage /\ Storage' /\ Packed /\ Kept /\ [ShellNext]_shellvars => Packed' /\ Kept'
  <1> SUFFICES ASSUME Session, Storage, Storage', Packed, Kept, [ShellNext]_shellvars
               PROVE  Packed' /\ Kept'
    OBVIOUS
  <1>1. CASE Creating /\ WriteEntry
    BY <1>1, EntryKeeps DEF Creating
  <1>2. CASE Loop /\ WriteCluster
    BY <1>2, WriteKeeps
  <1>3. CASE (\E l \in Lines : Enter(l)) \/ Prompt \/ Read \/ Parse
             \/ ExecCreate \/ ExecCat \/ ExecOther \/ Done
    BY <1>3, SessionOnly, KeptSame DEF fsvars, disk
  <1>4. CASE Create \/ (Creating /\ ~WriteEntry) \/ Open \/ NoFileFound \/ Transfer
    <2>1. UNCHANGED <<root, data, expected>>
      BY <1>4
      DEF Create, Creating, Open, NoFileFound, Transfer, CreateExisting, CreateNew, SyncFat1, SyncFat2,
          fat12_open, fat12_write, fat12_read, fsvars, disk
    <2> QED
      BY <2>1, KeptSame
  <1>5. CASE Loop /\ ~WriteCluster
    <2>1. UNCHANGED <<root, data, expected>>
      BY <1>5 DEF Loop, ReadCluster, EndLoop, disk
    <2> QED
      BY <2>1, KeptSame
  <1>6. CASE Reboot \/ UNCHANGED shellvars
    <2>1. UNCHANGED <<root, data, expected>>
      BY <1>6 DEF Reboot, Restart, shellvars, fsvars, disk
    <2> QED
      BY <2>1, KeptSame
  <1> QED
    BY <1>1, <1>2, <1>3, <1>4, <1>5, <1>6 DEF ShellNext

-----------------------------------------------------------------------------
(* What follows.                                                           *)

\* The arrays of shell_main and of the keyboard are large enough for whatever
\* is typed, and the file system is busy only while the command that called it
\* waits (shell.c, the system calls of syscall.c).
THEOREM ShellTypesHold == ShellSpec => []ShellTypeOK
  <1>1. Session /\ Storage => ShellTypeOK
    BY DEF Session, Buffers, Storage, Progress, ShellTypeOK
  <1> QED
    BY SessionInit, SessionNext, StorageInit, StorageNext, <1>1, PTL DEF ShellSpec

\* process_cmd executes each line once and, a create if it is complete, as it
\* was typed, although the shell's buffer still holds the rest of earlier lines
\* behind it, incomplete ones included (shell.c, syscall.c).
THEOREM LinesRunAsTyped == ShellSpec => []RunsWhatWasTyped
  <1>1. Session => RunsWhatWasTyped
    <2> SUFFICES ASSUME Session PROVE RunsWhatWasTyped
      OBVIOUS
    <2>1. arg # NoArg /\ Complete(Head(typed)) => Says(Head(typed))
      BY DEF Session, Given
    <2>2. ASSUME sh = "exec"
          PROVE  SubSeq(line, 1, Min({j \in DOMAIN line : line[j] = NUL}) - 1) = Head(typed)
      <3>1. PICK l : l = Head(typed)
        OBVIOUS
      <3>2. /\ l \in Lines /\ line \in [1 .. LineCells -> Cells]
            /\ Len(l) + 1 \in 1 .. LineCells /\ line[Len(l) + 1] = NUL
            /\ \A j \in 1 .. Len(l) : line[j] = l[j]
        BY <2>2, <3>1 DEF Session, Buffers, LineRead, Starts
      <3>3. l \in Seq(Cells) /\ Len(l) \in Nat /\ \A j \in 1 .. Len(l) : l[j] # NUL
        BY <3>2, LineType
      <3>4. LineCells \in Nat
        BY SizeFacts
      <3> DEFINE T == {j \in DOMAIN line : line[j] = NUL}
      <3>5. T \in SUBSET Nat /\ Len(l) + 1 \in T
        BY <3>2
      <3>6. ASSUME NEW m \in T, m < Len(l) + 1 PROVE FALSE
        <4>1. m \in 1 .. Len(l) /\ line[m] = NUL
          BY <3>2, <3>3, <3>6
        <4> QED
          BY <3>2, <3>3, <4>1
      <3> HIDE DEF T
      <3>7. \A m \in T : Len(l) + 1 <= m
        BY <3>3, <3>5, <3>6
      <3>8. Min(T) = Len(l) + 1
        BY <3>5, <3>7, LeastIsMin
      <3>9. Min(T) - 1 = Len(l)
        BY <3>3, <3>8
      <3>10. line \in Seq(Cells) /\ Len(line) = LineCells
        BY <3>2, <3>4
      <3>11. /\ SubSeq(line, 1, Len(l)) \in Seq(Cells)
             /\ Len(SubSeq(line, 1, Len(l))) = Len(l)
             /\ \A j \in 1 .. Len(l) : SubSeq(line, 1, Len(l))[j] = line[j]
        BY <3>2, <3>3, <3>4, <3>10
      <3>12. SubSeq(line, 1, Len(l)) = l
        BY <3>2, <3>3, <3>11, SeqEqual
      <3> QED
        BY <3>1, <3>9, <3>12, Zenon DEF T
    <2> QED
      BY <2>1, <2>2 DEF RunsWhatWasTyped
  <1> QED
    BY SessionInit, SessionNext, <1>1, PTL DEF ShellSpec

\* cat shows what the last create of that name wrote, whatever commands and
\* power failures came between, on disks without gaps and empty files
\* (cmd_create_file, cmd_cat, fs.c).
THEOREM CatShowsFile == OrdinaryDisks => (ShellSpec => []CatShowsLastCreate)
  <1> SUFFICES ASSUME OrdinaryDisks PROVE ShellSpec => []CatShowsLastCreate
    OBVIOUS
  <1>1. ShellInit => Packed /\ Kept
    BY KeptInit
  <1>2. Session /\ Storage /\ Packed /\ Kept => CatShowsLastCreate
    <2> SUFFICES ASSUME Storage, Packed, Kept, sh = "done", arg.cmd = "cat", file # NoFile,
                        Dos[arg.name] \in DOMAIN expected
                 PROVE  shown = <<expected[Dos[arg.name]]>>
      BY DEF CatShowsLastCreate
    <2>1. PICK s \in SlotsOf(Dos[arg.name]) : shown = <<data[root[s].first]>> \/ root[s].size = 0
      BY DEF Storage, Progress
    <2>2. s \in LiveSlots
      BY OpenFinds DEF Storage, IInv
    <2>3. root[s].size > 0
      BY <2>2 DEF Packed
    <2> QED
      BY <2>1, <2>3 DEF Kept
  <1> QED
    BY SessionInit, SessionNext, StorageInit, StorageNext, KeptNext, <1>1, <1>2, PTL DEF ShellSpec

\* cmd_create_file ignores what fat12_create returns, and yet each create that
\* comes to its end has stored the text or told the user (syscall.c, fs.c).
THEOREM CreateIsHonest == ShellSpec => []CreateStoresOrTells
  <1>1. Storage => CreateStoresOrTells
    BY DEF Storage, Progress, CreateStoresOrTells
  <1> QED
    BY SessionInit, SessionNext, StorageInit, StorageNext, <1>1, PTL DEF ShellSpec

\* A step of the system is one of the file system, the begin of fat12_write
\* with the command's text, or leaves the file system alone.
LEMMA ShellStepOfFiles ==
  ASSUME Session, [ShellNext]_shellvars
  PROVE  [Next]_vars \/ fat12_write(arg.text, BuffSize)
  <1>1. BuffSize \in Sizes
    BY ShellAssumption
  <1>2. CASE (\E l \in Lines : Enter(l)) \/ Prompt \/ Read \/ Parse
             \/ ExecCreate \/ ExecCat \/ ExecOther \/ Done
    <2>1. UNCHANGED fsvars
      BY <1>2, SessionOnly
    <2> QED
      BY <2>1 DEF fsvars, vars
  <1>3. CASE Create \/ Open
    <2>1. arg.name \in Names
      BY <1>3 DEF Create, Open, Session, Given, NoArg
    <2> QED
      BY <1>1, <1>3, <2>1 DEF Create, Open, Next, fsvars, vars
  <1>4. CASE Creating \/ Loop \/ Reboot
    BY <1>4 DEF Creating, Loop, Reboot, Next
  <1>5. CASE Transfer
    BY <1>1, <1>5 DEF Transfer, Next
  <1>6. CASE NoFileFound \/ UNCHANGED shellvars
    BY <1>6 DEF NoFileFound, shellvars, fsvars, vars
  <1> QED
    BY <1>2, <1>3, <1>4, <1>5, <1>6 DEF ShellNext

\* Used by the shell and its commands, with texts of any content, the file
\* system keeps the promise of FileStore: no command makes a file disappear or
\* touches another one, and neither does a power failure (syscall.c over fs.c).
THEOREM CommandsKeepFiles == ShellSpec => KeepsFiles
  <1>1. ShellInit => FS!Init
    BY DEF ShellInit, Init, Idle, FS!Init
  <1>2. Session /\ Storage /\ Storage' /\ [ShellNext]_shellvars => [FS!Next]_(FS!vars)
    <2> SUFFICES ASSUME Session, Storage, Storage', [ShellNext]_shellvars
                 PROVE  [FS!Next]_(FS!vars)
      OBVIOUS
    <2>1. CASE [Next]_vars
      BY <2>1, StoreStep DEF Storage
    <2>2. CASE fat12_write(arg.text, BuffSize)
      <3>1. UNCHANGED <<fat1, root, data, twice>>
        BY <2>2 DEF fat12_write, disk
      <3>2. LiveSlots' = LiveSlots /\ \A s : ChainAt(s)' = ChainAt(s)
        BY <3>1, DirectorySame DEF Storage, IInv
      <3> QED
        BY <3>1, <3>2, StoreStays, StoreSameStep DEF Storage
    <2> QED
      BY <2>1, <2>2, ShellStepOfFiles
  <1> QED
    BY SessionInit, SessionNext, StorageInit, StorageNext, <1>1, <1>2, PTL
    DEF ShellSpec, KeepsFiles, FS!Spec
=============================================================================
