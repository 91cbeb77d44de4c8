----------------------------- MODULE LineQueue -----------------------------
(***************************************************************************)
(* What a blocking line reader promises: the lines that were entered form  *)
(* one stream of bytes; a read answers with the first bytes of the stream, *)
(* up to and including a newline or until the caller's buffer is full, and *)
(* only when a whole line is there.  The promise is for readers that keep  *)
(* up: a line that does not fit behind the bytes still to be read voids it.*)
(***************************************************************************)
EXTENDS Integers, Sequences, SequencesExt

CONSTANTS
  NL,           \* the newline
  Capacity      \* bytes that may wait to be read

VARIABLES
  typed,        \* characters of the line being entered
  stream,       \* bytes of complete lines not yet returned by a read
  wanted,       \* the size of the pending read, 0 if there is none
  answer,       \* what the last read returned, empty while one is pending
  void          \* a line did not fit: nothing is promised any more

vars == <<typed, stream, wanted, answer, void>>

Init ==
  typed = 0 /\ stream = <<>> /\ wanted = 0 /\ answer = <<>> /\ void = FALSE

Type ==
  /\ typed' \in {typed - 1, typed + 1} \cap Nat
  /\ UNCHANGED <<stream, wanted, answer, void>>

\* The line, which has no newline in it, and a newline join the stream.
Enter ==
  /\ IsPrefix(stream, stream')
  /\ Len(stream') = Len(stream) + typed + 1
  /\ \A i \in Len(stream) + 1 .. Len(stream') :
        stream'[i] = NL <=> i = Len(stream')
  /\ typed' = 0
  /\ UNCHANGED <<wanted, answer, void>>

Overflow ==
  /\ Len(stream) + typed + 1 > Capacity
  /\ void'

Request ==
  /\ wanted = 0 /\ wanted' # 0
  /\ answer' = <<>>
  /\ UNCHANGED <<typed, stream, void>>

Reply ==
  /\ wanted # 0 /\ wanted' = 0
  /\ NL \in Range(stream)
  /\ stream = answer' \o stream'
  /\ Len(answer') = wanted \/ Last(answer') = NL
  /\ NL \notin Range(Front(answer'))
  /\ UNCHANGED <<typed, void>>

AfterOverflow == void /\ void'

Next == Type \/ Enter \/ Overflow \/ Request \/ Reply \/ AfterOverflow

Spec == Init /\ [][Next]_vars
=============================================================================
