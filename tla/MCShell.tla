------------------------------ MODULE MCShell ------------------------------
(***************************************************************************)
(* A ring of 7 cells: the longest command and its newline, and one more;   *)
(* and one more for the line, so that a space of a new stack stays behind  *)
(* every line.  A new stack is full of terminators or of spaces.  Files    *)
(* with a name and without one, two texts, one of them a space; room for   *)
(* two clusters and two directory entries.                                 *)
(***************************************************************************)
EXTENDS Shell, TLC

CONSTANTS note, x, create, cat, help, exit

MCKind  == [w \in {note, x} |-> "other"] @@
           create :> "create" @@ cat :> "cat" @@ exit :> "exit" @@ help :> "other"
MCBytes == note :> 4 @@ x :> 1 @@ create :> 6 @@ cat :> 3 @@ exit :> 4 @@ help :> 4
MCNames == DOMAIN MCKind \cup {Empty}
MCDos   == [n \in MCNames |-> <<n>>]

MCLines ==
  { <<create, SP, note, SP, x>>, <<create, SP, note, SP, SP>>, <<create>>,
    <<cat, SP, note>>, <<cat, SP, note, SP>>, <<cat>>, <<SP>>, <<SP, exit>>, <<exit, SP>> }

\* The examples of README.md:105-111.
MCDocumented == { <<create, SP, note, SP, x>>, <<cat, SP, note>>, <<help>>, <<exit>> }

MCFresh  == { [j \in 1 .. LineCells |-> c] : c \in {NUL, SP} }
MCZeroed == { [j \in 1 .. LineCells |-> NUL] }

EmptyDisk ==
  [fat  |-> [c \in Clusters |-> 0],
   root |-> [s \in Slots |-> End],
   data |-> [c \in Addresses |-> <<<<"image">>, c>>]]

MCImages == {EmptyDisk}
=============================================================================
