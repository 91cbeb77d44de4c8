----------------------------- MODULE FileStore -----------------------------
(***************************************************************************)
(* What a file system promises across power failures: a set of files, each *)
(* with a content; an operation names one file and touches no other;       *)
(* creating a file makes it appear at once, writing replaces parts of its  *)
(* content, and nothing that is there ever disappears.                     *)
(* A disk on which one name was entered twice is outside the promise.      *)
(***************************************************************************)
EXTENDS Functions

VARIABLES
  files,        \* name -> sequence of sector contents
  target,       \* the name of the operation in progress
  twice         \* a name was entered twice

vars == <<files, target, twice>>

CONSTANT NoName \* no operation is in progress

Init == target = NoName /\ twice = FALSE

Begin ==
  /\ target' # target
  /\ UNCHANGED <<files, twice>>

Appear ==
  /\ target \notin DOMAIN files
  /\ DOMAIN files' = DOMAIN files \cup {target}
  /\ Restrict(files', DOMAIN files) = files
  /\ target' = NoName
  /\ UNCHANGED twice

Rewrite ==
  /\ target \in DOMAIN files
  /\ DOMAIN files' = DOMAIN files
  /\ DOMAIN files'[target] = DOMAIN files[target]
  /\ \A n \in DOMAIN files \ {target} : files'[n] = files[n]
  /\ UNCHANGED <<target, twice>>

Duplicate ==
  /\ target \in DOMAIN files
  /\ twice'

AfterDuplicate == twice /\ twice'

Next == Begin \/ Appear \/ Rewrite \/ Duplicate \/ AfterDuplicate

Spec == Init /\ [][Next]_vars
=============================================================================
