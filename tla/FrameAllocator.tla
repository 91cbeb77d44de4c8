--------------------------- MODULE FrameAllocator ---------------------------
(***************************************************************************)
(* What a physical memory manager promises its callers: a frame is either  *)
(* free or held, never both; a caller is only ever given a frame that was  *)
(* free; what it gives back becomes free again.  The frame numbered 0 is   *)
(* never free, because the address 0 is how an allocator answers "none".   *)
(***************************************************************************)
EXTENDS Integers

CONSTANT Frames     \* the frame numbers the allocator manages

VARIABLES
  free,             \* the frames that may be handed out
  held              \* the frames callers hold

vars == <<free, held>>

Init ==
  /\ free \in SUBSET (Frames \ {0})
  /\ held = {}

\* Memory the firmware reports as usable becomes free before any caller runs.
Release ==
  /\ held = {} /\ held' = {}
  /\ free \subseteq free' /\ free' \subseteq Frames \ {0}

\* A caller is given frames that were free, and only those.
Acquire ==
  /\ free' \subseteq free
  /\ held' = held \cup (free \ free')

GiveBack ==
  /\ held' \subseteq held
  /\ free' = free \cup (held \ held')

Next == Release \/ Acquire \/ GiveBack

Spec == Init /\ [][Next]_vars
=============================================================================
