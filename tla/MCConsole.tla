----------------------------- MODULE MCConsole -----------------------------
(* A screen of three lines of two cells; positions are two digits of base  *)
(* 3, so that a step of the cursor can change both registers.  Six         *)
(* characters are enough to fill the screen, scroll and erase across lines.*)
EXTENDS Console

CONSTANT x
=============================================================================
