----------------------------- MODULE MCKeyboard -----------------------------
(***************************************************************************)
(* A ring of 4 bytes, two characters, and reads of 2 bytes (shorter than a *)
(* line) and of 3 (BUFFER_SIZE - 1, the count the shell passes).  Lines of *)
(* 0 to 3 characters: the ring fills exactly, overflows, and wraps around. *)
(***************************************************************************)
EXTENDS Keyboard

CONSTANTS a, b
=============================================================================
