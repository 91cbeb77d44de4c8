----------------------------- MODULE MCScancode -----------------------------
(***************************************************************************)
(* Both shift keys, caps lock, a letter and a digit, up to three held at a *)
(* time, with the timer and a disk that interrupts.                        *)
(***************************************************************************)
EXTENDS Scancode

MCBytes == Keys \cup {k + Release : k \in Keys}
=============================================================================
