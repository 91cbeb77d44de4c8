------------------------------ MODULE MCKernel ------------------------------
(***************************************************************************)
(* Tables of 16 entries, the kernel's half at 14/16: the boot map covers   *)
(* 16 frames, the window 32, the machine has 24.  Low memory is 0 .. 10,   *)
(* its last frame cut off by the firmware's data (sizes are rounded down), *)
(* 11 and 12 the hole, 13 .. 15 the kernel's. The firmware's answers: one   *)
(* region below the hole and one above, in two orders, with an entry at 0  *)
(* that ends main's loop, without an end.  Besides, sets of free frames    *)
(* that are too small at every point where the kernel allocates.           *)
(***************************************************************************)
EXTENDS Kernel

Entry(start, size, type) == [start |-> start, size |-> size, type |-> type]
Low  == Entry(0, 10, 1)
Rom  == Entry(11, 2, 2)
High == Entry(13, 11, 1)
Gone == Entry(13, 4, 5)

Answers == {<<Low, Rom, High>>, <<Low, Entry(11, 0, 2), Gone>>, <<Low, High, Entry(0, 0, 0), Rom>>, <<Low>>}

Short == {{}, {1}, {1, 2}, {1, 2, 3}, {1, 2, 3, 4}, {1, 2, 3, 4, 5, 9, 11, 13, 15}}
MCFreeSets == {FreeAfterBoot(a) : a \in Answers} \cup Short
=============================================================================
