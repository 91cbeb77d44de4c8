------------------------------- MODULE MCPmm -------------------------------
(***************************************************************************)
(* Scaled-down machine for Pmm: 4-byte blocks, 4 bits a "byte" of which    *)
(* memset sets the low 2, 8-bit words.  8 frames of memory, which the       *)
(* extra factor KiB = 2 turns into a bitmap of 16 bits; 32 frames can be   *)
(* addressed.  The map has a region that ends inside the next one, a       *)
(* reserved region, one of a type above 4, an entry at address 0 that ends *)
(* the loop and one behind it.                                             *)
(***************************************************************************)
EXTENDS Pmm

Entry(base, size, type) == [startLo |-> base, sizeLo |-> size, type |-> type]

MCMemoryMap ==
  << Entry(0, 12, 1), Entry(12, 8, 2), Entry(20, 4, 1), Entry(24, 4, 5),
     Entry(0, 0, 0), Entry(28, 4, 1) >>

\* The memory behind the bitmap holds zeros, ones, or anything.
MCResidues == {{}, Frames, {17, 20, 30}}
=============================================================================
