-------------------------------- MODULE Pmm --------------------------------
(***************************************************************************)
(* The physical memory manager of mm/memory.c, with the loop of            *)
(* kernel/kernel.c that hands it the firmware's memory map.                *)
(*                                                                         *)
(* mem_mngr is an array of words in the code and the set `used' of the     *)
(* bits that are set here.  Nothing marks a frame as belonging to a        *)
(* caller, so `holders' counts, for each frame, how many allocations that  *)
(* were not given back contain it.                                         *)
(*                                                                         *)
(* The widths of the code (32-bit words, 8 bits a byte, 4096-byte blocks,  *)
(* 2^32 unsigned values) are constants, so that a run can scale them down. *)
(***************************************************************************)
EXTENDS Integers, Sequences, FiniteSets

CONSTANTS
  U32,           \* unsigned arithmetic is modulo U32 (2^32)
  BlockSize,     \* MEMORY_BLOCK_SIZE (4096)
  BitsPerByte,   \* MEMORY_BLOCKS_PER_BYTE (8)
  WordBits,      \* bits of an element of mem_mngr (32)
  MemsetOnes,    \* how many low bits of a byte memset(.., 0xf, ..) sets (4)
  KiB,           \* the factor 1024 of init_mem_mngr
  MemSize,       \* the size init_mem_mngr is given, in bytes
  MemoryMap,     \* the map at bootinfo->m_mmap_addr
  Residues,      \* what the memory behind the initialised bitmap may hold
  RunSizes       \* the sizes callers ask alloc_memory_blocks for

RegionTypes == 0..5    \* E820 types; 5 stands for every type above 4

\* The frames of the whole address space: the bits of mem_mngr that can be named.
Frames == 0 .. (U32 \div BlockSize) - 1

ASSUME WidthsAssumption ==
  /\ U32 \in Nat /\ BlockSize \in 1..U32
  /\ WordBits \in Nat /\ BitsPerByte \in 1..WordBits
  /\ MemsetOnes \in 1..BitsPerByte

ASSUME InputsAssumption ==
  /\ KiB \in Nat /\ MemSize \in Nat
  /\ MemoryMap \in Seq([startLo : Nat, sizeLo : Nat, type : RegionTypes])
  /\ Residues \subseteq SUBSET Frames /\ Residues # {}
  /\ RunSizes \subseteq Nat

VARIABLES
  used,                   \* the bits of mem_mngr that are 1
  mem_mngr_used_blocks,   \* the count the code keeps beside the bitmap
  region,                 \* main's index into the memory map
  holders                 \* history: allocations not yet given back, per frame

vars == <<used, mem_mngr_used_blocks, region, holders>>

-----------------------------------------------------------------------------
\* mem_mngr_max_blocks: bytes are scaled by 1024 once more, in 32 bits.
BlockCount == ((MemSize * KiB) % U32) \div BlockSize

FreeCount == (BlockCount - mem_mngr_used_blocks) % U32

\* The bits the memset of init_mem_mngr writes, and those it leaves at 1.
Initialised == {b \in Frames : b < (BlockCount \div BitsPerByte) * BitsPerByte}
MemsetBits  == {b \in Initialised : b % BitsPerByte < MemsetOnes}

\* The bits of the whole words that the searches look at.
Searched == {f \in Frames : f < (BlockCount \div WordBits) * WordBits}
FreeFrames == Searched \ used

\* The bits init_memory_region clears: the loop runs once more than it has blocks.
Span(base, size) ==
  {f \in Frames : /\ base \div BlockSize <= f
                  /\ f <= base \div BlockSize + size \div BlockSize}
SpanLength(size) == size \div BlockSize + 1

Run(f, n) == {g \in Frames : f <= g /\ g < f + n}

\* mmap_first_free_s accepts a start at which n of the n+1 bits are clear.
Fits(f, n) ==
  IF n = 1 THEN TRUE
  ELSE Cardinality({g \in Run(f, n + 1) : g \notin used}) >= n

\* mmap_first_free_s: the first start that fits, none for a size of 0.
FirstFree(n) ==
  LET starts == {f \in FreeFrames : n > 0 /\ Fits(f, n)}
  IN {f \in starts : \A g \in starts : f <= g}

-----------------------------------------------------------------------------
\* init_mem_mngr has run; main's loop has not.
Init ==
  /\ \E residue \in Residues : used = MemsetBits \cup (residue \ Initialised)
  /\ mem_mngr_used_blocks = BlockCount % U32
  /\ region = 1
  /\ holders = [f \in Frames |-> 0]

Booting == region <= Len(MemoryMap)
Booted  == region > Len(MemoryMap)

\* main: a type above 4 counts as available memory.
IsAvailable(i) == MemoryMap[i].type \in {1, 5}
EndsMap(i) == i > 1 /\ MemoryMap[i].startLo = 0

\* Mutant of init_memory_region: without mmap_set(0).
ClearsFrameZero ==
  /\ Booting /\ ~EndsMap(region) /\ IsAvailable(region)
  /\ LET r == MemoryMap[region]
     IN /\ used' = used \ Span(r.startLo, r.sizeLo)
        /\ mem_mngr_used_blocks' =
             (mem_mngr_used_blocks - SpanLength(r.sizeLo)) % U32
  /\ region' = region + 1
  /\ UNCHANGED holders

init_memory_region ==
  /\ Booting /\ ~EndsMap(region) /\ IsAvailable(region)
  /\ LET r == MemoryMap[region]
     IN /\ used' = (used \ Span(r.startLo, r.sizeLo)) \cup {0}
        /\ mem_mngr_used_blocks' =
             (mem_mngr_used_blocks - SpanLength(r.sizeLo)) % U32
  /\ region' = region + 1
  /\ UNCHANGED holders

SkipRegion ==
  /\ Booting /\ ~EndsMap(region) /\ ~IsAvailable(region)
  /\ region' = region + 1
  /\ UNCHANGED <<used, mem_mngr_used_blocks, holders>>

\* Mutant of BreakOffMap: the index is set to the end and then incremented.
BreaksPastEnd ==
  /\ Booting /\ EndsMap(region)
  /\ region' = Len(MemoryMap) + 2
  /\ UNCHANGED <<used, mem_mngr_used_blocks, holders>>

BreakOffMap ==
  /\ Booting /\ EndsMap(region)
  /\ region' = Len(MemoryMap) + 1
  /\ UNCHANGED <<used, mem_mngr_used_blocks, holders>>

\* What mmap_set (mmap_unset) on each bit of a run and the counter update do;
\* the caller becomes a holder of each frame of the run (stops being one).
Take(run, n) ==
  /\ used' = used \cup run
  /\ mem_mngr_used_blocks' = (mem_mngr_used_blocks + n) % U32
  /\ holders' = [f \in Frames |-> IF f \in run THEN holders[f] + 1 ELSE holders[f]]
  /\ UNCHANGED region

\* Mutants of Return: a bit too many, with the <= of init_memory_region's loop;
\* no mmap_unset at all.
ReturnsOneMore(run, n) ==
  /\ used' = {g \in used : g \notin run /\ g - 1 \notin run}
  /\ mem_mngr_used_blocks' = (mem_mngr_used_blocks - n) % U32
  /\ holders' = [f \in Frames |-> IF f \in run THEN holders[f] - 1 ELSE holders[f]]
  /\ UNCHANGED region

ReturnsNothing(run, n) ==
  /\ mem_mngr_used_blocks' = (mem_mngr_used_blocks - n) % U32
  /\ holders' = [f \in Frames |-> IF f \in run THEN holders[f] - 1 ELSE holders[f]]
  /\ UNCHANGED <<used, region>>

Return(run, n) ==
  /\ used' = used \ run
  /\ mem_mngr_used_blocks' = (mem_mngr_used_blocks - n) % U32
  /\ holders' = [f \in Frames |-> IF f \in run THEN holders[f] - 1 ELSE holders[f]]
  /\ UNCHANGED region

\* Mutant of alloc_memory_block: the count is not looked at.
AllocatesUncounted ==
  /\ Booted
  /\ \E f \in FirstFree(1) : Take({f}, 1)

\* A call that answers 0 ("out of memory") changes nothing: it is a stutter.
alloc_memory_block ==
  /\ Booted /\ FreeCount > 0
  /\ \E f \in FirstFree(1) : Take({f}, 1)

alloc_memory_blocks(n) ==
  /\ Booted /\ FreeCount > n
  /\ \E f \in FirstFree(n) : Take(Run(f, n), n)

\* Callers give back what they were given.
free_memory_block(f) ==
  /\ Booted /\ holders[f] > 0
  /\ Return({f}, 1)

free_memory_blocks(f, n) ==
  /\ Booted /\ n > 0
  /\ \A g \in Run(f, n) : holders[g] > 0
  /\ Return(Run(f, n), n)

Next ==
  \/ init_memory_region \/ SkipRegion \/ BreakOffMap
  \/ alloc_memory_block
  \/ \E n \in RunSizes : alloc_memory_blocks(n)
  \/ \E f \in Frames : free_memory_block(f)
  \/ \E f \in Frames, n \in RunSizes : free_memory_blocks(f, n)

Spec == Init /\ [][Next]_vars
-----------------------------------------------------------------------------
Held == {f \in Frames : holders[f] > 0}

\* The bitmap names frames of the address space, the count stays a 32-bit
\* value, main's index ends one past the map and no history count goes below 0.
TypeOK ==
  /\ used \subseteq Frames
  /\ mem_mngr_used_blocks \in 0 .. U32 - 1
  /\ region \in 1 .. Len(MemoryMap) + 1
  /\ holders \in [Frames -> Nat]

\* A frame that an alloc_memory_block(s) caller holds is never given to a second
\* one, in any order of booting, allocations and frees of single blocks: its
\* callers ask for no more (RunSizes), and a run of two can share a frame.
NoDoubleAllocation == \A f \in Frames : holders[f] <= 1

\* No caller is given frame 0, whose address is the allocators' answer for
\* "out of memory": main's regions clear its bit, mmap_set(0) must restore it.
FrameZeroNeverHeld == 0 \notin Held

\* The blocks the regions passed so far took off the count, one more for each
\* region than it has.
Released      == {i \in 1 .. region - 1 : IsAvailable(i) /\ \A j \in 1 .. i : ~EndsMap(j)}
CountedBlocks == UNION {{i} \X (1 .. SpanLength(MemoryMap[i].sizeLo)) : i \in Released}

\* The guard on the count bounds what callers hold together, although the count
\* wraps: the bits the memset leaves clear in reserved memory can take the place
\* of released frames, but they never add to them.
NoOvercommit == Cardinality(Held) <= Cardinality(CountedBlocks)

\* Seen by its callers the bitmap is the frame allocator of FrameAllocator: an
\* allocation takes frames that were free, a free makes them allocatable again.
FA == INSTANCE FrameAllocator WITH free <- FreeFrames, held <- Held

AllocatesFrames == FA!Spec
=============================================================================
