----------------------------- MODULE PmmProofs -----------------------------
(***************************************************************************)
(* Proofs about Pmm for every machine, memory map and bitmap width.        *)
(*                                                                         *)
(* The search of alloc_memory_block looks at clear bits only, so no frame  *)
(* is given out twice as long as a held frame's bit is set.  That needs    *)
(* two more facts: nothing is held while main's loop still clears bits,    *)
(* and a free clears the bit of a frame only when nobody holds it any      *)
(* longer.  It is a fact about callers of single blocks (SingleBlocks):    *)
(* for larger runs the search accepts runs with a used frame in them.      *)
(* So is the last theorem, that the count bounds what they hold.           *)
(***************************************************************************)
EXTENDS Pmm, SequenceTheorems, FiniteSetTheorems, TLAPS

SingleBlocks == RunSizes \subseteq {0, 1}

\* Nothing is held before the memory map has been read.
NothingHeldAtBoot == Booting => \A f \in Frames : holders[f] = 0

\* The bit of frame 0 is set whenever the search would look at it.
ZeroMarked == (0 \in Searched => 0 \in used) /\ holders[0] = 0

\* What is held is marked, is in reach of the search and has one holder.
HeldMarked ==
  \A f \in Frames : holders[f] > 0 => /\ holders[f] = 1
                                      /\ f \in used /\ f \in Searched

IInv == TypeOK /\ NothingHeldAtBoot /\ ZeroMarked

-----------------------------------------------------------------------------
\* Integer division and remainder as the definitions of Pmm use them.
LEMMA DivNat ==
  ASSUME NEW a \in Nat, NEW b \in Nat \ {0}
  PROVE  a \div b \in Nat
  BY SMT

LEMMA DivPositive ==
  ASSUME NEW a \in Nat, NEW b \in 1..a
  PROVE  a \div b \in Nat /\ a \div b >= 1
  BY SMT

LEMMA ModRange ==
  ASSUME NEW a \in Int, NEW b \in Nat \ {0}
  PROVE  a % b \in 0 .. b - 1
  BY SMT

\* When a whole word of n bits is searched, a whole byte was initialised.
LEMMA WordHasByte ==
  ASSUME NEW n \in Nat, NEW b \in Nat \ {0}, NEW w \in Nat, b <= w,
         (n \div w) * w > 0
  PROVE  (n \div b) * b > 0
  BY SMT

\* Frame 0 exists: the address space has at least one block.
LEMMA FramesNat == Frames \subseteq Nat /\ 0 \in Frames
  BY WidthsAssumption, DivPositive DEF Frames

\* The number of blocks main asks for fits in 32 bits.
LEMMA BlockCountNat == BlockCount \in Nat
  <1>1. (MemSize * KiB) % U32 \in Nat
    BY WidthsAssumption, InputsAssumption, ModRange
  <1> QED
    BY <1>1, WidthsAssumption, DivNat DEF BlockCount

\* The memset marks frame 0 whenever there is a word to search.
LEMMA MemsetMarksZero == 0 \in Searched => 0 \in MemsetBits
  <1> SUFFICES ASSUME 0 \in Searched
               PROVE  0 \in MemsetBits
    OBVIOUS
  <1>1. (BlockCount \div WordBits) * WordBits > 0
    BY DEF Searched
  <1>2. (BlockCount \div BitsPerByte) * BitsPerByte > 0
    BY <1>1, WordHasByte, BlockCountNat, WidthsAssumption
  <1>3. 0 % BitsPerByte = 0
    BY WidthsAssumption, SMT
  <1> QED
    BY <1>2, <1>3, FramesNat, WidthsAssumption DEF MemsetBits, Initialised

\* What the search returns is clear, in reach, and not frame 0 when that is marked.
LEMMA FirstFreeIsFree ==
  ASSUME NEW n, NEW f \in FirstFree(n)
  PROVE  f \in Frames /\ f \in Searched /\ f \notin used
  BY DEF FirstFree, FreeFrames, Searched

-----------------------------------------------------------------------------
\* init_mem_mngr establishes the inductive invariant.
LEMMA InitIInv == Init => IInv
  <1> SUFFICES ASSUME Init
               PROVE  IInv
    OBVIOUS
  <1>1. TypeOK
    <2>1. used \subseteq Frames
      BY InputsAssumption DEF Init, MemsetBits, Initialised
    <2>2. mem_mngr_used_blocks \in 0 .. U32 - 1
      BY BlockCountNat, ModRange, WidthsAssumption DEF Init
    <2>3. region \in 1 .. Len(MemoryMap) + 1
      BY InputsAssumption DEF Init
    <2>4. holders \in [Frames -> Nat]
      BY DEF Init
    <2> QED
      BY <2>1, <2>2, <2>3, <2>4 DEF TypeOK
  <1>2. NothingHeldAtBoot
    BY DEF Init, NothingHeldAtBoot
  <1>3. ZeroMarked
    BY MemsetMarksZero, FramesNat DEF Init, ZeroMarked
  <1> QED
    BY <1>1, <1>2, <1>3 DEF IInv

\* A run that is taken keeps the types, and frame 0 if it is not in the run.
LEMMA TakeIInv ==
  ASSUME NEW run \in SUBSET Frames, NEW n \in Nat,
         IInv, Booted, Take(run, n), 0 \notin run
  PROVE  IInv'
  <1>1. TypeOK'
    <2>1. mem_mngr_used_blocks' \in 0 .. U32 - 1
      BY ModRange, WidthsAssumption DEF IInv, TypeOK, Take
    <2>2. holders' \in [Frames -> Nat]
      BY DEF IInv, TypeOK, Take
    <2> QED
      BY <2>1, <2>2 DEF IInv, TypeOK, Take
  <1>2. NothingHeldAtBoot'
    BY InputsAssumption DEF IInv, TypeOK, Take, Booted, Booting, NothingHeldAtBoot
  <1>3. ZeroMarked'
    BY FramesNat DEF IInv, TypeOK, Take, ZeroMarked
  <1> QED
    BY <1>1, <1>2, <1>3 DEF IInv

\* So does a run that is given back, when all of it is held.
LEMMA ReturnIInv ==
  ASSUME NEW run \in SUBSET Frames, NEW n \in Nat,
         IInv, Booted, Return(run, n), \A f \in run : holders[f] > 0
  PROVE  IInv'
  <1>1. TypeOK'
    <2>1. mem_mngr_used_blocks' \in 0 .. U32 - 1
      BY ModRange, WidthsAssumption DEF IInv, TypeOK, Return
    <2>2. holders' \in [Frames -> Nat]
      BY DEF IInv, TypeOK, Return
    <2> QED
      BY <2>1, <2>2 DEF IInv, TypeOK, Return
  <1>2. NothingHeldAtBoot'
    BY InputsAssumption DEF IInv, TypeOK, Return, Booted, Booting, NothingHeldAtBoot
  <1>3. ZeroMarked'
    BY FramesNat DEF IInv, TypeOK, Return, ZeroMarked
  <1> QED
    BY <1>1, <1>2, <1>3 DEF IInv

\* Every step keeps the inductive invariant, whatever sizes are asked for.
LEMMA NextIInv == IInv /\ [Next]_vars => IInv'
  <1> SUFFICES ASSUME IInv, [Next]_vars
               PROVE  IInv'
    OBVIOUS
  <1> USE FramesNat
  <1>1. CASE init_memory_region
    <2>1. TypeOK'
      <3>1. region \in 1 .. Len(MemoryMap) /\ region + 1 \in 1 .. Len(MemoryMap) + 1
        BY <1>1, InputsAssumption DEF init_memory_region, Booting, IInv, TypeOK
      <3>2. MemoryMap[region] \in [startLo : Nat, sizeLo : Nat, type : RegionTypes]
        BY <3>1, InputsAssumption, ElementOfSeq
      <3>3. SpanLength(MemoryMap[region].sizeLo) \in Int
        BY <3>2, DivNat, WidthsAssumption DEF SpanLength
      <3>4. mem_mngr_used_blocks' =
              (mem_mngr_used_blocks - SpanLength(MemoryMap[region].sizeLo)) % U32
        BY <1>1 DEF init_memory_region
      <3>5. mem_mngr_used_blocks' \in 0 .. U32 - 1
        <4>1. mem_mngr_used_blocks - SpanLength(MemoryMap[region].sizeLo) \in Int
          BY <3>3 DEF IInv, TypeOK
        <4>2. U32 \in Nat \ {0}
          BY WidthsAssumption
        <4> QED
          BY <3>4, <4>1, <4>2, ModRange
      <3>6. used' \subseteq Frames
        BY <1>1 DEF init_memory_region, IInv, TypeOK
      <3>7. region' = region + 1 /\ holders' = holders
        BY <1>1 DEF init_memory_region
      <3> QED
        BY <3>1, <3>5, <3>6, <3>7 DEF IInv, TypeOK
    <2>2. NothingHeldAtBoot'
      BY <1>1 DEF init_memory_region, IInv, NothingHeldAtBoot, Booting
    <2>3. ZeroMarked'
      BY <1>1 DEF init_memory_region, IInv, ZeroMarked, Searched
    <2> QED
      BY <2>1, <2>2, <2>3 DEF IInv
  <1>2. CASE SkipRegion
    BY <1>2, InputsAssumption
    DEF SkipRegion, Booting, IInv, TypeOK, NothingHeldAtBoot, ZeroMarked, Searched
  <1>3. CASE BreakOffMap
    BY <1>3, InputsAssumption
    DEF BreakOffMap, Booting, IInv, TypeOK, NothingHeldAtBoot, ZeroMarked, Searched
  <1>4. CASE alloc_memory_block
    <2>1. PICK f \in FirstFree(1) : Take({f}, 1)
      BY <1>4 DEF alloc_memory_block
    <2>2. f \in Frames /\ f # 0
      BY FirstFreeIsFree DEF IInv, ZeroMarked
    <2> QED
      BY <1>4, <2>1, <2>2, TakeIInv DEF alloc_memory_block
  <1>5. ASSUME NEW n \in RunSizes, alloc_memory_blocks(n)
        PROVE  IInv'
    <2>1. PICK f \in FirstFree(n) : Take(Run(f, n), n)
      BY <1>5 DEF alloc_memory_blocks
    <2>2. f \in Frames /\ f # 0
      BY FirstFreeIsFree DEF IInv, ZeroMarked
    <2>3. Run(f, n) \subseteq Frames /\ 0 \notin Run(f, n)
      BY <2>2 DEF Run
    <2> QED
      BY <1>5, <2>1, <2>3, TakeIInv, InputsAssumption DEF alloc_memory_blocks
  <1>6. ASSUME NEW f \in Frames, free_memory_block(f)
        PROVE  IInv'
    BY <1>6, ReturnIInv DEF free_memory_block
  <1>7. ASSUME NEW f \in Frames, NEW n \in RunSizes, free_memory_blocks(f, n)
        PROVE  IInv'
    <2>1. Run(f, n) \subseteq Frames
      BY DEF Run
    <2> QED
      BY <1>7, <2>1, ReturnIInv, InputsAssumption DEF free_memory_blocks
  <1>8. CASE UNCHANGED vars
    BY <1>8 DEF vars, IInv, TypeOK, NothingHeldAtBoot, ZeroMarked, Booting, Searched
  <1> QED
    BY <1>1, <1>2, <1>3, <1>4, <1>5, <1>6, <1>7, <1>8 DEF Next

\* Pmm's invariant in every state, whatever sizes callers ask for.
LEMMA AlwaysIInv == Spec => []IInv
  BY InitIInv, NextIInv, PTL DEF Spec

\* The bitmap, the 32-bit counter and the loop over the memory map keep their types.
THEOREM TypeCorrect == Spec => []TypeOK
  <1>1. IInv => TypeOK
    BY DEF IInv
  <1> QED
    BY <1>1, AlwaysIInv, PTL

\* No allocation, of any size, returns frame 0, which means "out of memory":
\* init_memory_region sets its bit again after each region it clears.
THEOREM FrameZeroSafe == Spec => []FrameZeroNeverHeld
  <1>1. IInv => FrameZeroNeverHeld
    BY DEF IInv, ZeroMarked, FrameZeroNeverHeld, Held
  <1> QED
    BY <1>1, AlwaysIInv, PTL
-----------------------------------------------------------------------------
\* Callers that ask for one block at a time.  An allocation then is Take({f}, 1)
\* for a free f, a free is Return({f}, 1) for a held f.
LEMMA SingleRun ==
  ASSUME NEW f \in Frames
  PROVE  Run(f, 1) = {f}
  <1>1. f \in Run(f, 1)
    BY FramesNat DEF Run
  <1>2. ASSUME NEW g \in Run(f, 1) PROVE g = f
    <2>1. g \in Nat /\ f \in Nat /\ f <= g /\ g < f + 1
      BY FramesNat DEF Run
    <2> QED
      BY <2>1
  <1> QED
    BY <1>1, <1>2

LEMMA SingleAllocation ==
  ASSUME SingleBlocks, IInv, alloc_memory_block \/ \E n \in RunSizes : alloc_memory_blocks(n)
  PROVE  /\ Booted /\ FreeCount > 0
         /\ \E f \in Frames : f \in Searched /\ f \notin used /\ Take({f}, 1)
  <1>1. CASE alloc_memory_block
    BY <1>1, FirstFreeIsFree DEF alloc_memory_block
  <1>2. ASSUME NEW n \in RunSizes, alloc_memory_blocks(n)
        PROVE  /\ Booted /\ FreeCount > 0
               /\ \E f \in Frames : f \in Searched /\ f \notin used /\ Take({f}, 1)
    <2>1. PICK f \in FirstFree(n) : Take(Run(f, n), n)
      BY <1>2 DEF alloc_memory_blocks
    <2>2. n = 1
      BY <2>1 DEF SingleBlocks, FirstFree
    <2>3. FreeCount \in Int
      BY BlockCountNat, WidthsAssumption DEF FreeCount, IInv, TypeOK
    <2> QED
      BY <1>2, <2>1, <2>2, <2>3, SingleRun, FirstFreeIsFree DEF alloc_memory_blocks
  <1> QED
    BY <1>1, <1>2

LEMMA SingleReturn ==
  ASSUME SingleBlocks,
         \/ \E f \in Frames : free_memory_block(f)
         \/ \E f \in Frames, n \in RunSizes : free_memory_blocks(f, n)
  PROVE  \E f \in Frames : holders[f] > 0 /\ Return({f}, 1)
  <1>1. ASSUME NEW f \in Frames, free_memory_block(f)
        PROVE  holders[f] > 0 /\ Return({f}, 1)
    BY <1>1 DEF free_memory_block
  <1>2. ASSUME NEW f \in Frames, NEW n \in RunSizes, free_memory_blocks(f, n)
        PROVE  holders[f] > 0 /\ Return({f}, 1)
    <2>1. n = 1
      BY <1>2 DEF SingleBlocks, free_memory_blocks
    <2> QED
      BY <1>2, <2>1, SingleRun DEF free_memory_blocks
  <1> QED
    BY <1>1, <1>2

LEMMA SingleSteps ==
  ASSUME SingleBlocks, IInv, Next
  PROVE  \/ init_memory_region
         \/ SkipRegion \/ BreakOffMap
         \/ \E f \in Frames : f \in Searched /\ f \notin used /\ Take({f}, 1)
         \/ \E f \in Frames : holders[f] > 0 /\ Return({f}, 1)
  BY SingleAllocation, SingleReturn DEF Next

\* The bit of every held frame stays set, and no second holder appears.
LEMMA StepHeldMarked ==
  ASSUME SingleBlocks, IInv, HeldMarked, [Next]_vars
  PROVE  HeldMarked'
  <1>1. CASE init_memory_region
    BY <1>1 DEF init_memory_region, IInv, NothingHeldAtBoot, HeldMarked
  <1>2. CASE SkipRegion \/ BreakOffMap
    BY <1>2 DEF SkipRegion, BreakOffMap, HeldMarked, Searched
  <1>3. ASSUME NEW f \in Frames, f \in Searched, f \notin used, Take({f}, 1)
        PROVE  HeldMarked'
    <2>1. holders[f] = 0
      BY <1>3 DEF HeldMarked, IInv, TypeOK
    <2> QED
      BY <1>3, <2>1 DEF Take, HeldMarked, Searched
  <1>4. ASSUME NEW f \in Frames, holders[f] > 0, Return({f}, 1)
        PROVE  HeldMarked'
    <2>1. holders[f] = 1
      BY <1>4 DEF HeldMarked
    <2> QED
      BY <1>4, <2>1 DEF Return, HeldMarked, Searched
  <1>5. CASE UNCHANGED vars
    BY <1>5 DEF vars, HeldMarked, Searched
  <1> QED
    BY <1>1, <1>2, <1>3, <1>4, <1>5, SingleSteps

LEMMA InitHeldMarked == Init => HeldMarked
  BY DEF Init, HeldMarked

\* The marks of held frames, in every state.
LEMMA AlwaysHeldMarked ==
  ASSUME SingleBlocks
  PROVE  Spec => [](IInv /\ HeldMarked)
  <1>1. Init => IInv /\ HeldMarked
    BY InitIInv, InitHeldMarked
  <1>2. IInv /\ HeldMarked /\ [Next]_vars => (IInv /\ HeldMarked)'
    BY NextIInv, StepHeldMarked
  <1> QED
    BY <1>1, <1>2, PTL DEF Spec

\* alloc_memory_block never gives a frame to a caller while another one holds it.
THEOREM NeverTwice ==
  ASSUME SingleBlocks
  PROVE  Spec => []NoDoubleAllocation
  <1>1. IInv /\ HeldMarked => NoDoubleAllocation
    BY DEF IInv, TypeOK, HeldMarked, NoDoubleAllocation
  <1> QED
    BY <1>1, AlwaysHeldMarked, PTL

-----------------------------------------------------------------------------
\* What a step is to the abstract allocator.
LEMMA StepRefines ==
  ASSUME SingleBlocks, IInv, HeldMarked, [Next]_vars
  PROVE  [FA!Next]_(FA!vars)
  <1> USE DEF FA!vars, FA!Next
  <1>1. CASE init_memory_region
    <2>1. Held = {} /\ Held' = {}
      BY <1>1 DEF init_memory_region, IInv, NothingHeldAtBoot, Held
    <2>2. FreeFrames \subseteq FreeFrames' /\ FreeFrames' \subseteq Frames \ {0}
      BY <1>1 DEF init_memory_region, IInv, ZeroMarked, FreeFrames, Searched
    <2> QED
      BY <2>1, <2>2 DEF FA!Release
  <1>2. CASE SkipRegion \/ BreakOffMap
    BY <1>2 DEF SkipRegion, BreakOffMap, FreeFrames, Held
  <1>3. ASSUME NEW f \in Frames, f \in Searched, f \notin used, Take({f}, 1)
        PROVE  FA!Acquire
    <2>1. FreeFrames' = FreeFrames \ {f} /\ f \in FreeFrames
      BY <1>3 DEF Take, FreeFrames, Searched
    <2>2. Held' = Held \cup {f}
      BY <1>3 DEF Take, Held, IInv, TypeOK
    <2> QED
      BY <2>1, <2>2 DEF FA!Acquire
  <1>4. ASSUME NEW f \in Frames, holders[f] > 0, Return({f}, 1)
        PROVE  FA!GiveBack
    <2>1. holders[f] = 1 /\ f \in Searched
      BY <1>4 DEF HeldMarked
    <2>2. FreeFrames' = FreeFrames \cup {f}
      BY <1>4, <2>1 DEF Return, FreeFrames, Searched
    <2>3. Held' = Held \ {f} /\ f \in Held
      BY <1>4, <2>1 DEF Return, Held, IInv, TypeOK
    <2> QED
      BY <2>2, <2>3 DEF FA!GiveBack
  <1>5. CASE UNCHANGED vars
    BY <1>5 DEF vars, FreeFrames, Held
  <1> QED
    BY <1>1, <1>2, <1>3, <1>4, <1>5, SingleSteps

\* The bitmap implements the abstract frame allocator for such callers.
THEOREM Implements ==
  ASSUME SingleBlocks
  PROVE  Spec => AllocatesFrames
  <1>1. Init => FA!Init
    <2> SUFFICES ASSUME Init PROVE FA!Init
      OBVIOUS
    <2>1. ZeroMarked
      BY InitIInv DEF IInv
    <2>2. FreeFrames \in SUBSET (Frames \ {0})
      BY <2>1 DEF ZeroMarked, FreeFrames, Searched
    <2>3. Held = {}
      BY DEF Init, Held
    <2> QED
      BY <2>2, <2>3 DEF FA!Init
  <1>2. IInv /\ HeldMarked /\ [Next]_vars => [FA!Next]_(FA!vars)
    BY StepRefines
  <1> QED
    BY <1>1, <1>2, AlwaysHeldMarked, PTL DEF Spec, AllocatesFrames, FA!Spec
-----------------------------------------------------------------------------
(* The count.  It is modulo U32, but what is held never exceeds what the   *)
(* regions took off it, so the difference of the two is never negative.    *)

LEMMA Remainder ==
  ASSUME NEW m \in Nat \ {0}, NEW x \in Int
  PROVE  x \div m \in Int /\ x % m \in 0 .. m - 1 /\ x = m * (x \div m) + (x % m)
  OBVIOUS

\* A remainder is determined by its quotient.
LEMMA ModUnique ==
  ASSUME NEW m \in Nat \ {0}, NEW x \in Int, NEW q \in Int, NEW r \in 0 .. m - 1,
         x = m * q + r
  PROVE  x % m = r
  <1> DEFINE p == x \div m
             s == x % m
             mp == m * p
             mq == m * q
  <1>1. p \in Int /\ s \in 0 .. m - 1 /\ x = mp + s
    OBVIOUS
  <1>2. mp \in Int /\ mq \in Int /\ mq + r = mp + s
    BY <1>1
  <1>3. (p < q => mp + m <= mq) /\ (q < p => mq + m <= mp) /\ (p = q => mp = mq)
    BY <1>1
  <1> HIDE DEF p, s, mp, mq
  <1>4. s = r
    BY <1>1, <1>2, <1>3
  <1> QED
    BY <1>4 DEF s

\* A count u that is d more, modulo m, leaves d fewer blocks.
LEMMA BlocksStep ==
  ASSUME NEW u \in Int, NEW c \in Int, NEW d \in Int, (BlockCount - u) % U32 = c % U32
  PROVE  (BlockCount - ((u + d) % U32)) % U32 = (c - d) % U32
  <1>1. PICK m \in Nat \ {0}, n \in Int : m = U32 /\ n = BlockCount
    BY BlockCountNat, WidthsAssumption
  <1>2. (n - u) % m = c % m
    BY <1>1
  <1> DEFINE w == (u + d) % m
             r == (c - d) % m
             e == c % m
             p == (u + d) \div m
             q == (n - u) \div m
             k == c \div m
             t == (c - d) \div m
             mp == m * p
             mq == m * q
             mk == m * k
             mt == m * t
  <1>3. p \in Int /\ q \in Int /\ k \in Int /\ t \in Int
    BY Remainder
  <1>4. w \in Int /\ r \in 0 .. m - 1 /\ e \in Int
        /\ mp \in Int /\ mq \in Int /\ mk \in Int /\ mt \in Int
    <2>1. w \in Int /\ r \in 0 .. m - 1 /\ e \in Int
      BY Remainder
    <2>2. \A x \in Int : m * x \in Int
      OBVIOUS
    <2> QED
      BY <1>3, <2>1, <2>2
  <1>5. u + d = mp + w /\ n - u = mq + e /\ c = mk + e /\ c - d = mt + r
    BY <1>2, Remainder
  <1> DEFINE mm == m * (p + q - k + t)
  <1> HIDE DEF w, r, e, p, q, k, t
  <1>6. mm = mp + mq - mk + mt
    BY <1>3
  <1> HIDE DEF mp, mq, mk, mt, mm
  <1>7. n - w = mp + mq - mk + mt + r
    BY <1>4, <1>5
  <1>8. n - w = mm + r
    BY <1>6, <1>7
  <1>9. n - w \in Int /\ p + q - k + t \in Int
    BY <1>3, <1>4
  <1>10. (n - w) % m = r
    BY <1>4, <1>8, <1>9, ModUnique DEF mm
  <1> QED
    BY <1>1, <1>10 DEF w, r

\* main's loop has not met the end of the map while it runs; the code's count
\* of free blocks is what the regions were worth less what is held.
CountKept ==
  /\ Booting => \A j \in 1 .. region - 1 : ~EndsMap(j)
  /\ IsFiniteSet(CountedBlocks) /\ IsFiniteSet(Held)
  /\ FreeCount = (Cardinality(CountedBlocks) - Cardinality(Held)) % U32
  /\ NoOvercommit

\* No region, nothing counted.
LEMMA InitCountKept == Init => CountKept
  <1> SUFFICES ASSUME Init PROVE CountKept
    OBVIOUS
  <1>1. Held = {} /\ Released = {} /\ CountedBlocks = {}
    BY DEF Init, Held, Released, CountedBlocks
  <1>2. IsFiniteSet({}) /\ Cardinality({}) = 0
    BY FS_EmptySet
  <1>3. FreeCount = 0 % U32
    <2>1. PICK n \in Int, z \in Int : n = BlockCount /\ z = 0
      BY BlockCountNat
    <2>2. (BlockCount - z) % U32 = n % U32
      BY <2>1
    <2>3. (BlockCount - ((z + n) % U32)) % U32 = (n - n) % U32
      BY <2>2, BlocksStep
    <2>4. z + n = BlockCount /\ n - n = 0
      BY <2>1
    <2> QED
      BY <2>3, <2>4 DEF Init, FreeCount
  <1>4. 0 - 0 = 0
    OBVIOUS
  <1> QED
    BY <1>1, <1>2, <1>3, <1>4 DEF CountKept, NoOvercommit, Init

\* A region adds what init_memory_region takes off the count.
LEMMA RegionCounted ==
  ASSUME IInv, CountKept, init_memory_region
  PROVE  CountKept'
  <1> DEFINE L == SpanLength(MemoryMap[region].sizeLo)
             new == {region} \X (1 .. L)
  <1>1. region \in 1 .. Len(MemoryMap) /\ region \in Nat
    BY InputsAssumption DEF init_memory_region, Booting, IInv, TypeOK
  <1>2. MemoryMap[region] \in [startLo : Nat, sizeLo : Nat, type : RegionTypes]
    BY <1>1, InputsAssumption, ElementOfSeq
  <1>3. L \in Nat
    BY <1>2, DivNat, WidthsAssumption DEF SpanLength
  <1>4. /\ region' = region + 1 /\ holders' = holders
        /\ mem_mngr_used_blocks' = (mem_mngr_used_blocks - L) % U32
        /\ Booting /\ ~EndsMap(region) /\ IsAvailable(region)
    BY DEF init_memory_region
  <1>5. \A j \in 1 .. region : ~EndsMap(j)
    BY <1>1, <1>4 DEF CountKept
  <1>6. Released' = Released \cup {region} /\ region \notin Released
    BY <1>1, <1>4, <1>5 DEF Released
  <1>7. CountedBlocks' = CountedBlocks \cup new /\ CountedBlocks \cap new = {}
    BY <1>6 DEF CountedBlocks
  <1>8. IsFiniteSet(new) /\ Cardinality(new) = L
    <2>1. IsFiniteSet(1 .. L) /\ Cardinality(1 .. L) = L
      BY <1>3, FS_Interval
    <2>2. IsFiniteSet({region}) /\ Cardinality({region}) = 1
      BY FS_Singleton
    <2>3. IsFiniteSet(new) /\ Cardinality(new) = 1 * L
      BY <2>1, <2>2, FS_Product
    <2> QED
      BY <1>3, <2>3
  <1> HIDE DEF L, new
  <1>9. Held' = Held /\ Held = {}
    BY <1>4 DEF Held, IInv, NothingHeldAtBoot
  <1>10. Cardinality(Held) = 0 /\ IsFiniteSet(CountedBlocks) /\ IsFiniteSet(Held)
    BY <1>9, FS_EmptySet DEF CountKept
  <1>11. /\ IsFiniteSet(CountedBlocks')
         /\ Cardinality(CountedBlocks') = Cardinality(CountedBlocks) + L
         /\ Cardinality(CountedBlocks) \in Nat
    <2>1. Cardinality(CountedBlocks \cap new) = 0
      BY <1>7, FS_EmptySet
    <2>2. Cardinality(CountedBlocks) \in Nat
      BY <1>10, FS_CardinalityType
    <2> QED
      BY <1>3, <1>7, <1>8, <1>10, <2>1, <2>2, FS_Union
  <1>12. FreeCount' = (Cardinality(CountedBlocks') - Cardinality(Held')) % U32
    <2>1. /\ BlockCount \in Int /\ U32 \in Nat \ {0} /\ mem_mngr_used_blocks \in Int
          /\ 0 - L \in Int
      BY <1>3, BlockCountNat, WidthsAssumption DEF IInv, TypeOK
    <2>2. (BlockCount - mem_mngr_used_blocks) % U32 = Cardinality(CountedBlocks) % U32
      <3>1. Cardinality(CountedBlocks) - Cardinality(Held) = Cardinality(CountedBlocks)
        BY <1>10, <1>11
      <3> QED
        BY <3>1 DEF CountKept, FreeCount
    <2>3. PICK d \in Int : d = 0 - L
      BY <2>1
    <2>4. Cardinality(CountedBlocks) \in Int
      BY <1>11
    <2>5. (BlockCount - ((mem_mngr_used_blocks + d) % U32)) % U32
            = (Cardinality(CountedBlocks) - d) % U32
      BY <2>1, <2>2, <2>4, BlocksStep
    <2>6. /\ mem_mngr_used_blocks + d = mem_mngr_used_blocks - L
          /\ Cardinality(CountedBlocks) - d = Cardinality(CountedBlocks') - Cardinality(Held')
      BY <1>3, <1>9, <1>10, <1>11, <2>1, <2>3
    <2> QED
      BY <1>4, <2>5, <2>6 DEF FreeCount
  <1>13. NoOvercommit'
    BY <1>3, <1>9, <1>10, <1>11 DEF NoOvercommit
  <1>14. Booting' => \A j \in 1 .. region' - 1 : ~EndsMap(j)
    BY <1>1, <1>4, <1>5
  <1> QED
    BY <1>9, <1>10, <1>11, <1>12, <1>13, <1>14 DEF CountKept

\* d more frames are held, and the count is d more.
LEMMA HeldCounted ==
  ASSUME IInv, CountKept, Booted, UNCHANGED region, NEW d \in Int,
         mem_mngr_used_blocks' = (mem_mngr_used_blocks + d) % U32,
         IsFiniteSet(Held'), Cardinality(Held') = Cardinality(Held) + d,
         d > 0 => d = 1 /\ FreeCount > 0
  PROVE  CountKept'
  <1>1. CountedBlocks' = CountedBlocks /\ ~Booting'
    BY InputsAssumption DEF CountedBlocks, Released, Booting, Booted, IInv, TypeOK
  <1>2. Cardinality(CountedBlocks) \in Nat /\ Cardinality(Held) \in Nat
    BY FS_CardinalityType DEF CountKept
  <1>3. PICK c : c = Cardinality(CountedBlocks) - Cardinality(Held)
    OBVIOUS
  <1>4. c \in Nat /\ FreeCount = c % U32 /\ U32 \in Nat \ {0}
    BY <1>2, <1>3, WidthsAssumption DEF CountKept, NoOvercommit
  <1>5. FreeCount' = (c - d) % U32
    <2>1. BlockCount \in Int /\ mem_mngr_used_blocks \in Int
      BY BlockCountNat DEF IInv, TypeOK
    <2>2. (BlockCount - mem_mngr_used_blocks) % U32 = c % U32
      BY <1>4 DEF FreeCount
    <2>3. c \in Int
      BY <1>4
    <2>4. (BlockCount - ((mem_mngr_used_blocks + d) % U32)) % U32 = (c - d) % U32
      BY <2>1, <2>2, <2>3, BlocksStep
    <2>5. FreeCount' = (BlockCount - mem_mngr_used_blocks') % U32
      BY DEF FreeCount
    <2> QED
      BY <2>4, <2>5, Zenon
  <1>6. c - d = Cardinality(CountedBlocks') - Cardinality(Held')
    BY <1>1, <1>2, <1>3
  <1>7. d > 0 => c > 0
    <2>1. 0 % U32 = 0
      BY <1>4
    <2> QED
      BY <1>4, <2>1
  <1>8. NoOvercommit'
    BY <1>1, <1>2, <1>3, <1>4, <1>7 DEF NoOvercommit
  <1> QED
    BY <1>1, <1>5, <1>6, <1>8 DEF CountKept

\* The steps of callers that take and give back single blocks.
LEMMA StepCountKept ==
  ASSUME SingleBlocks, IInv, HeldMarked, CountKept, [Next]_vars
  PROVE  CountKept'
  <1>1. CASE init_memory_region
    BY <1>1, RegionCounted
  <1>2. CASE SkipRegion \/ BreakOffMap \/ UNCHANGED vars
    <2>1. UNCHANGED <<mem_mngr_used_blocks, holders>>
      BY <1>2 DEF SkipRegion, BreakOffMap, vars
    <2>2. Released' = Released
      <3>1. region \in 1 .. Len(MemoryMap) + 1 /\ Len(MemoryMap) \in Nat
        BY InputsAssumption DEF IInv, TypeOK
      <3>2. CASE SkipRegion
        BY <3>1, <3>2 DEF SkipRegion, Released
      <3>3. CASE BreakOffMap
        BY <3>1, <3>3 DEF BreakOffMap, Booting, Released
      <3> QED
        BY <1>2, <3>2, <3>3 DEF vars, Released
    <2>3. Booting' => \A j \in 1 .. region' - 1 : ~EndsMap(j)
      <3>1. region \in 1 .. Len(MemoryMap) + 1 /\ Len(MemoryMap) \in Nat
        BY InputsAssumption DEF IInv, TypeOK
      <3>2. CASE SkipRegion
        BY <3>1, <3>2 DEF SkipRegion, CountKept
      <3>3. CASE BreakOffMap
        BY <3>1, <3>3 DEF BreakOffMap, Booting
      <3> QED
        BY <1>2, <3>2, <3>3 DEF vars, CountKept, Booting
    <2> QED
      BY <2>1, <2>2, <2>3 DEF CountKept, CountedBlocks, Held, FreeCount, NoOvercommit
  <1>3. CASE \/ alloc_memory_block
             \/ \E n \in RunSizes : alloc_memory_blocks(n)
    <2>1. Booted /\ FreeCount > 0 /\ \E f \in Frames : f \notin used /\ Take({f}, 1)
      BY <1>3, SingleAllocation
    <2>2. PICK f \in Frames : f \notin used /\ Take({f}, 1)
      BY <2>1
    <2>3. holders[f] = 0
      BY <2>2 DEF HeldMarked, IInv, TypeOK
    <2>4. Held' = Held \cup {f} /\ f \notin Held
      BY <2>2, <2>3 DEF Take, Held, IInv, TypeOK
    <2>5. IsFiniteSet(Held') /\ Cardinality(Held') = Cardinality(Held) + 1
      BY <2>4, FS_AddElement DEF CountKept
    <2>6. region' = region /\ mem_mngr_used_blocks' = (mem_mngr_used_blocks + 1) % U32
      BY <2>2 DEF Take
    <2> QED
      BY <2>1, <2>5, <2>6, HeldCounted
  <1>4. CASE \/ \E f \in Frames : free_memory_block(f)
             \/ \E f \in Frames, n \in RunSizes : free_memory_blocks(f, n)
    <2>1. PICK f \in Frames : holders[f] > 0 /\ Return({f}, 1)
      BY <1>4, SingleReturn
    <2>2. Booted
      BY <1>4 DEF free_memory_block, free_memory_blocks
    <2>3. holders[f] = 1
      BY <2>1 DEF HeldMarked
    <2>4. Held' = Held \ {f} /\ f \in Held
      BY <2>1, <2>3 DEF Return, Held, IInv, TypeOK
    <2>5. IsFiniteSet(Held') /\ Cardinality(Held') = Cardinality(Held) - 1
      BY <2>4, FS_RemoveElement DEF CountKept
    <2>6. Cardinality(Held') = Cardinality(Held) + (-1)
      BY <2>5, FS_CardinalityType DEF CountKept
    <2>7. region' = region /\ mem_mngr_used_blocks' = (mem_mngr_used_blocks + (-1)) % U32
      BY <2>1 DEF Return, IInv, TypeOK
    <2> QED
      BY <2>2, <2>5, <2>6, <2>7, HeldCounted
  <1> QED
    BY <1>1, <1>2, <1>3, <1>4 DEF Next

\* The guard on get_free_block_count, a difference modulo 2^32 of a count that
\* main's regions lower by one block too many each, still keeps callers from
\* holding more frames than the regions were counted for.
THEOREM NeverOvercommits ==
  ASSUME SingleBlocks
  PROVE  Spec => []NoOvercommit
  <1>1. Init => CountKept
    BY InitCountKept
  <1>2. IInv /\ HeldMarked /\ CountKept /\ [Next]_vars => CountKept'
    BY StepCountKept
  <1>3. CountKept => NoOvercommit
    BY DEF CountKept
  <1> QED
    BY <1>1, <1>2, <1>3, AlwaysHeldMarked, PTL DEF Spec
=============================================================================
