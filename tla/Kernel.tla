------------------------------- MODULE Kernel -------------------------------
(***************************************************************************)
(* From the firmware's memory map to the running shell: the boot loader    *)
(* stores the map, kernel/kernel.c releases its regions to the physical    *)
(* memory manager, sets up virtual memory (module Vmm), mounts the file    *)
(* system, takes a page for the user's stack and enters user mode, where   *)
(* each file that is opened takes one more page, for good.                 *)
(*                                                                         *)
(* All of them draw on the same free frames.  Nothing but the order of the *)
(* search keeps the frames of the kernel itself and the hole below them    *)
(* (video memory and ROM) from being handed out.                           *)
(***************************************************************************)
EXTENDS Vmm, Sequences

CONSTANTS
  LowEnd,         \* the end of low memory (0xA0)
  KernelFrames,   \* the kernel's image, stack and bitmap (from 0x100)
  FatPages        \* the size of the table the file system caches, in pages

\* As many frames as the page tables need, and one, come before those near the
\* end of the boot map and behind it: the first 4 MB have several hundred.
ASSUME KernelAssumption ==
  /\ LowEnd \in 1 .. Entries /\ KernelFrames \subseteq LowEnd .. Entries - 1
  /\ FatPages \in Nat \ {0}
  /\ BootFrames \subseteq 1 .. LowEnd - 1
  /\ \A F \in FreeSets : \A f \in F :
        f + FatPages > Entries => Cardinality({g \in F : g < f}) >= 3 + Entries - KernelDir

VARIABLES
  stage,          \* where main is behind vmmngr_initialize
  fat_buffer,     \* the frames the cached table was read into
  user_stack,     \* the frame of the user's stack
  handles,        \* the frames of open files
  atBoot          \* history: the free frames main's loop left

kernelVars == <<stage, fat_buffer, user_stack, handles, atBoot>>

-----------------------------------------------------------------------------
(* The memory map, in frames.                                              *)

\* BiosGetMemoryMap: empty entries are skipped; a list that the first call
\* ends already is taken for an error.
Stored(answers) ==
  IF Len(answers) = 1 THEN <<>> ELSE SelectSeq(answers, LAMBDA e : e.size > 0)

\* main's loop: an entry at address 0 behind the first ends it, a type above 4
\* counts as available.
Released(map) ==
  {i \in 1 .. Len(map) :
     /\ \A j \in 2 .. i : map[j].start # 0
     /\ map[i].type = 1 \/ map[i].type > 4}

\* init_memory_region releases one frame more than the size says.  The bitmap
\* is even before that clear at each odd frame, here, for half of each byte.
FreeAfterBoot(answers) ==
  LET map == Stored(answers)
      region(i) == map[i].start .. map[i].start + map[i].size
  IN IF Released(map) = {} THEN {f \in Frames : f % 2 = 1}
     ELSE {f \in Frames \ {0} : f % 2 = 1 \/ \E i \in Released(map) : f \in region(i)}

-----------------------------------------------------------------------------
KernelInit ==
  /\ Init
  /\ stage = "fat12_init"
  /\ fat_buffer = {} /\ user_stack = NotPresent /\ handles = {}
  /\ atBoot = free

Memory == vmmngr_initialize /\ UNCHANGED kernelVars

VmmReturned == pc \in {"done", "failed"}

\* The disk is no FAT12 disk, or there is no page: the result is not looked at.
NotMounted ==
  /\ VmmReturned /\ stage = "fat12_init" /\ stage' = "user_stack"
  /\ UNCHANGED <<vars, fat_buffer, user_stack, handles, atBoot>>

fat12_init ==
  /\ stage = "fat12_init" /\ stage' = "load"
  /\ vmmngr_alloc_page
  /\ LET f == Lowest(free) IN fat_buffer' = f .. f + FatPages - 1
  /\ UNCHANGED <<user_stack, handles, atBoot>>

\* The table is read into the page, and on behind it.
LoadFat ==
  /\ stage = "load" /\ stage' = "user_stack"
  /\ Touch(fat_buffer)
  /\ UNCHANGED <<mem, cr3, new_pd, free, pc, idx, total, pages, starved>>
  /\ UNCHANGED <<fat_buffer, user_stack, handles, atBoot>>
  /\ Fill

UserStack ==
  /\ stage = "user_stack" /\ stage' = "user"
  /\ vmmngr_alloc_page
  /\ user_stack' = Lowest(free)
  /\ UNCHANGED <<fat_buffer, handles, atBoot>>

\* Nor is this result: the stack lies in the page from 0.
NoStack ==
  /\ VmmReturned /\ free = {}
  /\ stage = "user_stack" /\ stage' = "user"
  /\ UNCHANGED <<vars, fat_buffer, user_stack, handles, atBoot>>

\* A system call that finds a file.
fat12_open ==
  /\ stage = "user" /\ fat_buffer # {}
  /\ vmmngr_alloc_page
  /\ handles' = handles \cup {Lowest(free)}
  /\ UNCHANGED <<stage, fat_buffer, user_stack, atBoot>>

\* One that does not, or finds no page: the answer is the same.
NotFound == stage = "user" /\ UNCHANGED <<vars, kernelVars>>

KernelNext ==
  \/ Memory
  \/ fat12_init \/ NotMounted \/ LoadFat \/ UserStack \/ NoStack
  \/ fat12_open \/ NotFound

KernelSpec == KernelInit /\ [][KernelNext]_<<vars, kernelVars>>

-----------------------------------------------------------------------------
\* What boot takes from low memory: the directory, the copies of two tables, a
\* table for each part of the window behind the boot map that total_memory
\* reaches, the cached table and the user's stack.
BootNeeds == 5 + (IF total > Entries THEN (total - 1) \div Entries ELSE 0)

\* How many files can be opened before low memory is used up.
Spare == Cardinality({f \in atBoot : f < LowEnd}) - BootNeeds

\* The kernel's own frames are free like any other (main releases the region
\* they lie in), and so are frames of the hole: none becomes a page or a page
\* table before the low memory that remains after boot is full of open files.
\* And where the cached table runs over its page it misses the page tables.
KernelUntouched ==
  /\ pc # "start" /\ Cardinality(handles) <= Spare =>
       \A f \in pages \cup TablesInUse \cup {cr3} : f < LowEnd
  /\ ~starved => fat_buffer \cap (TablesInUse \cup {cr3}) = {}

\* fs.c:36 "Load entire FAT": the frames it is loaded into are the file
\* system's, and no stack, open file or page table lies in them.
CacheHasItsFrames ==
  fat_buffer \cap (handles \cup {user_stack} \cup TablesInUse \cup {cr3}) = {}
=============================================================================
