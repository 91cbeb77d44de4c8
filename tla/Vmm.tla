-------------------------------- MODULE Vmm --------------------------------
(***************************************************************************)
(* The virtual memory manager: mm/paging.c takes over from the page        *)
(* directory that boot/paging.asm built.  vmmngr_initialize copies it,     *)
(* switches to the copy while running on it, extends the direct map of     *)
(* physical memory in the kernel's half and removes the identity map;      *)
(* afterwards vmmngr_alloc_page hands out frames.                          *)
(*                                                                         *)
(* Page tables lie in physical memory and the code reaches them only       *)
(* through the direct map (P2V), with interrupts enabled: what the         *)
(* processor translates matters after every step.  An entry is the number  *)
(* of a frame or NotPresent; entries that are present are all writable and *)
(* accessible to user mode.  The processor may cache any translation until *)
(* CR3 is written.                                                         *)
(***************************************************************************)
EXTENDS Integers, FiniteSetsExt

CONSTANTS
  Entries,        \* entries of a table and of the directory (1024)
  KernelDir,      \* index of the directory entry for KERNEL base 0xC0000000 (768)
  BootDirectory, BootTable0, BootTable768,  \* where boot/paging.asm builds its tables
  FreeSets,       \* what the physical memory manager may have free
  Totals,         \* values of total_memory, in pages
  NotPresent      \* an entry whose present bit is clear

Index  == 0 .. Entries - 1
Pages  == 0 .. Entries * Entries - 1
Window == (Entries - KernelDir) * Entries   \* 1 GB
Frames == 0 .. Window - 1

\* Mutant of Capped: memory behind the window is not cut off.
Uncapped(t) == t

Capped(t) == IF t > Window THEN Window ELSE t

BootFrames == {BootDirectory, BootTable0, BootTable768}

\* The first frames the allocator hands out are not those the processor is
\* using: boot/paging.asm sits at 0x9C000, the search starts at 0x1000.
ASSUME VmmAssumption ==
  /\ Entries \in Nat /\ KernelDir \in 1 .. Entries - 1
  /\ BootFrames \subseteq 1 .. Entries - 1
  /\ BootTable0 # BootTable768 /\ BootDirectory \notin {BootTable0, BootTable768}
  /\ Totals \subseteq Nat
  /\ \A F \in FreeSets :
        /\ F \subseteq Frames \ {0}
        /\ \A b \in F \cap BootFrames : Cardinality({f \in F : f < b}) >= 3
  /\ NotPresent \notin Frames

VARIABLES
  mem,            \* the entries in each frame
  cr3,            \* the directory the processor uses
  new_pd,         \* vmmngr_initialize's copy, later _cur_directory
  free,           \* frames alloc_memory_block can return
  pc, idx, total, \* where vmmngr_initialize is, its loops, total_memory
  pages,          \* frames vmmngr_alloc_page handed out
  tlb,            \* translations the processor may have cached
  fault,          \* history: an access of the code did not reach its frame
  starved         \* history: no frame within total_memory was left for a page table

vars == <<mem, cr3, new_pd, free, pc, idx, total, pages, tlb, fault, starved>>

-----------------------------------------------------------------------------
(* Addresses and the processor's walk, in units of pages.                  *)

P2V(f) == (KernelDir * Entries + f) % (Entries * Entries)
PAGE_DIRECTORY_INDEX(v) == v \div Entries
PAGE_TABLE_INDEX(v) == v % Entries

Walk(v) ==
  LET table == mem[cr3][PAGE_DIRECTORY_INDEX(v)]
  IN IF table = NotPresent THEN NotPresent ELSE mem[table][PAGE_TABLE_INDEX(v)]

Translations == {t \in Pages \X Frames : Walk(t[1]) = t[2]}

Fill  == tlb' = tlb \cup Translations'
Flush == tlb' = Translations'

\* The code reads or writes these frames through the direct map.
Touch(S) == fault' = (fault \/ (\E f \in S : Walk(P2V(f)) # f))

Empty == [j \in Index |-> NotPresent]

\* Which frames are free and what total_memory says come from different
\* questions to the firmware, and the bitmap is clear behind both.
Init ==
  /\ free \in FreeSets /\ total \in Totals
  /\ mem = [f \in Frames |->
              CASE f = BootDirectory -> [Empty EXCEPT ![0] = BootTable0, ![KernelDir] = BootTable768]
                [] f \in {BootTable0, BootTable768} -> [j \in Index |-> j]
                [] OTHER -> Empty]
  /\ cr3 = BootDirectory /\ new_pd = 0
  /\ pc = "start" /\ idx = 0 /\ pages = {}
  /\ tlb = Translations
  /\ fault = FALSE /\ starved = FALSE

-----------------------------------------------------------------------------
\* Mutant of Lowest: the search starts at the top of memory.
Highest(S) == IF S = {} THEN 0 ELSE Max(S)

\* What alloc_memory_block returns: the lowest free frame, 0 if there is none.
Lowest(S) == IF S = {} THEN 0 ELSE Min(S)

\* Mutant of Without: the frame is not marked as used.
StillFree(S, f) == S

Without(S, f) == S \ {f}

\* A frame, and one that is in the boot map or that total_memory counts.
IsUsable(f) == f # 0 /\ (f < Entries \/ f < total)

\* vmmngr_map_page: enter phys at v, with a new table if v's is missing.  The
\* pointer tested at line 87 was converted before: a failed allocation gives
\* the table frame 0.  (No frame handed out is 0 or lies behind the window, so
\* neither null test of line 78 applies.)
vmmngr_map_page(phys, v, avail) ==
  LET d == PAGE_DIRECTORY_INDEX(v)
      missing == mem[new_pd][d] = NotPresent
      table == IF missing THEN Lowest(avail) ELSE mem[new_pd][d]
      with == IF missing THEN [mem EXCEPT ![table] = Empty, ![new_pd][d] = table] ELSE mem
  IN /\ mem' = [with EXCEPT ![table][PAGE_TABLE_INDEX(v)] = phys]
     /\ free' = IF missing THEN Without(avail, table) ELSE avail
     /\ starved' = (starved \/ (missing /\ ~IsUsable(table)))
     /\ Touch({new_pd, table})

-----------------------------------------------------------------------------
(* vmmngr_initialize                                                       *)

AllocDirectory ==
  /\ pc = "start"
  /\ total' = Capped(total)
  /\ new_pd' = Lowest(free)
  /\ free' = Without(free, new_pd')
  /\ IF new_pd' = 0
     THEN pc' = "failed" /\ UNCHANGED <<mem, fault>>
     ELSE pc' = "copy" /\ mem' = [mem EXCEPT ![new_pd'] = Empty] /\ Touch({new_pd'})
  /\ UNCHANGED <<cr3, idx, pages, starved>>
  /\ Fill

\* Mutant of Copies: only the first directory entry is copied.
CopiesFirst == idx = 0

\* The boot directory has a table for idx.
Copies == mem[cr3][idx] # NotPresent

CopyTable ==
  /\ pc = "copy" /\ idx \in Index
  /\ idx' = idx + 1
  /\ IF Copies
     THEN LET old == mem[cr3][idx]
              table == Lowest(free)
          IN /\ mem' = [mem EXCEPT ![table] = mem[old], ![new_pd][idx] = table]
             /\ free' = Without(free, table)
             /\ starved' = (starved \/ table = 0)
             /\ Touch({cr3, new_pd, old, table})
     ELSE Touch({cr3}) /\ UNCHANGED <<mem, free, starved>>
  /\ UNCHANGED <<cr3, new_pd, pc, total, pages>>
  /\ Fill

Switch ==
  /\ pc = "copy" /\ idx = Entries
  /\ cr3' = new_pd
  /\ pc' = "extend" /\ idx' = Entries     \* phys = 0x400000
  /\ UNCHANGED <<mem, new_pd, free, total, pages, fault, starved>>
  /\ Flush

\* Mutant of IsMapped: a table that is present is taken to be complete.
HasTable(v) == mem[new_pd][PAGE_DIRECTORY_INDEX(v)] # NotPresent

IsMapped(v) ==
  LET table == mem[new_pd][PAGE_DIRECTORY_INDEX(v)]
  IN table # NotPresent /\ mem[table][PAGE_TABLE_INDEX(v)] # NotPresent

\* One round of the loop that extends the direct map.
Extend ==
  /\ pc = "extend" /\ idx < total
  /\ idx' = idx + 1
  /\ IF IsMapped(P2V(idx))
     THEN Touch({new_pd}) /\ UNCHANGED <<mem, free, starved>>
     ELSE vmmngr_map_page(idx, P2V(idx), free)
  /\ UNCHANGED <<cr3, new_pd, pc, total, pages>>
  /\ Fill

\* Removing the identity map: its table's entries, its directory entry, CR3.
ClearIdentityTable ==
  /\ pc = "extend" /\ idx >= total
  /\ pc' = "clear"
  /\ mem' = [mem EXCEPT ![mem[new_pd][0]] = Empty]
  /\ Touch({new_pd, mem[new_pd][0]})
  /\ UNCHANGED <<cr3, new_pd, free, idx, total, pages, starved>>
  /\ Fill

ClearIdentityEntry ==
  /\ pc = "clear" /\ pc' = "reload"
  /\ mem' = [mem EXCEPT ![new_pd][0] = NotPresent]
  /\ Touch({new_pd})
  /\ UNCHANGED <<cr3, new_pd, free, idx, total, pages, starved>>
  /\ Fill

\* Mutant of Reload: the processor's cache is not flushed.
ReloadsNothing ==
  /\ pc = "reload" /\ pc' = "done"
  /\ UNCHANGED <<mem, cr3, new_pd, free, idx, total, pages, fault, starved>>
  /\ Fill

Reload ==
  /\ pc = "reload" /\ pc' = "done"
  /\ UNCHANGED <<mem, cr3, new_pd, free, idx, total, pages, fault, starved>>
  /\ Flush

-----------------------------------------------------------------------------
\* vmmngr_alloc_page: a frame and its entry in the direct map; without a frame
\* it returns null and changes nothing.  Its callers are in module Kernel.
vmmngr_alloc_page ==
  /\ pc = "done" /\ free # {}
  /\ LET f == Lowest(free)
     IN /\ pages' = pages \cup {f}
        /\ vmmngr_map_page(f, P2V(f), Without(free, f))
  /\ UNCHANGED <<cr3, new_pd, pc, idx, total>>
  /\ Fill

vmmngr_initialize ==
  \/ AllocDirectory \/ CopyTable \/ Switch \/ Extend
  \/ ClearIdentityTable \/ ClearIdentityEntry \/ Reload

-----------------------------------------------------------------------------
\* Entries name frames, the loops stay inside the window of the direct map.
TypeOK ==
  /\ mem \in [Frames -> [Index -> Frames \cup {NotPresent}]]
  /\ cr3 \in Frames /\ new_pd \in Frames
  /\ free \subseteq Frames \ {0}
  /\ pc \in {"start", "failed", "copy", "extend", "clear", "reload", "done"}
  /\ idx \in 0 .. Window
  /\ pages \subseteq Frames
  /\ tlb \subseteq Pages \X Frames
  /\ fault \in BOOLEAN /\ starved \in BOOLEAN

\* Every page table and directory paging.c touches is reachable through the
\* direct map as the processor sees it at that moment, before, during and after
\* the switch, unless the memory that total_memory counts ran out.
NoFault == ~starved => ~fault

\* The first 4 MB of the kernel's half, with the kernel's code, its stack and
\* the interrupt handlers, stay mapped at every step: interrupts are enabled.
KernelStaysMapped ==
  ~starved => \A f \in Index : \A w \in Frames :
    /\ Walk(P2V(f)) = f
    /\ <<P2V(f), w>> \in tlb => w = f

\* When vmmngr_initialize returns the kernel's half maps physical memory up to
\* total_memory and every frame handed out since, and nothing else is mapped,
\* neither the identity map nor any null pointer, and the processor's cache
\* holds no translation that was removed.
DirectMapOnly ==
  pc = "done" /\ ~starved =>
    /\ Translations = {<<P2V(f), f>> : f \in {g \in Frames : g < total \/ g < Entries \/ g \in pages}}
    /\ tlb \subseteq Translations

\* The tables in use are distinct frames that nobody else can get.
TablesInUse == {mem[cr3][d] : d \in Index} \ {NotPresent}

TablesAreOwned ==
  cr3 = new_pd /\ ~starved =>
    /\ \A c, d \in Index : c # d /\ mem[cr3][c] = mem[cr3][d] => mem[cr3][c] = NotPresent
    /\ cr3 \notin TablesInUse
    /\ (TablesInUse \cup {cr3}) \cap (free \cup pages) = {}
=============================================================================
