------------------------------- MODULE Fat12 -------------------------------
(***************************************************************************)
(* The FAT12 file system of fs/fs.c on a disk that writes one sector at a  *)
(* time and may lose power between two writes.                             *)
(*                                                                         *)
(* Entries of the file allocation table are three digits of base Digit     *)
(* (16 on the real disk), two digits a byte, so an entry can lie in two    *)
(* sectors and be half written.  A directory entry or a data cluster is    *)
(* written by one sector write.  Directory slots, clusters and file sizes  *)
(* are small numbers; what a caller writes into a sector is a member of    *)
(* Contents and the sector's number.                                       *)
(*                                                                         *)
(* The system calls that reach this code run to completion one after the   *)
(* other; the volatile state (the cached table, the file handle) is lost   *)
(* by a restart.  Only the cache's first page is allocated for it          *)
(* (fs.c:31); here the cache is as large as the table.  The entries of the *)
(* directory are files: this code makes no volume label and no directory.  *)
(***************************************************************************)
EXTENDS Integers, Sequences, SequencesExt

CONSTANTS
  Names,          \* the names programs use
  Dos,            \* to_dos_filename: the 8.3 name of each of them
  LastCluster,    \* the last cluster find_free_cluster looks at (4083)
  Digit,          \* half a byte (16)
  SectorBytes,    \* 512
  SectorUnits,    \* file sizes are in units, this many a sector
  RootEntries,    \* slots of the root directory (512)
  EofMin,         \* FAT12_EOF_MIN: the first end-of-chain value (0xFF8)
  Sizes,          \* sizes given to create, read and write, in units
  Contents,       \* what callers write
  Pages,          \* pages vmmngr_alloc_page can hand out after mounting
  Images,         \* the disks the machine may be started with
  End, Deleted,   \* a directory slot whose first byte is 0x00, 0xE5
  NoFile,         \* the null pointer for a FAT12_File
  NoName          \* no call is in progress

Clusters == 2 .. LastCluster
FAT12_FREE == 0
FAT12_EOF  == Digit * Digit * Digit - 1
FatValues  == 0 .. FAT12_EOF
DosNames   == Range(Dos)
Slots      == 1 .. RootEntries

Files      == [name : DosNames, first : Clusters, size : Nat]
\* What a FAT12_File holds.
Handles ==
  [dos : DosNames, first : Clusters, current : FatValues, size : Nat, position : Nat,
   eof : BOOLEAN]

SectorsOf(size) == (size + SectorUnits - 1) \div SectorUnits

\* The numbers the read and write loops turn into a sector.  Only Clusters
\* have an entry: a chain that left them could lead anywhere.
Addresses == 0 .. EofMin - 1
IsLink(v) == v < EofMin

\* A chain and the cluster it leads to, as long as that is one.
Longer(chain, table, first) ==
  LET next == IF chain = <<>> THEN first ELSE table[Last(chain)]
  IN IF next \in Clusters THEN Append(chain, next) ELSE chain

\* The clusters of a file in the order of its links, at most all there are.
Chain(table, first) ==
  LET walk[k \in 0 .. Cardinality(Clusters)] ==
        IF k = 0 THEN <<>> ELSE Longer(walk[k - 1], table, first)
  IN walk[Cardinality(Clusters)]

ASSUME FatAssumption ==
  /\ DOMAIN Dos = Names
  /\ LastCluster \in Nat \ {0, 1}
  /\ EofMin \in LastCluster + 1 .. FAT12_EOF
  /\ {Digit, SectorBytes, SectorUnits} \subseteq Nat \ {0}
  /\ {RootEntries, Pages} \subseteq Nat
  /\ Sizes \subseteq Nat \ {0}
  /\ {End, Deleted} \cap Files = {} /\ NoFile \notin Handles

\* The machine is started with a FAT12 disk: the files lie before the first
\* unused slot, have different names, and chains that end and share nothing.
ASSUME DiskAssumption ==
  \A image \in Images :
    LET live == {s \in Slots : image.root[s] \notin {End, Deleted}}
        ChainOf(s) == Chain(image.fat, image.root[s].first)
    IN /\ image.fat \in [Clusters -> FatValues]
       /\ image.root \in [Slots -> Files \cup {End, Deleted}]
       /\ DOMAIN image.data = Addresses
       /\ \A s \in live :
             /\ \A t \in 1 .. s : image.root[t] # End
             /\ ~IsLink(image.fat[Last(ChainOf(s))])
       /\ \A s, t \in live : s # t =>
             /\ image.root[s].name # image.root[t].name
             /\ Range(ChainOf(s)) \cap Range(ChainOf(t)) = {}

VARIABLES
  fat1, fat2, root, data,    \* the disk: both tables, the root directory, clusters
  fat_buffer,                \* mount_info.fat_buffer, the cached table
  pages,                     \* what is left of the pages: no handle is ever freed
  file,                      \* the FAT12_File the caller works with
  pc, op,                    \* the call in progress and its local variables
  got,                       \* what the fat12_read in progress copied out
  twice,                     \* history: a name was entered although it was there
  synced                     \* history: sync_fat ended, no restart since

disk     == <<fat1, fat2, root, data>>
volatile == <<fat_buffer, pages, file, pc, op, got>>
vars     == <<disk, volatile, twice, synced>>

-----------------------------------------------------------------------------
(* The table.                                                              *)

Offset(c)   == c + c \div 2
LowSector(c)  == Offset(c) \div SectorBytes
HighSector(c) == (Offset(c) + 1) \div SectorBytes
FatSectors  == 0 .. HighSector(LastCluster)

\* Even entries keep two digits in their first byte, odd ones keep one.
LowWeight(c) == IF c % 2 = 0 THEN Digit * Digit ELSE Digit

\* A table after write_sector(i): the bytes of sector i come from the cache.
WithSector(table, i) ==
  [c \in Clusters |->
     LET w == LowWeight(c)
         low  == IF LowSector(c) = i THEN fat_buffer[c] ELSE table[c]
         high == IF HighSector(c) = i THEN fat_buffer[c] ELSE table[c]
     IN (low % w) + w * (high \div w)]

get_next_cluster(c) == IF c \in Clusters THEN fat_buffer[c] ELSE FAT12_FREE

find_free_cluster(table) ==
  LET free == {c \in Clusters : table[c] = FAT12_FREE}
  IN IF free = {} THEN 0 ELSE CHOOSE c \in free : \A d \in free : c <= d

\* Round i of the n rounds of fat12_create's allocation loop.
Round(s, i, n) ==
  LET c == find_free_cluster(s.table)
      linked == IF i = 1 THEN s.table ELSE [s.table EXCEPT ![s.prev] = c]
  IN IF s.failed \/ c = 0
     THEN [table |-> s.table, first |-> s.first, prev |-> s.prev, failed |-> TRUE]
     ELSE [table |-> [linked EXCEPT ![c] = IF i = n THEN FAT12_EOF ELSE 0],
           first |-> IF i = 1 THEN c ELSE s.first,
           prev |-> c,
           failed |-> FALSE]

Allocation(n) ==
  LET loop[i \in 0 .. n] ==
        IF i = 0
        THEN [table |-> fat_buffer, first |-> 0, prev |-> 0, failed |-> FALSE]
        ELSE Round(loop[i - 1], i, n)
  IN loop[n]

-----------------------------------------------------------------------------
(* The root directory.                                                     *)

IsLive(e) == e \notin {End, Deleted}
LowestOf(S) == {s \in S : \A t \in S : s <= t}

\* Mutant of SlotsOf: a deleted entry ends the search.
SlotsBeforeDeleted(dos) ==
  LowestOf({s \in Slots : /\ \A t \in 1 .. s : IsLive(root[t])
                          /\ root[s].name = dos})

\* The slot fat12_open finds: the first of that name before the end mark.
SlotsOf(dos) ==
  LowestOf({s \in Slots : /\ \A t \in 1 .. s : root[t] # End
                          /\ IsLive(root[s]) /\ root[s].name = dos})

\* The slots whose name and size fat12_list_root prints, which it counts.
Listed == {s \in Slots : IsLive(root[s]) /\ \A t \in 1 .. s : root[t] # End}

\* Mutant of FreeSlot: the search runs from the last slot down.
LastFreeSlot ==
  {s \in Slots : ~IsLive(root[s]) /\ \A t \in Slots : t > s => IsLive(root[t])}

\* find_free_dir_entry
FreeSlot == LowestOf({s \in Slots : ~IsLive(root[s])})

-----------------------------------------------------------------------------
Idle == [dos |-> NoName]

Mounted(table) ==
  /\ fat_buffer' = table /\ pages' = Pages
  /\ file' = NoFile /\ pc' = "idle" /\ op' = Idle /\ got' = <<>>

Init ==
  \E image \in Images :
    /\ fat1 = image.fat /\ fat2 = image.fat
    /\ root = image.root /\ data = image.data
    /\ fat_buffer = image.fat /\ pages = Pages
    /\ file = NoFile /\ pc = "idle" /\ op = Idle /\ got = <<>>
    /\ twice = FALSE /\ synced = TRUE

\* Mutant of Restart: the table is not loaded into the cache.
RestartsWithoutTable ==
  /\ Mounted([c \in Clusters |-> FAT12_FREE])
  /\ synced' = FALSE
  /\ UNCHANGED <<disk, twice>>

\* Power fails, between any two sector writes; the machine boots: fat12_init.
Restart ==
  /\ Mounted(fat1)
  /\ synced' = FALSE
  /\ UNCHANGED <<disk, twice>>

\* fat12_open takes a page for the handle; without one it answers "not found".
fat12_open(n) ==
  /\ pc = "idle"
  /\ IF SlotsOf(Dos[n]) = {} \/ pages = 0
     THEN file' = NoFile /\ UNCHANGED pages
     ELSE /\ pages' = pages - 1
          /\ \E s \in SlotsOf(Dos[n]) :
               file' = [dos |-> Dos[n], first |-> root[s].first, current |-> root[s].first,
                        size |-> root[s].size, position |-> 0, eof |-> FALSE]
  /\ UNCHANGED <<disk, fat_buffer, pc, op, got, twice, synced>>

\* fat12_create up to its first write.  The handle of a file that exists is
\* dropped; its page is not given back.
CreateExisting(n) ==
  /\ pc = "idle" /\ SlotsOf(Dos[n]) # {} /\ pages > 0
  /\ pages' = pages - 1
  /\ UNCHANGED <<disk, fat_buffer, file, pc, op, got, twice, synced>>

\* Mutant of CreateNew: sync_fat is not called.
CreatesUnsynced(n, size) ==
  /\ pc = "idle" /\ (SlotsOf(Dos[n]) = {} \/ pages = 0)
  /\ \E s \in FreeSlot :
       LET alloc == Allocation(SectorsOf(size))
       IN /\ fat_buffer' = alloc.table
          /\ ~alloc.failed
          /\ pc' = "entry"
          /\ op' = [dos |-> Dos[n], slot |-> s, i |-> 0,
                    entry |-> [name |-> Dos[n], first |-> alloc.first, size |-> size]]
  /\ UNCHANGED <<disk, pages, file, got, twice, synced>>

CreateNew(n, size) ==
  /\ pc = "idle" /\ (SlotsOf(Dos[n]) = {} \/ pages = 0)
  /\ \E s \in FreeSlot :
       LET alloc == Allocation(SectorsOf(size))
       IN /\ fat_buffer' = alloc.table
          /\ IF alloc.failed
             THEN UNCHANGED <<pc, op>>
             ELSE /\ pc' = "sync1"
                  /\ op' = [dos |-> Dos[n], slot |-> s, i |-> 0,
                            entry |-> [name |-> Dos[n], first |-> alloc.first, size |-> size]]
  /\ UNCHANGED <<disk, pages, file, got, twice, synced>>

\* sync_fat: each sector of the cache to the first table, then to the second.
SyncFat1 ==
  /\ pc = "sync1" /\ pc' = "sync2"
  /\ fat1' = WithSector(fat1, op.i)
  /\ UNCHANGED <<fat2, root, data, fat_buffer, pages, file, op, got, twice, synced>>

\* Mutant of SyncFat2: the second table is written once, not sector by sector.
SyncsLastSectorOnly ==
  /\ pc = "sync2"
  /\ fat2' = IF op.i + 1 \in FatSectors THEN fat2 ELSE WithSector(fat2, op.i)
  /\ IF op.i + 1 \in FatSectors
     THEN pc' = "sync1" /\ op' = [op EXCEPT !.i = @ + 1] /\ UNCHANGED synced
     ELSE pc' = "entry" /\ synced' = TRUE /\ UNCHANGED op
  /\ UNCHANGED <<fat1, root, data, fat_buffer, pages, file, got, twice>>

SyncFat2 ==
  /\ pc = "sync2"
  /\ fat2' = WithSector(fat2, op.i)
  /\ IF op.i + 1 \in FatSectors
     THEN pc' = "sync1" /\ op' = [op EXCEPT !.i = @ + 1] /\ UNCHANGED synced
     ELSE pc' = "entry" /\ synced' = TRUE /\ UNCHANGED op
  /\ UNCHANGED <<fat1, root, data, fat_buffer, pages, file, got, twice>>

\* The directory sector is read again and written back with the new entry.
WriteEntry ==
  /\ pc = "entry" /\ pc' = "idle" /\ op' = Idle
  /\ root' = [root EXCEPT ![op.slot] = op.entry]
  /\ twice' = (twice \/ \E s \in Slots : IsLive(root[s]) /\ root[s].name = op.dos)
  /\ UNCHANGED <<fat1, fat2, data, fat_buffer, pages, file, got, synced>>

\* fat12_write starts at the first cluster, whatever was read before.
fat12_write(what, size) ==
  /\ pc = "idle" /\ file # NoFile
  /\ pc' = "write"
  /\ op' = [dos |-> file.dos, left |-> size, what |-> what, sector |-> 1]
  /\ file' = [file EXCEPT !.current = file.first]
  /\ UNCHANGED <<disk, fat_buffer, pages, got, twice, synced>>

LoopGoesOn == op.left > 0 /\ IsLink(file.current)
Chunk == IF op.left > SectorUnits THEN SectorUnits ELSE op.left

\* Mutant of WriteCluster: a file is taken to lie in consecutive clusters.
WritesConsecutive ==
  /\ pc = "write" /\ LoopGoesOn
  /\ data' = [data EXCEPT ![file.current] = <<op.what, op.sector>>]
  /\ op' = [op EXCEPT !.left = @ - Chunk, !.sector = @ + 1]
  /\ file' = [file EXCEPT !.current = @ + 1]
  /\ UNCHANGED <<fat1, fat2, root, fat_buffer, pages, pc, got, twice, synced>>

WriteCluster ==
  /\ pc = "write" /\ LoopGoesOn
  /\ data' = [data EXCEPT ![file.current] = <<op.what, op.sector>>]
  /\ op' = [op EXCEPT !.left = @ - Chunk, !.sector = @ + 1]
  /\ file' = [file EXCEPT !.current = get_next_cluster(@)]
  /\ UNCHANGED <<fat1, fat2, root, fat_buffer, pages, pc, got, twice, synced>>

\* Mutant of fat12_read: the size is not cut to what is left of the file.
ReadsUnclamped(size) ==
  /\ pc = "idle" /\ file # NoFile /\ ~file.eof
  /\ pc' = "read"
  /\ op' = [dos |-> file.dos, left |-> size]
  /\ UNCHANGED <<disk, fat_buffer, pages, file, got, twice, synced>>

\* fat12_read: at most what is left of the file from its position.
fat12_read(size) ==
  /\ pc = "idle" /\ file # NoFile /\ ~file.eof
  /\ pc' = "read"
  /\ LET remaining == file.size - file.position
     IN op' = [dos |-> file.dos, left |-> IF size > remaining THEN remaining ELSE size]
  /\ UNCHANGED <<disk, fat_buffer, pages, file, got, twice, synced>>

\* Mutant of ReadCluster: the following cluster is read, not the linked one.
ReadsConsecutive ==
  /\ pc = "read" /\ LoopGoesOn
  /\ got' = Append(got, data[file.current])
  /\ op' = [op EXCEPT !.left = @ - Chunk]
  /\ file' = [file EXCEPT !.position = @ + Chunk, !.current = @ + 1]
  /\ UNCHANGED <<disk, fat_buffer, pages, pc, twice, synced>>

\* The next cluster becomes current even when this one was read in part.
ReadCluster ==
  /\ pc = "read" /\ LoopGoesOn
  /\ got' = Append(got, data[file.current])
  /\ op' = [op EXCEPT !.left = @ - Chunk]
  /\ file' = [file EXCEPT !.position = @ + Chunk, !.current = get_next_cluster(@)]
  /\ UNCHANGED <<disk, fat_buffer, pages, pc, twice, synced>>

\* The call returns; the caller has its bytes.
EndLoop ==
  /\ pc \in {"read", "write"} /\ ~LoopGoesOn
  /\ pc' = "idle" /\ op' = Idle
  /\ file' = IF pc = "read" THEN [file EXCEPT !.eof = ~IsLink(file.current)] ELSE file
  /\ got' = <<>>
  /\ UNCHANGED <<disk, fat_buffer, pages, twice, synced>>

Next ==
  \/ Restart
  \/ \E n \in Names : fat12_open(n) \/ CreateExisting(n)
  \/ \E n \in Names, size \in Sizes : CreateNew(n, size)
  \/ SyncFat1 \/ SyncFat2 \/ WriteEntry
  \/ \E what \in Contents, size \in Sizes : fat12_write(what, size)
  \/ \E size \in Sizes : fat12_read(size)
  \/ WriteCluster \/ ReadCluster \/ EndLoop

Spec == Init /\ [][Next]_vars
-----------------------------------------------------------------------------
LiveSlots == {s \in Slots : IsLive(root[s])}

ChainAt(s) == Chain(fat1, root[s].first)

\* Tables hold entries of three digits, counters stay in their ranges, a call
\* in progress has a sector of the table or a directory slot to write next.
TypeOK ==
  /\ {fat1, fat2, fat_buffer} \subseteq [Clusters -> FatValues]
  /\ DOMAIN root = Slots
  /\ \A s \in LiveSlots :
        root[s].name \in DosNames /\ root[s].first \in Clusters /\ root[s].size \in Nat
  /\ DOMAIN data = Addresses
  /\ pages \in 0 .. Pages
  /\ file # NoFile => file.first \in Clusters /\ file.position \in 0 .. file.size
  /\ pc \in {"sync1", "sync2", "entry"} => op.i \in FatSectors /\ op.slot \in Slots
  /\ pc \in {"read", "write"} => op.left \in Nat

\* No two files share a cluster on the disk, not even after a restart between
\* two sector writes left a half-written entry that looks like a link.
NoCrossLink ==
  \A s, t \in LiveSlots :
    s # t => Range(ChainAt(s)) \cap Range(ChainAt(t)) = {}

\* Every file in the directory has a chain of its own that ends: fat12_create
\* enters a file only when its clusters are allocated on the disk.
ChainsEnd ==
  \A s \in LiveSlots :
    ChainAt(s) # <<>> /\ ~IsLink(fat1[Last(ChainAt(s))])

\* The two tables and the cache agree whenever no sync_fat is in progress,
\* unless a restart interrupted one and none was completed since.
TablesAgree ==
  synced /\ pc \notin {"sync1", "sync2"} => fat1 = fat2 /\ fat1 = fat_buffer

\* What ls prints is what there is and what opens: fat12_list_root, like
\* fat12_open, stops at the first slot that was never used, and no file lies
\* behind it; each name listed is found, unless its entry is the second one.
ListShowsEveryFile ==
  /\ Listed = LiveSlots
  /\ \A s \in Listed :
        \E t \in SlotsOf(root[s].name) : s = t \/ (twice /\ t < s)

\* fat12_create enters a name a second time only if fat12_open could not get
\* the page for its handle and so answered that there is no such file.
DuplicatesOnlyWithoutPages == [][~twice /\ twice' => pages = 0]_vars

\* fat12_read hands out consecutive sectors of the file, as the links on the
\* disk order them, up to the cluster that is current.
ReadsInOrder ==
  pc = "read" =>
    LET chain == Chain(fat1, file.first)
    IN \E k \in 0 .. Len(chain) :
         /\ IF k < Len(chain) THEN file.current = chain[k + 1] ELSE ~IsLink(file.current)
         /\ Len(got) <= k
         /\ \A i \in 1 .. Len(got) : got[i] = data[chain[k - Len(got) + i]]

\* fs.c:260 "Allocate clusters for file", fs.c:261 "Round up": a file has as
\* many clusters as its size needs.
ChainsCoverSize ==
  \A s \in LiveSlots : Len(ChainAt(s)) >= SectorsOf(root[s].size)

\* What the disk holds: by name, the sectors of the file that is opened.
SlotOf(dos) == CHOOSE s \in SlotsOf(dos) : TRUE
Sectors(s)  == [i \in DOMAIN ChainAt(s) |-> data[ChainAt(s)[i]]]
Stored      == [dos \in {root[s].name : s \in LiveSlots} |-> Sectors(SlotOf(dos))]

\* On the disk, across restarts, the file system is the store of FileStore.
FS == INSTANCE FileStore WITH files <- Stored, target <- op.dos

KeepsFiles == FS!Spec
=============================================================================
