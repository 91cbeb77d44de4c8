# TenOS in TLA+

TLA+ modules, TLC models and machine-checked proofs for TenOS, a 32-bit x86
kernel written in C and assembly (`src/`). Paths below are relative to the
repository; `file.c:12` names a line.

## 1. The system

The BIOS loads `boot/bootsect.asm`, which loads `boot/stage2.asm`; that one
reads the firmware's memory map (`boot/memory.asm`), copies the kernel to 1 MB,
builds a page directory (`boot/paging.asm`) that maps the first 4 MB twice (at 0
and at 0xC0000000) and jumps to `main` (`kernel/kernel.c`). `main` sets up
interrupts, timer, keyboard, console, physical memory, paging, the file system
and a stack, and enters the shell in user mode for good. There is one program,
one processor, no scheduler, and one disk, read by polling.

What runs concurrently is therefore: the main thread, the interrupt handlers
that cut in wherever the interrupt flag (IF) is set, the hardware (drive, VGA,
translation cache), and the power supply. The gate of `INT 0x80` is an interrupt gate
(`cpu/isr.c:70`), so a system call runs with IF clear until `keyboard_read`
executes `sti`; handlers run with IF clear and do not nest.

### Components

| Component | State | Operations | Meets others through |
|---|---|---|---|
| Physical memory manager, `mm/memory.c` | bitmap of frames, 32-bit count of used blocks | `init_mem_mngr`, `init_memory_region`, allocation and free of one or several blocks | called by `main` while it reads the memory map, by paging and (through paging) the file system |
| Virtual memory manager, `mm/paging.c`, `boot/paging.asm` | page directory and tables in memory, CR3, the processor's cache | `vmmngr_initialize`, `vmmngr_map_page`, `vmmngr_alloc_page` | takes frames; reaches its tables through the map it is changing |
| Keyboard, `drivers/keyboard.c` | line being typed, ring of committed bytes, modifier flags | IRQ 1 handler, `commit_line`, `has_complete_line`, `keyboard_read` | handler against reader; echoes on the console |
| Interrupt entry, `cpu/isr.c`, `cpu/interrupt.asm`, `cpu/syscall_handler.asm`, `cpu/timer.c` | IDT, handler table, IF, tick count; the two interrupt controllers' requests and services | `isr_install`, stubs, `irq_handler`, `iret` | decides which steps of the others can interleave |
| Console, `drivers/screen.c`, `lib/print.c` | video memory, VGA index and cursor registers | `print_char`, `get_/set_cursor_offset`, `clear_screen` | shared by the main thread and the keyboard's echo |
| ATA driver, `drivers/ata.c` | none but the registers of the drive | `ata_read_sector`, `ata_write_sector` | the drive works and fails at its own pace |
| FAT12, `fs/fs.c` | disk: two tables, root directory, clusters; memory: cached table, sector buffer, handles | `fat12_init`, `_open`, `_create`, `_write`, `_read`, `_list_root` | sectors through ATA, handles from paging |
| System calls and commands, `cpu/syscall.c` | arrays on the kernel's stack | `syscall_dispatcher`, `process_cmd`, `create`, `cat`, `ls`, ... | keyboard, console, FAT12 |
| Shell and user library, `user/` | the line buffer | `shell_main`, wrappers of `INT 0x80` | system calls |
| Boot sequence, descriptor tables, port and memory helpers | built once | | |

### What is hard about it, and what makes each part correct

* **Physical memory.** The frames in use are known only by bits that several
  pieces of arithmetic set and clear: a `memset` with 0x0f, a loop that clears
  one bit more than a region has, a search by words, a count that wraps. Correct:
  no frame has two holders, frame 0 (whose address means "none") is never handed
  out, a freed frame can be allocated again, the count bounds what is handed out.
* **Paging.** The kernel replaces the tables it runs on, with interrupts
  enabled, and clears new tables through a map that does not yet cover all of
  memory. Correct: every access reaches its frame, kernel code stays mapped after
  each step, the result is the direct map and nothing else, no removed translation
  survives in the cache, no table is handed out as a free frame.
* **Keyboard.** Handler and reader share a ring without a lock; the reader
  sleeps with `hlt` after a check that an interrupt can make stale. Correct: what
  is between the two positions is the unread stream, a read returns a whole
  line (or the part that fits), a reader with a line waiting returns.
* **Interrupts.** Two cascaded controllers that latch requests, hold back what is less
  urgent than an open service, and are told only "end the most urgent one"; a drive that
  is polled and so takes its requests back; an order of initialisation. Correct: no service
  stays open, every byte of the keyboard is read.
* **Scan codes.** Flags follow presses and releases of several keys held at once.
  Correct: a character is what the hands meant.
* **The kernel's memory.** Nothing marks the frames the kernel itself occupies, or those
  behind the one page the file system reads its table into. Correct: they are not handed out.
* **Console.** A print is nine port and memory accesses, the index register is
  shared. Correct: the screen shows the end of everything printed, in order.
* **ATA.** Two state machines in step by polling only. Correct: a read returns
  the sector or reports the failure, a write is stored as a whole, words move
  only on request, calls end unless the drive fails without asking for data.
* **FAT12.** Entries of 12 bits that straddle sectors, a cache, two copies on
  disk, power failing between any two sector writes. Correct: files have
  disjoint chains that end, copies agree, nothing else is lost or changed by an
  operation on one file, every file can be listed and opened.
* **Commands.** Copy loops that stop at a space only, buffers that keep what was in
  them, results that are ignored. Correct: each line runs once and as typed, `cat`
  shows what `create` wrote, a `create` that failed says so.

The list of hazards, each at its line with the properties that would catch it,
is in `PROJECT.json`.

## 2. The modules

| Module | Role |
|---|---|
| `FrameAllocator` | abstract: what a physical memory manager promises |
| `Pmm` | `mm/memory.c` and `main`'s loop over the memory map; implements `FrameAllocator` |
| `PmmProofs` | theorems about `Pmm` |
| `Vmm` | `mm/paging.c` from the tables of `boot/paging.asm` on |
| `Kernel` | from the firmware's memory map through `main` to open files, composed with `Vmm` |
| `KernelProofs` | theorems about `Kernel` and `Vmm` |
| `Interrupts` | controllers, handlers, the interrupt flag, `main`'s set-up of them |
| `Scancode` | scan codes, modifier flags and characters, composed with `Interrupts` |
| `ScancodeProofs` | theorems about `Scancode` and `Interrupts` |
| `LineQueue` | abstract: what a blocking line reader promises |
| `Keyboard` | line editor, ring, reader, interrupts; implements `LineQueue` |
| `KeyboardProofs` | theorems about `Keyboard`, its refinement of `LineQueue` included |
| `Console` | `print_char`, cursor registers, echo |
| `ConsoleProofs` | theorems about `Console` |
| `Ata` | driver and drive |
| `AtaProofs` | theorems about `Ata` |
| `FileStore` | abstract: what a file system promises across power failures |
| `Fat12` | `fs/fs.c` with each sector write a step; implements `FileStore` |
| `Fat12Proofs` | theorems about `Fat12`, its refinement of `FileStore` included |
| `Shell` | shell, system calls and commands, composed with `Fat12` and with a keyboard that keeps the promise of `LineQueue` |
| `ShellProofs` | theorems about `Shell`, and that under its commands `Fat12` still implements `FileStore` |
| `MC...` | values of the constants for TLC |

Each component's constants carry named assumptions in its module. No module
uses a recursive operator: loops over data are recursive functions
(`Fat12!Allocation`, `Fat12!Chain`), what a component did so far is a history variable.

### State and actions against the code

Variables and actions carry the names of the code where there is one. "map" in
`PROJECT.json` gives the lines behind each definition. What is not obvious:

**`Pmm`.** `used` is the set of bits of `mem_mngr` that are 1; `holders` is a
history variable (who was given which frame), for the code marks no owner.
`region` is the index of `main`'s loop. The widths (2^32, 4096, 8, 32, the four
ones of the `memset`, the factor 1024 of `init_mem_mngr`) are constants, so that
TLC can work with small ones and the proofs hold for the real ones. What the
memory behind the initialised part of the bitmap holds is arbitrary (`Residues`).
A request that fails changes nothing and is a stutter. Callers free what they hold.

**`Vmm`.** `mem` holds the entries in each frame, `Walk` is the processor's
translation through `cr3`, `tlb` all the translations it may have cached since CR3 was
written last. `Touch` records in `fault` when the code reaches for a frame through the
direct map (`P2V`) and the current translation leads elsewhere. One round of
each loop is a step because interrupts are enabled. An allocation takes the
lowest free frame; a failed one yields frame 0, which the code (it tests the pointer
only after converting it, `paging.c:87`) takes for a table. What is free and what `total_memory` says come
from different questions to the firmware, and bits behind both are clear, so that a frame may be free
that `total_memory` does not count. It is a page like any other (`vmmngr_map_page` enters it into the direct map),
but a page table in it would lie where the direct map does not reach. `starved` says that a page table found no
usable frame, none at all or none that the boot map or `total_memory` covers (`IsUsable`); from there on the claims are
switched off. Assumed: the boot tables are not among the first three free frames
(the search starts at 0x1000, they lie at 0x9C000), and memory ends at 1 GB, the size of the
kernel's half. `Vmm` has no next-state relation of its own: its caller
is `Kernel`.

**`Kernel`.** `Stored` is what `BiosGetMemoryMap` keeps of the firmware's answers, `FreeAfterBoot`
what `main`'s loop leaves free, in frames (`Pmm` has the arithmetic in bytes). The three
callers of `vmmngr_alloc_page` follow `vmmngr_initialize`: `fat12_init`, whose `LoadFat` reads the table into
the page and the frames behind it, `main` for the user's stack, `fat12_open` for each handle. `main` looks at
no result, so each of them may fail and the next one goes on (`NotMounted`, `NoStack`). `Spare` is
computed from the free frames at boot and the size of memory, never from what was handed out. Assumed: the
boot tables lie in low memory, and before a frame so near the end of the first 4 MB (or behind it) that the
cached table would run over that end come as many free frames as page tables are needed, and one: there are
hundreds.

**`Interrupts`.** Lines carry the numbers of the controllers' inputs; 2 in `inService` is the
first controller's bit for the second. `handling` and `stage` are where the stub and `irq_handler` are,
`mode` where `main` or the user program is. `Due` requests are taken before the program's next instruction.
Reading the drive's status lowers its line: a request not yet taken is withdrawn, stays, or is answered
as 15, whatever the controller makes of it (`PollStatus`). The devices are external.
`sys_exit`, which halts with IF clear, is left out.

**`Scancode`.** A key event is a byte at port 0x60, so that bytes keep the order of events. `down`,
`capsOn`, `meant` describe the user; the flags and `char` are the driver's. Characters are their
codes, as the case conversion calculates with them. `Repeat` is the keyboard's repetition of the last
key pressed, except caps lock. Keys send no prefix. The first key is touched after `isr_install`: one
pressed between the boot loader's `cli` and the command that initialises the controllers loses its
request, and its byte then keeps the line up for good.

**`Keyboard`.** A key is what `scancode_to_ascii` makes of it. The handler runs
in one step, `Interrupt` says when (IF set) and what it does to a processor that
is halted. The reader takes one step per check, wait and byte; `Halt` is `sti; hlt`,
before which the second and later rounds can be interrupted with the check made.
`pending` is a history variable, the bytes of complete lines no read has taken,
`overrun` says that a line was committed that did not fit.

**`Console`.** Every port access of the main thread is a step; the echo of the
handler is one step, as nothing interrupts it. `booting` separates `main`'s
prints (IF set) from those inside system calls (IF clear). `sheet` is the history of
what was printed since the last clear, written down on an endless sheet of which the screen should show the
end; `printed` counts the characters, up to the bound `MaxOut`.

**`Ata`.** `pc` and `i` follow the driver, the `Drive` actions the device. `Poll`
is a fruitless turn of a polling loop. The drive is external and assumed to read
DRQ as clear while BSY is set, to ignore commands while BSY is set, to clear DRQ and
ERR when it accepts one, and to store a sector as a whole. When it fails it may raise DRQ along with the error
or not (`Fail`).

**`Fat12`.** A table entry is three digits, two to a byte; `WithSector` is
what a sector write does to the entries that lie in it in whole or in part. `op`
holds the local variables of the call in progress. `Restart` may come between any two
sector writes and keeps the disk only. `file` is the handle a caller works with; pages are
counted because no handle is ever freed. The conversion to 8.3 names is the parameter
`Dos`. Assumed: a sector write is atomic and durable when the call returns (`Ata`'s
`StoresWholeSectors` and `WriteOutcome`), the cache is as large as the table, the
directory holds plain files.

**`Shell`.** A cell of a buffer holds a word, a space, a newline or a terminator; what a
longer line left behind a shorter one is thus cut between two cells, while on the machine it may be cut inside a
word. Where the size of an array decides (`name[12]`), the cells' bytes are counted (`Width`, `NameFits`).
`sh` is where the shell, or the command it waits for, is; every step inside a
command is a step of `Fat12`. Lines arrive while IF is set and as long as fewer than
`BufferSize` bytes wait. `Reboot` is `Restart` with a new shell, whose line
buffer holds anything of `Fresh`. A copy loop that leaves its array leads to `lost`,
where the model ends.

## 3. The runs

Run `tlc -config X.cfg M` in this directory. All bounds are in the `.cfg` files
and the `MC` modules.

| Run | Model | Shows |
|---|---|---|
| `pmm` | `MCPmm.cfg` | from a map with overlapping, reserved, cut-off and mistyped regions, and every order of allocations and frees of single blocks: types, no frame twice, never frame 0, no more frames handed out than released, implements `FrameAllocator` |
| `vmm` | `MCKernel.cfg` | boot with each of five memory sizes and ten sets of free frames (four firmware maps and six that are too small), then files opened until memory is used up: until a page table finds no usable frame no access misses, the kernel stays mapped, the end is the direct map with nothing stale in the cache, tables are owned; the kernel's frames and the hole stay out of use while low memory lasts |
| `kernel_cache` | `MCKernel_cache.cfg` | finding, see below |
| `keys` | `MCScancode.cfg` | keys in any order, ticks, disk interrupts: every byte is read (liveness), no service stays open, characters are as meant |
| `keyboard` | `MCKeyboard.cfg` | keys and ticks at every point with IF set: the ring holds the stream, whole lines are delivered in order, a read with a line waiting returns (liveness), implements `LineQueue` |
| `keyboard_full` | `MCKeyboard_full.cfg` | finding |
| `console` | `MCConsole.cfg` | after boot, prints against echo: the screen shows the end of the output; the gate of the system call keeps the echo out of `get_cursor_offset` |
| `ata` | `MCAta.cfg` | drive of any pace that may fail anywhere: outcomes of reads and writes, atomic stores, words only on request, every call ends or waits for ever for a DRQ that a failed drive does not raise (liveness) |
| `fat12` | `MCFat12.cfg` | create, open, write, read on an empty and a used disk, power failing between any two sector writes: disjoint chains that end, tables agree, every file listed and found, sectors read in order, a name entered twice only for want of a page, implements `FileStore` |
| `fat12_chain` | `MCFat12_chain.cfg` | finding |
| `shell` | `MCShell.cfg` | nine lines, typed ahead or not, on a small disk, power failing anywhere: each line is handed over as typed and, if complete, executed as typed, `cat` shows the last `create`, a `create` stores or tells |
| `shell_cat` | `MCShell_cat.cfg` | finding |

### Bounds, and why they are enough

* `pmm`: 32 addressable frames, a bitmap of 16 bits of which memory fills 8, words of 8
  bits and "bytes" of 4 of which `memset` sets 2. Every boundary of the arithmetic lies
  inside: regions end within a word, the bitmap ends before the address space does,
  the factor `KiB` makes the bitmap larger than memory. The count of used blocks does not wrap here; that
  the claims hold when it does is left to the theorems. All
  orders of allocations and frees of up to the free frames are explored.
  `RunSizes` is {0, 1}: no caller asks for more.
* `vmm`: tables of 16 entries with the kernel's half at 14, so that the 1 GB window is two
  tables and the boot map one of them. Sizes lie below, at and above the boot map and
  the window, and each of them meets each set of free frames: pages behind `total_memory` are handed out, with and
  without a table for them. Free sets run dry at each allocation. Low memory has 10 frames, the kernel and the
  hole below it lie in the boot map, the bits `memset` clears are the odd frames. The bound `Spare` is
  exact here: with one file more a frame of the hole is handed out.
* `keys`: both shift keys, caps lock, a letter and a digit, three of them down at a time, so
  that both shifts are held around a letter. One key at a time is at the port; the drive has one command.
* `keyboard`: a ring of 4 bytes. Lines of 0 to 3 characters fill it exactly,
  overflow it and wrap around; reads of 2 bytes are shorter than a line, those of 3
  are `BUFFER_SIZE - 1`. No other bound: the run is exhaustive.
* `console`: 3 lines of 2 cells, register values below 3: positions need both
  registers, 6 characters fill the screen, scroll it and are erased across a line's end.
  `MaxLine` is 3, at most a screen less one line, as 255 is in 25 lines of 80.
* `ata`: 2 sectors of 2 one-bit words: the loops have a first, a last and no other word, which
  the theorems make up for.
* `fat12`: clusters 2 to 4, 3-bit entries of three one-bit digits, the one of cluster 2 in two
  sectors, where half of an end mark reads as a link. Files of half a sector and of
  one and a half, three slots, two pages between restarts; three names, two of them one 8.3 name.
* `shell`: two clusters, two slots, three pages, a ring of 7 cells (the longest command, its newline
  and one more), a line buffer of 8, 9 lines: `create` of a file with a text, of one with a space for a text, and alone (which then
  takes name and text from an earlier line, or leaves its array); `cat` with and without a space
  at the end and without a name; blank, `exit` with a blank before and behind it. The files are one
  with a name of four bytes and the one with the empty name. A new stack is full of terminators or full of spaces: in
  the first case a `cat` without a space leaves its array, in the second it finds the space that stays behind every
  line and shows the file.
* `shell_cat`: the same with the four examples of the README, typed into a buffer that was zero.

### Fairness and deadlock

`Keyboard`, `Ata` and `Interrupts` claim liveness.

* `Keyboard`: `WF(ReaderStep)`, the one thread is executed whenever the processor is
  not halted; `WF(Tick)`, `main` programs the timer to 50 Hz (`kernel.c:15`) before anything reads.
  Nobody has to type or to call `read`. Without the tick the property is false (its mutant
  is `NeverTicks`): a key can come between the check and the `hlt`, and only the next interrupt
  ends the sleep.
* `Ata`: `WF(Driver)`, a polling loop has the processor; `WF(Drive)`, a drive answers every
  accepted command with success or an error.

* `Interrupts`: `WF(BootStep)`, `WF(InterruptStep)`, `WF(Return \/ Halt)`: the processor executes, and a system
  call ends or halts for a line. The timer is assumed slower than the handlers (`rested`): it ticks again when
  the program has been back with no request open, 20 ms being ample. Without that the timer, which
  is more urgent, could keep the keyboard waiting for ever.

Deadlock is checked everywhere but in `shell`, whose model ends where a copy loop leaves its
array or the shell has exited and halted.

### Findings

* `keyboard_full`: `commit_line` never looks at `read_pos`; a line (or type-ahead)
  that brings the ring to exactly 256 bytes makes it look empty, more of it overwrites what
  is unread. A single line of 255 characters, which the editor accepts, is enough.
* `fat12_chain`: a cluster that is not the last of its file is given the value 0
  (`fs.c:277`), which is the mark of a free one, so the next search finds it again:
  no file ever gets a second cluster.
* `kernel_cache`: `fat12_init` reads 34 pages (by its comment, one and a half) into one page
  (`fs.c:31-40`); the next frame becomes the user's stack, the following ones become file handles.
* `shell_cat`: `cat test.txt`, as the README gives it, has no space behind the name, where
  the copy loop of `cmd_cat` (`syscall.c:76`) would stop; it does not look at the terminator. If the line buffer was
  zero before, the loop leaves `name[12]` and then the line; if its old contents have a space near enough it stops in time.

Observed without a run of its own: `ata_wait_drq` (`ata.c:20-26`) looks at the error bit only after
DRQ, so that a drive that reports an error without DRQ is polled for ever with IF clear: the check
"Check for errors" behind it (`ata.c:132`) is never reached. `CallsEndOrWaitForNothing` says that this
is the only way not to end; that every call ends (its first disjunct alone) is violated in `MCAta.cfg`; a key echoed while `main` prints changes the VGA index register between two
accesses of `get_cursor_offset`, which then returns a position that never was (`TypesAtBoot = TRUE` in
`MCConsole.cfg` violates `GetsCursor`); after both shift keys were held, letting go of one types lower case
although the other is down (without `ambiguous` `CharsAsMeant` is violated); `?` cannot be typed, being the
tables' mark for no character; `mmap_first_free_s` accepts runs that contain a used frame
(`RunSizes = {2}` in `MCPmm.cfg` violates `NoDoubleAllocation`), but has no caller for more than
one block; the flush that follows a write (`ata.c:175`) clears an error of the write before `ata.c:179` looks for one, so
that a failed write can return without a message (`WriteOutcome` is about writes the drive did not fail);
when `total_memory` is smaller than what the memory map releases and the pages below it are used up, a page
behind it whose table is missing gets a new one behind it too, which `vmmngr_map_page` clears through an address
that is not mapped (`MCKernel.cfg`; `starved` excludes it, `NoFault` without that condition is violated); a `clear` executed while
the next line is already begun lets backspace move the cursor to a negative offset (`cut` in `Console`);
a `create` without a space behind the name takes its text from what an
earlier line left in `shell_main`'s buffer (after `create note x`, `create` alone writes x to the file
of the empty name; without `Complete` `RunsWhatWasTyped` is violated); a disk whose directory has a deleted
entry before a file gets a second entry of the file's name when `create` runs without a page left, and after a
restart `cat` shows the new entry's cluster, which the failed write never filled; a file of size 0 that another
system left is written by `create`, but its size stays 0 and `cat` shows nothing (both violate
`CatShowsLastCreate` on disks that `OrdinaryDisks` excludes).

## 4. What is proved

TLAPS checks these for every value of the constants that the modules' assumptions allow.

**`PmmProofs`**, from `WidthsAssumption` and `InputsAssumption`:

| Theorem | States |
|---|---|
| `TypeCorrect` | `Spec => []TypeOK` |
| `FrameZeroSafe` | `Spec => []FrameZeroNeverHeld`, for requests of any size |
| `NeverTwice` | `Spec => []NoDoubleAllocation`, if only single blocks are requested |
| `NeverOvercommits` | `Spec => []NoOvercommit`, likewise |
| `Implements` | `Spec => AllocatesFrames` (the abstract allocator), likewise |

The search looks at clear bits only; what has to be shown is that a held frame's bit
is set. The invariant adds that nothing is held while `main`'s loop still clears bits
(`NothingHeldAtBoot`), that the bit of frame 0 is set wherever the search looks
(`ZeroMarked`; it starts with `memset` and survives because each region sets it again), and
for single blocks that a held frame has one holder and its bit set (`HeldMarked`). The
condition `SingleBlocks` cannot be dropped: see the observation above. For `NoOvercommit` the count, which wraps at
2^32, has to be unwound (`CountKept`): modulo 2^32 the free count is what the regions took off it less what is held, and as
the second never exceeds the first a free count above 0 means that one more block may be held. That each region
takes off one block more than it has (`SpanLength`) is part of what is counted.

**`AtaProofs`**, from `AtaAssumption`, for a drive that may fail at any point, with DRQ or without:

| Theorem | States |
|---|---|
| `TypeCorrect` | `Spec => []TypeOK` |
| `ReadsRight` | `Spec => []ReadOutcome` |
| `WritesRight` | `Spec => []WriteOutcome` |
| `StoresWhole` | `Spec => StoresWholeSectors` |
| `MovesOnRequest` | `Spec => MovesWordsOnRequest` |

The invariant follows the protocol: `Working` lists the three situations in which BSY is set
and where the driver then is; `AtStart`, `AtWaitDrq`, `AtCheck`, `AtRead`, `AtWrite`, `AtFlush` say
how far both sides are at each point of the driver. The least obvious part is `AtFlush`: the
flush command is sent while the drive may be storing the sector (and ignores it) or is already idle (and
accepts it), yet in both cases BSY is clear only when the sector is stored or the drive has failed.

**`ScancodeProofs`**, from `ScancodeAssumption` (the keys and their bytes), for any set of keys:

| Theorem | States |
|---|---|
| `ScancodeTypesHold` | `ScancodeSpec => []ScancodeTypeOK` |
| `ServicesAreClosed` | `ScancodeSpec => []NothingInService` |
| `CharsComeAsMeant` | `ScancodeSpec => []CharsAsMeant` |
| `NoByteIsStranded` | the safety half of `KeysArrive`: while a byte waits at the port its request is latched or its handler has been entered |

The invariant has two halves. `BusInv` says what is in service at each stage of the stub
(`InServiceOf`: nothing, one line, or a line of the second controller together with 2, the input it is wired to),
which handlers are registered, and where the request of a waiting byte is. `HandsInv` compares the driver's flags
with the user's hands after the byte at the port will have been read (`ShiftAfter`, `CapsAfter`, `CharAfter`),
because the handler lags behind by one byte.

**`KeyboardProofs`**, from `KeyboardAssumption`, for a ring of any size:

| Theorem | States |
|---|---|
| `BuffersSuffice` | `Spec => []TypeOK` |
| `RingKeepsStream` | `Spec => []RingHoldsStream` |
| `ImplementsLineQueue` | `Spec => DeliversLines`, with `pending` and the reader's `got` as the mapping |

`Holds` states the ring's content byte by byte, at positions modulo its size, until a line did not fit
(`overrun`); `Reading` says that a copy once begun has a newline before it, which is why a read returns one line.

**`ConsoleProofs`**, from `ConsoleAssumption`, for a screen of any size and registers of any width:

| Theorem | States |
|---|---|
| `ConsoleTypesHold` | `~TypesAtBoot => (Spec => []TypeOK)` |
| `CursorIsRead` | `~TypesAtBoot => (Spec => []GetsCursor)` |
| `ScreenShowsSheet` | `~TypesAtBoot => (Spec => []ShowsOutput)` |

The condition says that nobody types before the shell runs; without it the properties are false, see the
observations above. `Undisturbed` is what it buys: outside of system calls a print is never cut by an echo.
`Ports` says which half of the cursor the index register selects at each access, and `Shows` and `Ends` relate
screen and sheet; `Ends` keeps the part of the line that backspace can still erase within what the screen shows of the sheet.

**`Fat12Proofs`**, from `FatAssumption` and `DiskAssumption` (the machine is started with a well-formed FAT12
disk), for any number of clusters, slots and pages, sectors and digits of any size:

| Theorem | States |
|---|---|
| `Fat12TypesHold` | `Spec => []TypeOK` |
| `NoClusterIsShared` | `Spec => []NoCrossLink` |
| `EveryChainEnds` | `Spec => []ChainsEnd` |
| `SyncMakesTablesAgree` | `Spec => []TablesAgree` |
| `ListIsComplete` | `Spec => []ListShowsEveryFile` |
| `ReadFollowsLinks` | `Spec => []ReadsInOrder` |
| `DuplicatesNeedFullMemory` | `Spec => DuplicatesOnlyWithoutPages` |
| `ImplementsFileStore` | `Spec => KeepsFiles` (the abstract store) |
| `OneClusterTaken` | `Allocation(n)` takes one cluster for every `n`: the general form of finding `fat12_chain` |

What `Chain` and `Allocation` compute is proved by a lemma of induction over a range (`RangeInduction`, from the
well-foundedness of the natural numbers) and one of recursion over a range (`RangeRecursion`): `ChainIsPath`, `ChainStays`
(a chain does not change with entries of clusters off it), `ChainOfOne`, `OneClusterTaken`. The
invariant's heart is `Tables`. Outside of `sync_fat` the first table, the one a restart loads, equals the cache, and so
does the second once it was written (`synced`). While `sync_fat` runs, the sectors it has written hold the cache's bytes in
both tables (`Written`), and the first table differs from the cache in one entry at most, half-written or not: the one of
the new file's cluster, which is on no file's chain (`NewFile`). A restart in the middle may thus leave
the two tables different (which is why `TablesAgree` needs `synced`), but takes nothing from a file.
`Directory` keeps the files before the first slot that was never used, `Handle` and `Call` say that a handle's
cluster is on the chain of its file.

**`KernelProofs`**, from `VmmAssumption` and `KernelAssumption`, for tables of any size, any position of
the kernel's half, any size of memory and any set of free frames, related to it or not:

| Theorem | States |
|---|---|
| `VmmTypesHold` | `KernelSpec => []TypeOK` |
| `EveryAccessIsMapped` | `KernelSpec => []NoFault` |
| `KernelKeepsRunning` | `KernelSpec => []KernelStaysMapped` |
| `OnlyDirectMap` | `KernelSpec => []DirectMapOnly` |
| `TablesBelongToNoOne` | `KernelSpec => []TablesAreOwned` |
| `KernelIsLeftAlone` | `KernelSpec => []KernelUntouched` |

The argument is a count. `Supply`: what was taken are the lowest of the frames that were free at boot. `Count`:
they are at most one directory, two copied tables, one table for each part of the window begun before `idx`, the cached
table's page, the stack and the open files (`ForTables`, `ForPages`). From the two the assumptions give
that a new table lies in the boot map, so that it can be reached while the direct map still ends at `idx`, and that it
is none of the tables in use. `Shape` is the map itself at each step: the boot loader's, the part of the copy that is done,
the direct map of the first `idx` frames (`Maps`) with the identity map there, emptied or gone (`Lower`).
`Owned` (different tables in taken frames) is needed because an entry is written
through one of several tables; `Cache` keeps the processor's cache to addresses in the direct map or, until the last
flush, in the identity map. After boot `Maps` counts the pages too: one behind `idx` gets its entry in
a table that is there (`PageEntered`). If its table is missing, all frames below `idx` are taken, low memory among them,
and so the new table is not usable (`PageWithoutTable`). All of these hold until a page table finds no usable frame; from
then on `Count` only says that more files are open than low memory has room for, which is why `KernelIsLeftAlone` needs no
exception for that case.

**`ShellProofs`**, from `ShellAssumption` and those of `Fat12`, for any lines, words and files, any number of commands
and restarts, and buffers of any size in which the keyboard's ring fits into the shell's line:

| Theorem | States |
|---|---|
| `ShellTypesHold` | `ShellSpec => []ShellTypeOK` |
| `LinesRunAsTyped` | `ShellSpec => []RunsWhatWasTyped` |
| `CreateIsHonest` | `ShellSpec => []CreateStoresOrTells` |
| `CatShowsFile` | `OrdinaryDisks => (ShellSpec => []CatShowsLastCreate)` |
| `CommandsKeepFiles` | `ShellSpec => KeepsFiles`: the abstract store, now under the shell's calls and with the texts users type |

The invariant has three parts. `Session` is about lines. What waits in the ring is the typed lines, each with its newline
(`Joined`; `Split` names the newlines' places, so that no induction over the lines is needed), hence a read takes the first one
and nothing of the next. Once read the buffer starts with that line (`Starts`), whatever is behind it;
`FirstWord` and the copy loops, which know no length, then find the line's first word, its second and the end of its
text, unless the line is a `create` that ends too early (`Complete`, see the observation above; `cat` needs no condition, as it
takes a name only).
`Storage` is the invariant of `Fat12Proofs` with `Progress`, which places each command between the file system's calls:
the handle is of the file under the command's name (`Opened`), and the loops of `fat12_write` and `fat12_read` make one
round (`Writing`, `Reading`), a buffer of 256 bytes being no more than a sector.
`Kept` says that the entry `fat12_open` finds under a name, the lowest, holds what the last `create` of that name wrote.
`fat12_create` enters a name again when it has no page; `Packed` puts the new entry behind all others, where
it is never found first. `OrdinaryDisks` is what that needs of the disk the machine is started with: no deleted entry before a
file and no file of size 0. TenOS neither deletes files nor creates empty ones; without either condition the property is false.

The general lemmas these modules share (the least element of a set of naturals, quotients and
remainders) come from the library's well-foundedness of `Nat` and from arithmetic.

Model-checked only: liveness (`LineIsDelivered`, `CallsEndOrWaitForNothing`, `KeysArrive`) and with it everything about
fairness, which the prover does not handle. Every invariant, action property and refinement that a passing run checks is a theorem.

## 5. What is not modelled

* The formatting of numbers, what the commands print.
* Extended keys (prefix 0xE0), which the driver takes for the keys of the same code, caps lock held until
  it repeats, and keys pressed before the interrupt controllers are set up.
* The contents of pages: that the cached table and the stack overwrite each other is stated as shared
  frames (`CacheHasItsFrames`), not as damage to `Fat12`'s files; `Fat12` takes the cache as large as the table.
* The question to the firmware how large memory is (its failure is taken for 65 MB), memory above 1 GB.
* Files of other systems with first cluster 0 (`fs.c:310` underflows).
* Read errors as the file system sees them (`ata_read_sector` returns no status).
* Words too long for the arrays of `process_cmd` and `create`.
* Code without a caller: several-sector transfers, `ata_init`, `vmmngr_free_page`, lookups,
  `kprint_at`.
* Exceptions: `isr_handler` prints and halts.
* Constant tables (GDT, TSS, IDT), the real-mode loader, port and memory helpers.

## 6. Plan

Done, in this order: `Pmm` with its abstract allocator and proofs; `Keyboard` with `LineQueue`;
`Fat12` with `FileStore`; `Ata` with proofs; `Vmm`; `Console`; `Shell` as the composition of the
commands with `Fat12`; `Interrupts` and `Scancode`; `Kernel` as the composition of the memory map, `Vmm` and
the callers of `vmmngr_alloc_page`.

Proofs: `Ata`, `Pmm` with its refinement, `Scancode` over `Interrupts`, `Keyboard` and `Fat12` with their refinements,
`Console`, `Kernel` over `Vmm`, `Shell` over `Fat12`.

Next:

1. Number formatting of `lib/print.c` at the limits of 32 bits.
2. `Fat12` over `Ata`: reads that fail without a status, the reuse of the sector buffer.
