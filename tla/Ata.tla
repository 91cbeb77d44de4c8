-------------------------------- MODULE Ata --------------------------------
(***************************************************************************)
(* drivers/ata.c: reading and writing one sector by programmed I/O, with   *)
(* the drive on the other side of the registers.  The driver polls the     *)
(* status register; the drive works at its own pace between any two of the *)
(* driver's port accesses and may fail.                                    *)
(*                                                                         *)
(* The drive is external.  It is taken to behave as follows: DRQ reads as  *)
(* clear while BSY is set; a command written while BSY is set is ignored;  *)
(* one it accepts clears DRQ and ERR and sets BSY; a sector is stored as a *)
(* whole, after its last word has arrived.  ERR stands for ERR or DF.      *)
(* Whether an error ahead of the data phase raises DRQ differs from drive  *)
(* to drive, and from error to error: it may or may not.                   *)
(***************************************************************************)
EXTENDS Integers

CONSTANTS
  Lbas,           \* sector numbers
  Words,          \* words of a sector (256)
  Values,         \* what a word may hold
  Garbage         \* a word read although the drive offers none

ASSUME AtaAssumption ==
  /\ Words \in Nat \ {0}
  /\ Garbage \notin Values

Index   == 1 .. Words
Sectors == [Index -> Values]

VARIABLES
  pc, op,             \* the call in progress
  buffer, i,          \* the caller's buffer, the loop's index
  bsy, drq, err,      \* the status register
  cmd, addr,          \* the drive: accepted command, address registers
  cache, left,        \* its sector buffer, the words still to be moved
  disk,               \* what it stores
  before,             \* history: the caller's buffer when the call began
  failed, reported    \* history: the drive failed, the driver printed an error

status == <<bsy, drq, err>>
drive  == <<status, cmd, addr, cache, left, disk, failed>>
host   == <<pc, op, buffer, i, before, reported>>
vars   == <<drive, host>>

Init ==
  /\ pc = "idle" /\ op = [kind |-> "none", lba |-> 0]
  /\ buffer \in Sectors /\ before = buffer /\ i = 0
  /\ bsy = FALSE /\ drq = FALSE /\ err \in BOOLEAN
  /\ cmd = "none" /\ addr = 0 /\ left = 0
  /\ disk \in [Lbas -> Sectors] /\ cache \in Sectors
  /\ failed = FALSE /\ reported = FALSE

-----------------------------------------------------------------------------
(* The driver.                                                             *)

\* A caller; for a write it has filled the buffer.
Call(kind, lba, contents) ==
  /\ pc = "idle" /\ pc' = "select"
  /\ op' = [kind |-> kind, lba |-> lba]
  /\ buffer' = IF kind = "write" THEN contents ELSE buffer
  /\ before' = buffer'
  /\ i' = 0 /\ failed' = FALSE /\ reported' = FALSE
  /\ UNCHANGED <<status, cmd, addr, cache, left, disk>>

\* A write to the command register.
Accept(kind) ==
  IF bsy
  THEN UNCHANGED <<status, cmd>>
  ELSE bsy' = TRUE /\ drq' = FALSE /\ err' = FALSE /\ cmd' = kind

\* ata_wait_bsy, then the address and command registers.
Select ==
  /\ pc = "select" /\ ~bsy
  /\ pc' = "wait_drq"
  /\ addr' = op.lba /\ left' = Words
  /\ Accept(op.kind)
  /\ UNCHANGED <<op, buffer, i, cache, disk, before, failed, reported>>

\* Mutant of WaitDrq: the status is not polled.
NoWaitForDrq ==
  /\ pc = "wait_drq"
  /\ pc' = IF op.kind = "read" THEN "check" ELSE "transfer"
  /\ UNCHANGED <<drive, op, buffer, i, before, reported>>

\* ata_wait_drq.
WaitDrq ==
  /\ pc = "wait_drq" /\ drq
  /\ pc' = IF op.kind = "read" THEN "check" ELSE "transfer"
  /\ UNCHANGED <<drive, op, buffer, i, before, reported>>

\* Mutant of Check: the result of ata_check_error is not looked at.
IgnoresError ==
  /\ pc \in {"check", "check_write"}
  /\ reported' = err
  /\ pc' = IF pc = "check" THEN "transfer" ELSE "idle"
  /\ UNCHANGED <<drive, op, buffer, i, before>>

\* ata_check_error: a read that failed returns without its data.
Check ==
  /\ pc \in {"check", "check_write"}
  /\ reported' = err
  /\ pc' = IF pc = "check" /\ ~err THEN "transfer" ELSE "idle"
  /\ UNCHANGED <<drive, op, buffer, i, before>>

\* The drive counts a word; after the last one it is done or starts to store.
Moved ==
  /\ left' = left - 1
  /\ drq' = (left > 1)
  /\ bsy' = (left = 1 /\ cmd = "write")
  /\ UNCHANGED <<err, cmd, addr, disk, failed>>

\* Mutant of ReadWord: the loop runs once more.
ReadsOneMore ==
  /\ pc = "transfer" /\ op.kind = "read" /\ i <= Words
  /\ i' = i + 1
  /\ buffer' = [j \in Index \cup {i + 1} |->
                  IF j # i + 1 THEN buffer[j] ELSE IF drq THEN cache[Words - left + 1] ELSE Garbage]
  /\ IF drq THEN Moved /\ UNCHANGED cache ELSE UNCHANGED drive
  /\ UNCHANGED <<pc, op, before, reported>>

ReadWord ==
  /\ pc = "transfer" /\ op.kind = "read" /\ i < Words
  /\ i' = i + 1
  /\ buffer' = [buffer EXCEPT ![i + 1] = IF drq THEN cache[Words - left + 1] ELSE Garbage]
  /\ IF drq THEN Moved /\ UNCHANGED cache ELSE UNCHANGED drive
  /\ UNCHANGED <<pc, op, before, reported>>

\* A word written while the drive asks for none is lost.
WriteWord ==
  /\ pc = "transfer" /\ op.kind = "write" /\ i < Words
  /\ i' = i + 1
  /\ IF drq
     THEN Moved /\ cache' = [cache EXCEPT ![Words - left + 1] = buffer[i + 1]]
     ELSE UNCHANGED drive
  /\ UNCHANGED <<pc, op, buffer, before, reported>>

\* Mutant of Flush: the flush is sent as soon as half of the words are.
FlushesEarly ==
  /\ pc = "transfer" /\ 2 * i >= Words
  /\ IF op.kind = "read"
     THEN pc' = "idle" /\ UNCHANGED <<status, cmd>>
     ELSE pc' = "wait_bsy" /\ Accept("flush")
  /\ UNCHANGED <<op, buffer, i, addr, cache, left, disk, before, failed, reported>>

\* The end of the loop.  The flush command follows the last word after 400 ns,
\* without waiting for BSY to clear.
Flush ==
  /\ pc = "transfer" /\ i = Words
  /\ IF op.kind = "read"
     THEN pc' = "idle" /\ UNCHANGED <<status, cmd>>
     ELSE pc' = "wait_bsy" /\ Accept("flush")
  /\ UNCHANGED <<op, buffer, i, addr, cache, left, disk, before, failed, reported>>

\* Mutant of WaitBsy: waits for a data request instead.
WaitsForDrq ==
  /\ pc = "wait_bsy" /\ drq
  /\ pc' = "check_write"
  /\ UNCHANGED <<drive, op, buffer, i, before, reported>>

\* Mutant of WaitBsy: does not wait for the drive to store the sector.
NoWaitForStore ==
  /\ pc = "wait_bsy"
  /\ pc' = "check_write"
  /\ UNCHANGED <<drive, op, buffer, i, before, reported>>

\* ata_wait_bsy after the flush.
WaitBsy ==
  /\ pc = "wait_bsy" /\ ~bsy
  /\ pc' = "check_write"
  /\ UNCHANGED <<drive, op, buffer, i, before, reported>>

\* A turn of a polling loop: nothing limits their number.
Poll ==
  /\ pc \in {"select", "wait_drq", "wait_bsy"}
  /\ UNCHANGED vars

Driver == Select \/ WaitDrq \/ Check \/ ReadWord \/ WriteWord \/ Flush \/ WaitBsy

-----------------------------------------------------------------------------
(* The drive.                                                              *)

Storing == cmd = "write" /\ left = 0

\* The data phase begins.
OfferData ==
  /\ bsy /\ cmd \in {"read", "write"} /\ ~Storing
  /\ bsy' = FALSE /\ drq' = TRUE
  /\ cache' = IF cmd = "read" THEN disk[addr] ELSE cache
  /\ UNCHANGED <<host, err, cmd, addr, left, disk, failed>>

Store ==
  /\ bsy /\ Storing
  /\ disk' = [disk EXCEPT ![addr] = cache]
  /\ bsy' = FALSE
  /\ UNCHANGED <<host, drq, err, cmd, addr, cache, left, failed>>

FlushDone ==
  /\ bsy /\ cmd = "flush"
  /\ bsy' = FALSE
  /\ UNCHANGED <<host, drq, err, cmd, addr, cache, left, disk, failed>>

\* An unreadable sector, an address the drive does not have, a failing medium.
\* A write that failed ahead of its data phase has nothing to store.  What
\* fails ahead of the data phase may ask for the data all the same.
Fail ==
  /\ bsy
  /\ bsy' = FALSE /\ err' = TRUE /\ failed' = TRUE
  /\ drq' \in {FALSE, cmd # "flush" /\ ~Storing}
  /\ cmd' = IF cmd = "write" THEN "none" ELSE cmd
  /\ UNCHANGED <<host, addr, cache, left, disk>>

Drive == OfferData \/ Store \/ FlushDone \/ Fail

Next ==
  \/ \E lba \in Lbas, contents \in Sectors, kind \in {"read", "write"} :
       Call(kind, lba, contents)
  \/ Driver \/ Poll \/ Drive

\* The driver's loops run while it has the processor, and a drive answers
\* every command, with success or an error.
Spec == Init /\ [][Next]_vars /\ WF_vars(Driver) /\ WF_vars(Drive)

-----------------------------------------------------------------------------
\* The loop stays inside the sector, and so does the drive's count.
TypeOK ==
  /\ pc \in {"idle", "select", "wait_drq", "check", "transfer", "wait_bsy", "check_write"}
  /\ op.kind \in {"none", "read", "write"}
  /\ buffer \in [Index -> Values \cup {Garbage}]
  /\ i \in 0 .. Words
  /\ {bsy, drq, err, failed, reported} \subseteq BOOLEAN
  /\ cmd \in {"none", "read", "write", "flush"}
  /\ left \in 0 .. Words
  /\ disk \in [Lbas -> Sectors] /\ cache \in Sectors

\* ata_read_sector fills the caller's buffer with the sector it names, or prints
\* an error and leaves the buffer alone; it prints one exactly when the drive
\* failed.
ReadOutcome ==
  pc = "idle" /\ op.kind = "read" =>
    /\ reported = failed
    /\ buffer = IF failed THEN before ELSE disk[op.lba]

\* ata_write_sector has stored the buffer when it returns, unless the drive
\* failed; it prints no error that was none.
WriteOutcome ==
  pc = "idle" /\ op.kind = "write" /\ ~failed =>
    ~reported /\ disk[op.lba] = buffer

\* The disk changes only during a write, only the sector the call names, and
\* at once from its old contents to the caller's buffer: a sector write is
\* atomic, as the file system takes it to be.
StoresWholeSectors ==
  [][disk' # disk =>
       op.kind = "write" /\ disk' = [disk EXCEPT ![op.lba] = buffer]]_vars

\* Words are moved only when the drive asks for them and belong to the
\* command of the call in progress.
MovesWordsOnRequest ==
  [][i' > i => drq /\ left = Words - i /\ addr = op.lba]_vars

\* The drive has given up the command without asking for its data, and
\* ata_wait_drq (ata.c:25) waits for just that.
WaitsForNothing == pc = "wait_drq" /\ ~bsy /\ ~drq /\ failed

\* A call comes to its end or waits for a data request that a failed drive
\* does not make: no other polling loop, and no loop over the words, goes on
\* for ever.  In the second case it never ends, for the check for errors of
\* ata.c:132 comes behind the wait.
CallsEndOrWaitForNothing ==
  (pc # "idle") ~> (pc = "idle" \/ WaitsForNothing)
=============================================================================
