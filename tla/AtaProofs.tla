----------------------------- MODULE AtaProofs -----------------------------
(***************************************************************************)
(* Ata keeps its promises for every number of words and sectors, and for   *)
(* drives that raise DRQ with an error as well as for those that do not:   *)
(* what ends is right, even where a call may never end.                    *)
(*                                                                         *)
(* The invariant follows the protocol.  BSY is set in three situations     *)
(* only (Working); each wait and each loop has its own picture of how far  *)
(* the two sides have come (At...).                                        *)
(***************************************************************************)
EXTENDS Ata, TLAPS

Types ==
  /\ pc \in {"idle", "select", "wait_drq", "check", "transfer", "wait_bsy", "check_write"}
  /\ op.kind \in {"none", "read", "write"}
  /\ op.kind # "none" => op.lba \in Lbas
  /\ pc # "idle" => op.kind # "none"
  /\ buffer \in [Index -> Values \cup {Garbage}]
  /\ op.kind = "write" => buffer \in Sectors
  /\ i \in 0 .. Words
  /\ bsy \in BOOLEAN /\ drq \in BOOLEAN /\ err \in BOOLEAN
  /\ failed \in BOOLEAN /\ reported \in BOOLEAN
  /\ cmd \in {"none", "read", "write", "flush"}
  /\ left \in 0 .. Words
  /\ disk \in [Lbas -> Sectors] /\ cache \in Sectors

Stored == disk[op.lba] = buffer

\* What the drive does while BSY is set, and where the driver then is.
Working ==
  bsy =>
    /\ ~drq
    /\ \/ pc = "wait_drq" /\ cmd = op.kind
       \/ /\ pc \in {"transfer", "wait_bsy"} /\ op.kind = "write"
          /\ cmd = "write" /\ left = 0 /\ i = Words
          /\ addr = op.lba /\ cache = buffer
       \/ /\ pc = "wait_bsy" /\ op.kind = "write" /\ cmd = "flush"
          /\ failed \/ Stored

AtStart ==
  pc = "select" => i = 0 /\ buffer = before /\ ~failed /\ ~reported

AtWaitDrq ==
  pc = "wait_drq" =>
    /\ addr = op.lba /\ left = Words /\ i = 0
    /\ buffer = before /\ ~reported /\ err = failed
    /\ bsy => ~failed
    /\ IF failed /\ op.kind = "write" THEN cmd = "none" ELSE cmd = op.kind
    /\ ~bsy /\ ~failed /\ op.kind = "read" => cache = disk[op.lba]

AtCheck ==
  pc = "check" =>
    /\ op.kind = "read" /\ cmd = "read" /\ addr = op.lba
    /\ drq /\ left = Words /\ i = 0
    /\ buffer = before /\ err = failed
    /\ ~failed => cache = disk[op.lba]

AtRead ==
  pc = "transfer" /\ op.kind = "read" =>
    /\ cmd = "read" /\ addr = op.lba
    /\ ~err /\ ~failed /\ ~reported
    /\ left = Words - i
    /\ i < Words => drq
    /\ cache = disk[op.lba]
    /\ \A j \in 1 .. i : buffer[j] = cache[j]

AtWrite ==
  pc = "transfer" /\ op.kind = "write" =>
    /\ addr = op.lba /\ left = Words - i
    /\ i < Words => drq /\ cmd = IF failed THEN "none" ELSE "write"
    /\ i < Words => \A j \in 1 .. i : cache[j] = buffer[j]
    /\ i = Words /\ ~failed /\ ~bsy => Stored
    /\ ~failed => ~err
    /\ ~reported

AtFlush ==
  pc \in {"wait_bsy", "check_write"} =>
    /\ op.kind = "write"
    /\ ~failed => ~err /\ (bsy \/ Stored)
    /\ pc = "check_write" => ~bsy

IInv ==
  /\ Types /\ Working /\ AtStart /\ AtWaitDrq /\ AtCheck
  /\ AtRead /\ AtWrite /\ AtFlush
  /\ ReadOutcome /\ WriteOutcome

-----------------------------------------------------------------------------
(* Facts about sectors.                                                    *)

\* A sector is a possible contents of the caller's buffer.
LEMMA SectorsFit == Sectors \subseteq [Index -> Values \cup {Garbage}]
  BY DEF Sectors

\* A buffer that agrees with a sector in every word is that sector: what the
\* loops of ata_read_sector and ata_write_sector have reached at their end.
LEMMA Equal ==
  ASSUME NEW f \in [Index -> Values \cup {Garbage}], NEW g \in Sectors,
         \A j \in 1 .. Words : f[j] = g[j]
  PROVE  f = g
  <1>1. f = [j \in 1 .. Words |-> f[j]] /\ g = [j \in 1 .. Words |-> g[j]]
    BY DEF Sectors, Index
  <1> QED
    BY <1>1

-----------------------------------------------------------------------------
(* The initial states and the caller.                                      *)

\* The invariant holds before the first call.
LEMMA InitInv == Init => IInv
  <1> SUFFICES ASSUME Init PROVE IInv
    OBVIOUS
  <1>1. Types
    <2>1. bsy \in BOOLEAN /\ drq \in BOOLEAN /\ failed \in BOOLEAN /\ reported \in BOOLEAN
      BY Zenon DEF Init
    <2>2. i \in 0 .. Words /\ left \in 0 .. Words
      BY AtaAssumption DEF Init
    <2> QED
      BY <2>1, <2>2, SectorsFit DEF Init, Types
  <1> QED
    BY <1>1 DEF Init, IInv, Working, AtStart, AtWaitDrq, AtCheck, AtRead, AtWrite, AtFlush,
       ReadOutcome, WriteOutcome

\* A call finds the drive idle.
LEMMA CallInv ==
  ASSUME NEW kind \in {"read", "write"}, NEW lba \in Lbas, NEW contents \in Sectors,
         IInv, Call(kind, lba, contents)
  PROVE  IInv'
  <1>1. ~bsy'
    BY DEF IInv, Working, Call, status
  <1>2. Types'
    <2>1. pc' = "select" /\ op'.kind \in {"read", "write"} /\ op'.lba \in Lbas
      BY DEF Call
    <2>2. /\ buffer' \in [Index -> Values \cup {Garbage}]
          /\ op'.kind = "write" => buffer' \in Sectors
      BY SectorsFit DEF IInv, Types, Call
    <2>3. failed' \in BOOLEAN /\ reported' \in BOOLEAN
      BY Zenon DEF Call
    <2>4. i' \in 0 .. Words
      BY AtaAssumption DEF Call
    <2> QED
      BY <2>1, <2>2, <2>3, <2>4 DEF IInv, Types, Call, status
  <1>3. AtStart'
    BY DEF Call, AtStart
  <1> QED
    BY <1>1, <1>2, <1>3 DEF Call, IInv, Working, AtWaitDrq, AtCheck, AtRead, AtWrite, AtFlush,
       ReadOutcome, WriteOutcome

-----------------------------------------------------------------------------
(* The driver's steps.                                                     *)

\* The command is accepted, because BSY is clear.
LEMMA SelectInv ==
  ASSUME IInv, Select
  PROVE  IInv'
  <1>1. /\ pc = "select" /\ pc' = "wait_drq" /\ addr' = op.lba /\ left' = Words
        /\ bsy' = TRUE /\ drq' = FALSE /\ err' = FALSE /\ cmd' = op.kind
        /\ UNCHANGED <<op, buffer, i, cache, disk, before, failed, reported>>
    BY DEF Select, Accept
  <1>2. Types'
    <2>1. bsy' \in BOOLEAN /\ drq' \in BOOLEAN /\ err' \in BOOLEAN
      BY <1>1, Zenon
    <2>2. left' \in 0 .. Words
      BY <1>1, AtaAssumption
    <2> QED
      BY <1>1, <2>1, <2>2 DEF IInv, Types
  <1>3. Working'
    BY <1>1 DEF Working
  <1>4. AtWaitDrq'
    BY <1>1 DEF IInv, Types, AtStart, AtWaitDrq
  <1> QED
    BY <1>1, <1>2, <1>3, <1>4 DEF IInv, AtStart, AtCheck, AtRead, AtWrite, AtFlush,
       ReadOutcome, WriteOutcome

\* DRQ excludes BSY: the drive is done with its part when the driver goes on.
LEMMA WaitDrqInv ==
  ASSUME IInv, WaitDrq
  PROVE  IInv'
  <1>1. /\ pc = "wait_drq" /\ pc' = IF op.kind = "read" THEN "check" ELSE "transfer"
        /\ drq /\ ~bsy
        /\ UNCHANGED <<op, buffer, i, before, reported, bsy, drq, err, cmd, addr, cache, left,
                       disk, failed>>
    BY DEF WaitDrq, IInv, Working, drive, status
  <1>2. Types'
    BY <1>1 DEF IInv, Types
  <1>3. AtCheck'
    BY <1>1 DEF IInv, AtWaitDrq, AtCheck
  <1>4. AtWrite'
    BY <1>1, AtaAssumption DEF IInv, AtWaitDrq, AtWrite
  <1> QED
    BY <1>1, <1>2, <1>3, <1>4 DEF IInv, Working, AtStart, AtWaitDrq, AtRead, AtFlush,
       ReadOutcome, WriteOutcome

\* A failed read ends with the buffer as it was; an error at the end of a
\* write is reported.
LEMMA CheckInv ==
  ASSUME IInv, Check
  PROVE  IInv'
  <1>1. /\ pc \in {"check", "check_write"} /\ reported' = err
        /\ pc' = IF pc = "check" /\ ~err THEN "transfer" ELSE "idle"
        /\ UNCHANGED <<op, buffer, i, before, bsy, drq, err, cmd, addr, cache, left, disk, failed>>
    BY DEF Check, drive, status
  <1>2. Types'
    BY <1>1 DEF IInv, Types
  <1>3. ~bsy
    BY <1>1 DEF IInv, Working
  <1>4. AtRead'
    BY <1>1, AtaAssumption DEF IInv, Types, AtCheck, AtRead
  <1>5. AtWrite'
    BY <1>1 DEF IInv, AtCheck, AtWrite
  <1>6. ReadOutcome'
    BY <1>1 DEF IInv, AtCheck, AtFlush, ReadOutcome
  <1>7. WriteOutcome'
    BY <1>1, <1>3 DEF IInv, AtCheck, AtFlush, Stored, WriteOutcome
  <1> QED
    BY <1>1, <1>2, <1>3, <1>4, <1>5, <1>6, <1>7
    DEF IInv, Working, AtStart, AtWaitDrq, AtCheck, AtFlush

\* Word i + 1 of the drive's buffer goes to word i + 1 of the caller's.
LEMMA ReadWordInv ==
  ASSUME IInv, ReadWord
  PROVE  IInv'
  <1>1. /\ pc = "transfer" /\ op.kind = "read" /\ cmd = "read" /\ addr = op.lba
        /\ i \in 0 .. Words - 1 /\ left = Words - i /\ drq /\ ~bsy
        /\ ~err /\ ~failed /\ ~reported /\ cache = disk[op.lba]
    BY AtaAssumption DEF IInv, Types, Working, AtRead, ReadWord
  <1>2. /\ i' = i + 1 /\ left' = Words - i' /\ drq' = (i' < Words)
        /\ ~bsy' /\ bsy' \in BOOLEAN
        /\ buffer' = [buffer EXCEPT ![i + 1] = cache[i + 1]]
        /\ UNCHANGED <<pc, op, before, reported, err, cmd, addr, cache, disk, failed>>
    <2>1. /\ i' = i + 1 /\ Moved /\ buffer' = [buffer EXCEPT ![i + 1] = cache[Words - left + 1]]
          /\ UNCHANGED <<pc, op, before, reported, cache>>
      BY <1>1 DEF ReadWord
    <2>2. Words - left + 1 = i + 1 /\ left - 1 = Words - (i + 1) /\ (left > 1 <=> i + 1 < Words)
      BY <1>1, AtaAssumption
    <2>3. drq' = (i' < Words)
      BY <2>1, <2>2 DEF Moved
    <2>4. ~bsy' /\ bsy' \in BOOLEAN
      BY <1>1, <2>1 DEF Moved
    <2> QED
      BY <2>1, <2>2, <2>3, <2>4 DEF Moved
  <1>3. buffer \in [Index -> Values \cup {Garbage}] /\ cache \in [Index -> Values]
    BY DEF IInv, Types, Sectors
  <1>4. i + 1 \in Index
    BY <1>1, AtaAssumption DEF Index
  <1>5. buffer' \in [Index -> Values \cup {Garbage}]
    BY <1>2, <1>3, <1>4
  <1>6. \A j \in 1 .. i' : buffer'[j] = cache'[j]
    <2> SUFFICES ASSUME NEW j \in 1 .. i + 1 PROVE buffer'[j] = cache[j]
      BY <1>2
    <2>1. j \in Index
      BY <1>1, AtaAssumption DEF Index
    <2>2. CASE j = i + 1
      BY <1>2, <1>3, <2>1, <2>2
    <2>3. CASE j # i + 1
      <3>1. buffer[j] = cache[j]
        BY <1>1, <2>3 DEF IInv, AtRead
      <3> QED
        BY <1>2, <1>3, <2>1, <2>3, <3>1
    <2> QED
      BY <2>2, <2>3
  <1>7. Types'
    BY <1>1, <1>2, <1>5, AtaAssumption DEF IInv, Types
  <1>8. AtRead'
    BY <1>1, <1>2, <1>6, AtaAssumption DEF AtRead
  <1> QED
    BY <1>1, <1>2, <1>7, <1>8 DEF IInv, Working, AtStart, AtWaitDrq, AtCheck, AtWrite, AtFlush,
       ReadOutcome, WriteOutcome

\* Word i + 1 of the caller's buffer goes to word i + 1 of the drive's; with
\* the last one the drive turns to storing, unless it had failed.
LEMMA WriteWordInv ==
  ASSUME IInv, WriteWord
  PROVE  IInv'
  <1>1. /\ pc = "transfer" /\ op.kind = "write" /\ addr = op.lba
        /\ i \in 0 .. Words - 1 /\ left = Words - i /\ drq /\ ~bsy
        /\ cmd = IF failed THEN "none" ELSE "write"
    BY AtaAssumption DEF IInv, Types, Working, AtWrite, WriteWord
  <1>2. /\ i' = i + 1 /\ left' = Words - i' /\ drq' = (i' < Words)
        /\ bsy' = (i' = Words /\ ~failed)
        /\ cache' = [cache EXCEPT ![i + 1] = buffer[i + 1]]
        /\ UNCHANGED <<pc, op, buffer, before, reported, err, cmd, addr, disk, failed>>
    BY <1>1, AtaAssumption DEF WriteWord, Moved
  <1>3. buffer \in [Index -> Values] /\ cache \in [Index -> Values]
    BY <1>1 DEF IInv, Types, Sectors
  <1>4. i + 1 \in Index
    BY <1>1, AtaAssumption DEF Index
  <1>5. cache' \in Sectors
    BY <1>2, <1>3, <1>4 DEF Sectors
  <1>6. \A j \in 1 .. i' : cache'[j] = buffer'[j]
    <2> SUFFICES ASSUME NEW j \in 1 .. i + 1 PROVE cache'[j] = buffer[j]
      BY <1>2
    <2>1. j \in Index
      BY <1>1, AtaAssumption DEF Index
    <2>2. CASE j = i + 1
      BY <1>2, <1>3, <2>1, <2>2
    <2>3. CASE j # i + 1
      <3>1. i < Words /\ j \in 1 .. i
        BY <1>1, <2>3, AtaAssumption
      <3>2. cache[j] = buffer[j]
        BY <1>1, <3>1 DEF IInv, AtWrite
      <3> QED
        BY <1>2, <1>3, <2>1, <2>3, <3>2
    <2> QED
      BY <2>2, <2>3
  <1>7. i' = Words => cache' = buffer'
    <2>1. buffer' \in [Index -> Values \cup {Garbage}]
      BY <1>2 DEF IInv, Types
    <2> QED
      BY <1>5, <1>6, <2>1, Equal
  <1>8. Types'
    BY <1>1, <1>2, <1>5, AtaAssumption DEF IInv, Types
  <1>9. Working'
    <2>1. CASE bsy'
      <3>1. i' = Words /\ left' = 0 /\ ~drq' /\ cmd' = "write"
        <4>1. i' = Words /\ ~failed
          BY <1>2, <2>1, Zenon
        <4>2. left' = 0 /\ ~(i' < Words)
          BY <1>1, <1>2, <4>1, AtaAssumption
        <4>3. ~drq'
          BY <1>2, <4>2, Zenon
        <4>4. cmd' = "write"
          BY <1>1, <1>2, <4>1, Zenon
        <4> QED
          BY <4>1, <4>2, <4>3, <4>4
      <3> QED
        BY <1>1, <1>2, <1>7, <3>1 DEF Working
    <2> QED
      BY <2>1 DEF Working
  <1>10. AtWrite'
    BY <1>1, <1>2, <1>6, AtaAssumption DEF IInv, AtWrite
  <1> QED
    BY <1>1, <1>2, <1>8, <1>9, <1>10 DEF IInv, AtStart, AtWaitDrq, AtCheck, AtRead, AtFlush,
       ReadOutcome, WriteOutcome

\* The flush command is ignored while the drive is still storing, and accepted
\* otherwise; nothing is lost either way.
LEMMA FlushInv ==
  ASSUME IInv, Flush
  PROVE  IInv'
  <1>1. /\ pc = "transfer" /\ i = Words
        /\ UNCHANGED <<op, buffer, i, addr, cache, left, disk, before, failed, reported>>
    BY DEF Flush
  <1>2. CASE op.kind = "read"
    <2>1. pc' = "idle" /\ UNCHANGED <<bsy, drq, err, cmd>>
      BY <1>2 DEF Flush, status
    <2>2. ~bsy
      BY <1>1, <1>2 DEF IInv, Working
    <2>3. Types'
      BY <1>1, <2>1 DEF IInv, Types
    <2>4. buffer = disk[op.lba]
      BY <1>1, <1>2, Equal DEF IInv, Types, AtRead
    <2>5. ReadOutcome'
      BY <1>1, <1>2, <2>4 DEF IInv, Types, AtRead, ReadOutcome
    <2> QED
      BY <1>1, <1>2, <2>1, <2>2, <2>3, <2>5 DEF IInv, Working, AtStart, AtWaitDrq, AtCheck, AtRead,
         AtWrite, AtFlush, WriteOutcome
  <1>3. CASE op.kind = "write" /\ bsy
    <2>1. pc' = "wait_bsy" /\ UNCHANGED <<bsy, drq, err, cmd>>
      BY <1>3 DEF Flush, Accept, status
    <2>2. Types'
      BY <1>1, <2>1 DEF IInv, Types
    <2>3. Working'
      BY <1>1, <1>3, <2>1 DEF IInv, Working
    <2>4. AtFlush'
      BY <1>1, <1>3, <2>1 DEF IInv, AtWrite, AtFlush
    <2> QED
      BY <1>1, <1>3, <2>1, <2>2, <2>3, <2>4 DEF IInv, AtStart, AtWaitDrq, AtCheck, AtRead,
         AtWrite, ReadOutcome, WriteOutcome
  <1>4. CASE op.kind = "write" /\ ~bsy
    <2>1. pc' = "wait_bsy" /\ bsy' = TRUE /\ drq' = FALSE /\ err' = FALSE /\ cmd' = "flush"
      BY <1>4 DEF Flush, Accept
    <2>2. Types'
      BY <1>1, <2>1 DEF IInv, Types
    <2>3. failed \/ Stored
      BY <1>1, <1>4 DEF IInv, AtWrite
    <2>4. Working'
      BY <1>1, <1>4, <2>1, <2>3 DEF Working, Stored
    <2>5. AtFlush'
      BY <1>1, <1>4, <2>1 DEF AtFlush
    <2> QED
      BY <1>1, <1>4, <2>1, <2>2, <2>4, <2>5 DEF IInv, AtStart, AtWaitDrq, AtCheck, AtRead,
         AtWrite, ReadOutcome, WriteOutcome
  <1> QED
    BY <1>1, <1>2, <1>3, <1>4 DEF IInv, Types

\* BSY is clear again: the sector is stored or the drive has failed.
LEMMA WaitBsyInv ==
  ASSUME IInv, WaitBsy
  PROVE  IInv'
  <1>1. /\ pc = "wait_bsy" /\ pc' = "check_write" /\ ~bsy
        /\ UNCHANGED <<op, buffer, i, before, reported, bsy, drq, err, cmd, addr, cache, left,
                       disk, failed>>
    BY DEF WaitBsy, drive, status
  <1>2. Types'
    BY <1>1 DEF IInv, Types
  <1>3. AtFlush'
    BY <1>1 DEF IInv, AtFlush, Stored
  <1> QED
    BY <1>1, <1>2, <1>3 DEF IInv, Working, AtStart, AtWaitDrq, AtCheck, AtRead, AtWrite,
       ReadOutcome, WriteOutcome

-----------------------------------------------------------------------------
(* The drive's steps.                                                      *)

\* The drive offers data only while the driver waits for it.
LEMMA OfferDataInv ==
  ASSUME IInv, OfferData
  PROVE  IInv'
  <1>1. /\ pc = "wait_drq" /\ cmd = op.kind /\ bsy /\ bsy' = FALSE /\ drq' = TRUE
        /\ cache' = IF cmd = "read" THEN disk[addr] ELSE cache
        /\ UNCHANGED <<pc, op, buffer, i, before, reported, err, cmd, addr, left, disk, failed>>
    BY DEF OfferData, Storing, IInv, Working, host
  <1>2. addr = op.lba /\ op.lba \in Lbas
    BY <1>1 DEF IInv, Types, AtWaitDrq
  <1>3. Types'
    BY <1>1, <1>2 DEF IInv, Types
  <1>4. AtWaitDrq'
    BY <1>1, <1>2 DEF IInv, AtWaitDrq
  <1> QED
    BY <1>1, <1>3, <1>4 DEF IInv, Working, AtStart, AtCheck, AtRead, AtWrite, AtFlush,
       ReadOutcome, WriteOutcome

\* What the drive stores is the caller's buffer, where the caller wanted it.
LEMMA StoreInv ==
  ASSUME IInv, Store
  PROVE  IInv'
  <1>1. /\ pc \in {"transfer", "wait_bsy"} /\ op.kind = "write" /\ i = Words /\ left = 0
        /\ addr = op.lba /\ cache = buffer
        /\ bsy' = FALSE /\ disk' = [disk EXCEPT ![addr] = cache]
        /\ UNCHANGED <<pc, op, buffer, i, before, reported, drq, err, cmd, addr, cache, left, failed>>
    BY AtaAssumption DEF Store, Storing, IInv, Working, AtWaitDrq, host
  <1>2. Types'
    BY <1>1 DEF IInv, Types
  <1>3. Stored'
    BY <1>1 DEF IInv, Types, Stored
  <1>4. AtWrite'
    BY <1>1, <1>3 DEF IInv, AtWrite
  <1>5. AtFlush'
    BY <1>1, <1>3 DEF IInv, AtFlush
  <1> QED
    BY <1>1, <1>2, <1>4, <1>5 DEF IInv, Working, AtStart, AtWaitDrq, AtCheck, AtRead,
       ReadOutcome, WriteOutcome

\* The flush is the last command of a write.
LEMMA FlushDoneInv ==
  ASSUME IInv, FlushDone
  PROVE  IInv'
  <1>1. /\ pc = "wait_bsy" /\ op.kind = "write" /\ bsy' = FALSE
        /\ failed \/ Stored
        /\ UNCHANGED <<pc, op, buffer, i, before, reported, drq, err, cmd, addr, cache, left,
                       disk, failed>>
    BY DEF FlushDone, IInv, Types, Working, host
  <1>2. Types'
    BY <1>1 DEF IInv, Types
  <1>3. AtFlush'
    BY <1>1 DEF IInv, AtFlush, Stored
  <1> QED
    BY <1>1, <1>2, <1>3 DEF IInv, Working, AtStart, AtWaitDrq, AtCheck, AtRead, AtWrite,
       ReadOutcome, WriteOutcome

\* A drive that fails is one of the three that work; the driver has not
\* looked at the outcome yet.
LEMMA FailInv ==
  ASSUME IInv, Fail
  PROVE  IInv'
  <1>1. /\ bsy /\ bsy' = FALSE /\ err' = TRUE /\ failed' = TRUE /\ drq' \in BOOLEAN
        /\ cmd' = IF cmd = "write" THEN "none" ELSE cmd
        /\ UNCHANGED <<pc, op, buffer, i, before, reported, addr, cache, left, disk>>
    BY AtaAssumption DEF Fail, Storing, host
  <1>2. \/ pc = "wait_drq" /\ cmd = op.kind
        \/ pc = "transfer" /\ op.kind = "write" /\ i = Words
        \/ pc = "wait_bsy" /\ op.kind = "write"
    BY <1>1 DEF IInv, Working, Types
  <1>3. Types'
    BY <1>1 DEF IInv, Types
  <1>4. AtWaitDrq'
    BY <1>1, <1>2 DEF IInv, Types, AtWaitDrq
  <1>5. AtWrite'
    BY <1>1, <1>2, AtaAssumption DEF IInv, AtWrite
  <1>6. AtFlush'
    BY <1>1, <1>2 DEF AtFlush
  <1> QED
    BY <1>1, <1>2, <1>3, <1>4, <1>5, <1>6 DEF IInv, Working, AtStart, AtCheck, AtRead,
       ReadOutcome, WriteOutcome

-----------------------------------------------------------------------------
(* The theorems.                                                           *)

\* Every step, and every step that changes nothing, keeps the invariant.
LEMMA NextInv == IInv /\ [Next]_vars => IInv'
  <1> SUFFICES ASSUME IInv, [Next]_vars PROVE IInv'
    OBVIOUS
  <1>1. ASSUME NEW lba \in Lbas, NEW contents \in Sectors, NEW kind \in {"read", "write"},
               Call(kind, lba, contents)
        PROVE  IInv'
    BY <1>1, CallInv
  <1>2. CASE Driver
    BY <1>2, SelectInv, WaitDrqInv, CheckInv, ReadWordInv, WriteWordInv, FlushInv, WaitBsyInv
    DEF Driver
  <1>3. CASE Drive
    BY <1>3, OfferDataInv, StoreInv, FlushDoneInv, FailInv DEF Drive
  <1>4. CASE UNCHANGED vars
    BY <1>4 DEF vars, drive, host, status, IInv, Types, Working, Stored, AtStart, AtWaitDrq,
       AtCheck, AtRead, AtWrite, AtFlush, ReadOutcome, WriteOutcome
  <1> QED
    BY <1>1, <1>2, <1>3, <1>4 DEF Next, Poll

\* The invariant holds in every state the driver and the drive reach.
LEMMA Invariance == Spec => []IInv
  BY InitInv, NextInv, PTL DEF Spec

\* Every variable keeps its type: the driver's index and the drive's count
\* stay inside the sector.
THEOREM TypeCorrect == Spec => []TypeOK
  <1>1. IInv => TypeOK
    BY DEF IInv, Types, TypeOK
  <1> QED
    BY <1>1, Invariance, PTL

\* ata_read_sector returns the sector it was asked for or an error, whatever
\* the drive's pace and its failures.
THEOREM ReadsRight == Spec => []ReadOutcome
  <1>1. IInv => ReadOutcome
    BY DEF IInv
  <1> QED
    BY <1>1, Invariance, PTL

\* ata_write_sector has stored the caller's buffer when it returns, unless the
\* drive failed, although its flush may be ignored.
THEOREM WritesRight == Spec => []WriteOutcome
  <1>1. IInv => WriteOutcome
    BY DEF IInv
  <1> QED
    BY <1>1, Invariance, PTL

\* The disk changes in one way only: at once, and to the caller's buffer.
THEOREM StoresWhole == Spec => StoresWholeSectors
  <1>1. ASSUME IInv, [Next]_vars, disk' # disk
        PROVE  op.kind = "write" /\ disk' = [disk EXCEPT ![op.lba] = buffer]
    <2>1. Store
      BY <1>1 DEF Next, Call, Driver, Select, WaitDrq, Check, ReadWord, WriteWord, Flush, WaitBsy,
         Poll, Drive, OfferData, FlushDone, Fail, Moved, vars, drive
    <2> QED
      BY <1>1, <2>1, AtaAssumption DEF Store, Storing, IInv, Working, AtWaitDrq
  <1>2. IInv /\ [Next]_vars =>
          [disk' # disk => op.kind = "write" /\ disk' = [disk EXCEPT ![op.lba] = buffer]]_vars
    BY <1>1
  <1> QED
    BY <1>2, Invariance, PTL DEF Spec, StoresWholeSectors

\* The driver moves a word only when the drive asks for it, and the two agree
\* which word it is.
THEOREM MovesOnRequest == Spec => MovesWordsOnRequest
  <1>1. ASSUME IInv, [Next]_vars, i' > i
        PROVE  drq /\ left = Words - i /\ addr = op.lba
    <2>1. i \in Nat
      BY <1>1 DEF IInv, Types
    <2>2. ~Drive /\ ~Poll /\ ~UNCHANGED vars
      <3>1. Drive \/ Poll \/ UNCHANGED vars => i' = i
        BY Zenon DEF Poll, Drive, OfferData, Store, FlushDone, Fail, vars, host
      <3> QED
        BY <1>1, <2>1, <3>1
    <2>3. ~(Select \/ WaitDrq \/ Check \/ Flush \/ WaitBsy)
      BY <1>1, <2>1 DEF Select, WaitDrq, Check, Flush, WaitBsy
    <2>4. ReadWord \/ WriteWord
      BY <1>1, <2>1, <2>2, <2>3 DEF Next, Call, Driver
    <2> QED
      BY <1>1, <2>4 DEF IInv, AtRead, AtWrite, ReadWord, WriteWord
  <1>2. IInv /\ [Next]_vars =>
          [i' > i => drq /\ left = Words - i /\ addr = op.lba]_vars
    BY <1>1
  <1> QED
    BY <1>2, Invariance, PTL DEF Spec, MovesWordsOnRequest
=============================================================================
