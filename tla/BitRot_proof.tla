----------------------------- MODULE BitRot_proof -----------------------------
(***************************************************************************)
(* Theorems of LetDB on a device that damages slots and under a kernel     *)
(* that drops pages, for every set of operations, width and bound.         *)
(***************************************************************************)
EXTENDS BitRot, LetDB_proof

-----------------------------------------------------------------------------
(* The inductive invariants.                                               *)

\* A slot that was dropped.
LostSlot == [state: {"lost"}, device: Slot]

\* The state has its type; the device has slots that were dropped, too.
RotType ==
    /\ header \in Headers /\ dheader \in Headers
    /\ file \in Seq(Slot) /\ disk \in Seq(Slot \cup LostSlot)
    /\ pc \in Pcs
    /\ accts \in Seq(Account)
    /\ capacity \in U64
    /\ transactions \in Nat /\ cursor \in Nat
    /\ cur \in Entry \cup {NoEntry}
    /\ (pc \in {"written", "logged"} <=> cur # NoEntry)
    /\ acked \in SUBSET Entry
    /\ now \in 0 .. MaxTime

\* The list has a capacity to double, is within it, and memory has given it.
RoomInList ==
    /\ capacity # 0 /\ Len(accts) <= capacity
    /\ AccountSize * capacity <= AllocMax

\* How far the process has come with the file.
ProcessReads ==
    /\ pc \in {"down", "creating"} => cursor = 0 /\ transactions = 0 /\ accts = <<>>
    /\ pc = "replaying" => ReadableTo(cursor) /\ transactions = cursor
    /\ pc = "ready" => /\ cursor = Len(file) /\ ReadableTo(cursor)
                       /\ transactions = cursor
    /\ pc \in {"written", "logged"} =>
            /\ cursor = Len(file) /\ ReadableTo(cursor)
            /\ cursor > 0 /\ file[cursor] = Good(cur) /\ cur.id = cursor - 1
    /\ pc = "written" => transactions = cursor - 1
    /\ pc = "logged" => transactions = cursor

\* No entry is from the future.
DatedBy(s, t) == IsGood(s) => s.entry.timestamp <= t
Dated ==
    /\ \A i \in DOMAIN file : DatedBy(file[i], now)
    /\ \A i \in DOMAIN disk : DatedBy(OnDevice(i), now)

\* The list has the accounts of the entries applied.
ListsOpened ==
    /\ OpenedWhenLogged
    /\ Len(accts) = Cardinality(Openings(Applied))

\* Slot k is on the device as the file has it, and all before it are, or were dropped.
Synced(k) ==
    /\ k <= Len(disk) /\ disk[k] = file[k]
    /\ \A j \in 1 .. k : j \in Dropped \/ disk[j] = file[j]

\* What was answered was synced; only damage at rest, which shows, has touched it since.
AnsweredSynced ==
    /\ dheader = "ok" => header = "ok"
    /\ pc \notin {"down", "creating"} => header = "ok"
    /\ acked # {} => dheader = "ok"
    /\ Len(disk) <= Len(file)
    /\ pc = "written" => Len(disk) < Len(file)
    /\ pc = "logged" => dheader = "ok" /\ Synced(cursor)
    /\ \A e \in acked :
        /\ Synced(e.id + 1)
        /\ IsGood(file[e.id + 1]) => file[e.id + 1] = Good(e)

-----------------------------------------------------------------------------
(* Typing.                                                                 *)

\* A function from the first numbers is a sequence.
LEMMA SeqOf ==
    ASSUME NEW S, NEW n \in Nat, NEW f \in [1 .. n -> S]
    PROVE  f \in Seq(S)
OBVIOUS

LEMMA SlotStates ==
    /\ \A s \in Slot : s.state \in {"good", "bad", "torn"}
    /\ \A s \in LostSlot : s.state = "lost" /\ s.device \in Slot
    /\ Bad \in Slot /\ Torn \in Slot
    /\ ~IsGood(Bad) /\ ~IsGood(Torn)
BY DEF Slot, LostSlot, Bad, Torn, IsGood

LEMMA Slots ==
    ASSUME RotType
    PROVE  /\ Len(file) \in Nat /\ DOMAIN file = 1 .. Len(file)
           /\ Len(disk) \in Nat /\ DOMAIN disk = 1 .. Len(disk)
           /\ \A i \in DOMAIN file : file[i] \in Slot /\ file[i].state # "lost"
           /\ \A i \in DOMAIN disk : disk[i] \in Slot \cup LostSlot
           /\ \A i \in Dropped : i \in DOMAIN disk /\ disk[i] \in LostSlot
           /\ \A i \in DOMAIN disk : i \notin Dropped => disk[i] \in Slot
           /\ \A i : OnDevice(i) \in Slot
<1>1. /\ Len(file) \in Nat /\ DOMAIN file = 1 .. Len(file)
      /\ Len(disk) \in Nat /\ DOMAIN disk = 1 .. Len(disk)
  BY LenProperties DEF RotType
<1>2. \A i \in DOMAIN file : file[i] \in Slot
  BY <1>1, ElementOfSeq DEF RotType
<1>3. \A i \in DOMAIN disk : disk[i] \in Slot \cup LostSlot
  BY <1>1, ElementOfSeq DEF RotType
<1>4. \A i \in DOMAIN file : file[i].state # "lost"
  BY <1>2, SlotStates
<1>5. \A i \in Dropped : i \in DOMAIN disk /\ disk[i] \in LostSlot
  BY <1>3, SlotStates DEF Dropped
<1>6. \A i \in DOMAIN disk : i \notin Dropped => disk[i] \in Slot
  BY <1>3, SlotStates DEF Dropped
<1>7. \A i : OnDevice(i) \in Slot
  BY <1>5, <1>6, SlotStates DEF OnDevice
<1> QED
  BY <1>1, <1>2, <1>3, <1>4, <1>5, <1>6, <1>7

LEMMA RotNextSlotType ==
    ASSUME RotType, AtSlot, IsGood(NextSlot)
    PROVE  /\ NextSlot.entry \in Entry
           /\ NextSlot.entry.op \in Operation
           /\ NextSlot.entry.timestamp \in Nat
<1>1. NextSlot \in Slot
  BY ElementOfSeq DEF RotType, AtSlot, NextSlot
<1>2. NextSlot.entry \in Entry
  BY <1>1 DEF Slot, IsGood, Bad, Torn
<1> QED
  BY <1>2 DEF Entry

LEMMA RotCapacityType ==
    ASSUME RotType, HasRoom(accts, capacity)
    PROVE  CapacityAfterAdd(accts, capacity) \in U64
BY WidthAssumption DEF RotType, CapacityAfterAdd, HasRoom, CapacityOverflows, NeedsGrowth, U64

LEMMA RecoveryRotType ==
    ASSUME RotType, Recovery
    PROVE  RotType'
<1> USE DEF RotType, Headers, Pcs, storage, memory
<1>1. CASE CreateFile
  BY <1>1, FreshType DEF CreateFile
<1>2. CASE WriteHeader
  BY <1>2 DEF WriteHeader
<1>3. CASE OpenFile
  BY <1>3, FreshType DEF OpenFile
<1>4. CASE OpenRefused
  BY <1>4 DEF OpenRefused, vars
<1>5. CASE ReplayEntry
  <2>1. AtSlot /\ IsGood(NextSlot)
    BY <1>5 DEF ReplayEntry
  <2>2. accts' \in Seq(Account)
    BY <1>5, <2>1, RotNextSlotType, ApplyType, EngineAssumption DEF ReplayEntry
  <2>3. capacity' \in U64
    BY <1>5, RotCapacityType DEF ReplayEntry
  <2>4. transactions' \in Nat /\ cursor' \in Nat
    BY <1>5 DEF ReplayEntry
  <2> QED
    BY <1>5, <2>2, <2>3, <2>4 DEF ReplayEntry
<1>6. CASE ReplayFails
  BY <1>6, FreshType DEF ReplayFails, Exit
<1>7. CASE ReplayTruncate
  <2>1. file' \in Seq(Slot)
    BY <1>7, SubSeqProperties, LenProperties DEF ReplayTruncate, AtSlot
  <2>2. cursor' \in Nat
    BY <1>7, <2>1, LenProperties DEF ReplayTruncate, SeekEnd
  <2> QED
    BY <1>7, <2>1, <2>2 DEF ReplayTruncate, AtSlot, Replaying
<1>8. CASE ReplayRefused
  BY <1>8, FreshType DEF ReplayRefused, Exit
<1>9. CASE ReplayEnd
  <2>1. cursor' \in Nat
    BY <1>9, LenProperties DEF ReplayEnd, SeekEnd
  <2> QED
    BY <1>9, <2>1 DEF ReplayEnd, Replaying
<1> QED
  BY <1>1, <1>2, <1>3, <1>4, <1>5, <1>6, <1>7, <1>8, <1>9 DEF Recovery

LEMMA RequestRotType ==
    ASSUME RotType, NEW id \in 0 .. MaxLog, NEW op \in Operations,
           WriteEntry(id, op) \/ WriteFails(id, op) \/ Reject(id, op)
    PROVE  RotType'
<1>1. CASE WriteEntry(id, op)
  <2>1. NewEntry(id, op) \in Entry /\ NewEntry(id, op) # NoEntry
    <3>1. NewEntry(id, op) \in Entry
      BY EngineAssumption DEF RotType, Entry, NewEntry
    <3>2. NewEntry(id, op).id = id /\ id # -1 /\ NoEntry.id = -1
      BY EngineAssumption DEF NewEntry, NoEntry
    <3> QED
      BY <3>1, <3>2
  <2>2. Good(NewEntry(id, op)) \in Slot
    BY <2>1 DEF Good, Slot
  <2>3. file' \in Seq(Slot)
    BY <1>1, <2>2, WriteType DEF WriteEntry, RotType
  <2> QED
    BY <1>1, <2>1, <2>3 DEF WriteEntry, RotType, Pcs
<1>2. CASE WriteFails(id, op)
  <2>1. file' \in Seq(Slot)
    BY <1>2, WriteType, SlotStates DEF WriteFails, RotType
  <2> QED
    BY <1>2, <2>1, FreshType DEF WriteFails, Exit, RotType, Pcs
<1>3. CASE Reject(id, op)
  BY <1>3 DEF Reject, vars, RotType
<1> QED
  BY <1>1, <1>2, <1>3

LEMMA SyncRotType ==
    ASSUME RotType, SyncFails \/ SyncDrops \/ SyncLeavesDropped
    PROVE  RotType'
<1>0. Len(file) \in Nat /\ DOMAIN file = 1 .. Len(file)
  BY Slots
<1>1. CASE SyncFails
  BY <1>1, FreshType DEF SyncFails, Exit, storage, RotType, Pcs
<1>2. CASE SyncDrops
  <2>1. \A i \in DOMAIN file : IF i \in Dirty THEN Lost(OnDevice(i)) \in LostSlot
                               ELSE disk[i] \in Slot \cup LostSlot
    BY Slots DEF Lost, LostSlot, Dirty
  <2>2. disk' \in [1 .. Len(file) -> Slot \cup LostSlot]
    BY <1>0, <1>2, <2>1 DEF SyncDrops
  <2>3. disk' \in Seq(Slot \cup LostSlot)
    BY <1>0, <2>2
  <2> QED
    BY <1>2, <2>3, FreshType DEF SyncDrops, Exit, RotType, Pcs
<1>3. CASE SyncLeavesDropped
  <2>1. disk' \in [1 .. Len(file) -> Slot \cup LostSlot]
    BY <1>0, <1>3, Slots DEF SyncLeavesDropped
  <2>2. disk' \in Seq(Slot \cup LostSlot)
    BY <1>0, <2>1
  <2> QED
    BY <1>3, <2>2 DEF SyncLeavesDropped, RotType, Pcs
<1> QED
  BY <1>1, <1>2, <1>3

LEMMA ApplyRotType ==
    ASSUME RotType, ApplyEntry \/ ApplyFails
    PROVE  RotType'
<1>1. CASE ApplyEntry
  <2>1. cur \in Entry
    BY <1>1 DEF ApplyEntry, RotType
  <2>2. cur.op \in Operation /\ cur.timestamp \in Nat
    BY <2>1 DEF Entry
  <2>3. accts' \in Seq(Account)
    BY <1>1, <2>2, ApplyType, EngineAssumption DEF ApplyEntry, RotType
  <2>4. capacity' \in U64
    BY <1>1, RotCapacityType DEF ApplyEntry, Unapplied, RotType
  <2>5. acked' \in SUBSET Entry
    BY <1>1, <2>1 DEF ApplyEntry, RotType
  <2> QED
    BY <1>1, <2>3, <2>4, <2>5 DEF ApplyEntry, RotType, Pcs, storage
<1>2. CASE ApplyFails
  BY <1>2, FreshType DEF ApplyFails, Exit, RotType, Pcs, storage
<1> QED
  BY <1>1, <1>2

\* What is left of a file, and of a device with nothing dropped, are slots.
LEMMA PowerLossRotType ==
    ASSUME RotType, (Dropped = {} /\ PowerLoss) \/ PowerLossDropped
    PROVE  RotType' /\ disk' = file'
<1>0. Len(file) \in Nat /\ DOMAIN file = 1 .. Len(file)
  BY Slots
<1>1. SUFFICES file' \in Seq(Slot) /\ disk' = file'
               /\ header' \in Headers /\ dheader' \in Headers
  <2>1. disk' \in Seq(Slot \cup LostSlot)
    BY <1>1, Slots, ElementOfSeq, LenProperties
  <2> QED
    BY <1>1, <2>1, FreshType DEF PowerLoss, PowerLossDropped, Exit, RotType, Pcs
<1>2. CASE Dropped = {} /\ PowerLoss
  <2>1. /\ disk' = file' /\ header' \in Headers /\ dheader' \in Headers
        /\ SlotsSurvive \/ file' = <<>>
    BY <1>2 DEF PowerLoss, RotType, Headers
  <2>2. disk \in Seq(Slot)
    <3>1. disk \in [1 .. Len(disk) -> Slot] /\ Len(disk) \in Nat
      BY <1>2, Slots, LenProperties DEF RotType
    <3> QED
      BY <3>1
  <2>3. ASSUME NEW n \in 0 .. Len(file),
               NEW damaged \in SUBSET (Unstable \cap (1 .. n)), NEW end \in {Bad, Torn},
               file' = [i \in 1 .. n |-> IF i \notin damaged THEN file[i]
                                         ELSE IF i = n THEN end ELSE Bad]
        PROVE  file' \in Seq(Slot)
    <3>1. n \in Nat /\ \A i \in 1 .. n : file[i] \in Slot
      BY <1>0, Slots
    <3>2. file' \in [1 .. n -> Slot]
      BY <2>3, <3>1, SlotStates
    <3> QED
      BY <3>1, <3>2
  <2> QED
    BY <2>1, <2>2, <2>3, EmptySeq DEF SlotsSurvive
<1>3. CASE PowerLossDropped
  <2>1. PICK n \in Len(disk) .. Len(file), written \in SUBSET Dirty :
            file' = [i \in 1 .. n |-> IF i \in Dropped \/ i \in Dirty \ written
                                      THEN OnDevice(i) ELSE file[i]]
    BY <1>3 DEF PowerLossDropped
  <2>2. n \in Nat /\ \A i \in 1 .. n : i \in DOMAIN file
    BY <1>0, Slots
  <2>3. file' \in [1 .. n -> Slot]
    BY <2>1, <2>2, Slots
  <2>4. file' \in Seq(Slot)
    BY <2>2, <2>3, SeqOf
  <2> QED
    BY <1>3, <2>4 DEF PowerLossDropped, RotType
<1> QED
  BY <1>2, <1>3

LEMMA DamageRotType ==
    ASSUME RotType, (\E i \in DOMAIN file : Rot(i)) \/ (\E i \in Dropped : Evict(i))
    PROVE  RotType'
<1>0. /\ Len(file) \in Nat /\ DOMAIN file = 1 .. Len(file)
      /\ Len(disk) \in Nat /\ DOMAIN disk = 1 .. Len(disk)
  BY Slots
<1>1. SUFFICES file' \in Seq(Slot) /\ disk' \in Seq(Slot \cup LostSlot)
  BY <1>1 DEF Rot, Evict, memory, RotType
<1>2. ASSUME NEW i \in DOMAIN file, Rot(i)
      PROVE  file' \in Seq(Slot) /\ disk' \in Seq(Slot \cup LostSlot)
  <2>1. file' \in [1 .. Len(file) -> Slot]
    BY <1>0, <1>2, Slots, SlotStates DEF Rot
  <2>2. disk' \in [1 .. Len(disk) -> Slot \cup LostSlot]
    BY <1>0, <1>2, Slots, SlotStates DEF Rot
  <2> QED
    BY <1>0, <2>1, <2>2, SeqOf
<1>3. ASSUME NEW i \in Dropped, Evict(i)
      PROVE  file' \in Seq(Slot) /\ disk' \in Seq(Slot \cup LostSlot)
  <2>0. disk[i].device \in Slot
    BY Slots, SlotStates
  <2>1. file' \in [1 .. Len(file) -> Slot]
    BY <1>0, <1>3, <2>0, Slots DEF Evict
  <2>2. disk' \in [1 .. Len(disk) -> Slot \cup LostSlot]
    BY <1>0, <1>3, <2>0, Slots DEF Evict
  <2> QED
    BY <1>0, <2>1, <2>2, SeqOf
<1> QED
  BY <1>2, <1>3

LEMMA RotTyping ==
    ASSUME RotType, [RotNext]_vars
    PROVE  RotType'
<1>1. CASE Crash
  BY <1>1, FreshType DEF Crash, Exit, storage, RotType, Pcs
<1>2. CASE Tick
  BY <1>2, EngineAssumption DEF Tick, storage, memory, RotType
<1>3. CASE UNCHANGED vars
  BY <1>3 DEF vars, RotType
<1> QED
  BY <1>1, <1>2, <1>3, RecoveryRotType, RequestRotType, SyncRotType, ApplyRotType,
     PowerLossRotType, DamageRotType DEF RotNext

-----------------------------------------------------------------------------
(* The list and its allocation.                                            *)

\* What a step does to the list.
LEMMA ListSteps ==
    ASSUME RotNext
    PROVE  \/ accts' = accts /\ capacity' = capacity
           \/ FreshMemory
           \/ ReplayEntry
           \/ ApplyEntry
<1>1. Recovery => \/ accts' = accts /\ capacity' = capacity
                  \/ FreshMemory \/ ReplayEntry
  BY DEF Recovery, CreateFile, WriteHeader, OpenFile, OpenRefused, ReplayFails,
     ReplayTruncate, ReplayRefused, ReplayEnd, Exit, memory, vars
<1>2. ASSUME NEW id \in 0 .. MaxLog, NEW op \in Operations,
             WriteEntry(id, op) \/ WriteFails(id, op) \/ Reject(id, op)
      PROVE  (accts' = accts /\ capacity' = capacity) \/ FreshMemory
  BY <1>2 DEF WriteEntry, WriteFails, Reject, Exit, vars
<1>3. (\E i \in Dropped : Evict(i)) \/ (\E i \in DOMAIN file : Rot(i))
        => accts' = accts /\ capacity' = capacity
  BY DEF Evict, Rot, memory
<1>4. Crash \/ SyncFails \/ SyncDrops \/ PowerLoss \/ PowerLossDropped => FreshMemory
  BY DEF Crash, SyncFails, SyncDrops, PowerLoss, PowerLossDropped, Exit
<1>5. Tick \/ SyncLeavesDropped => accts' = accts /\ capacity' = capacity
  BY DEF Tick, SyncLeavesDropped, memory
<1>6. ApplyFails => (accts' = accts /\ capacity' = capacity) \/ FreshMemory
  BY DEF ApplyFails, Exit
<1> QED
  BY <1>1, <1>2, <1>3, <1>4, <1>5, <1>6 DEF RotNext

\* Twice a list that memory has given is asked for by its size.
LEMMA TwiceTheBytes ==
    ASSUME NEW cap \in Nat, AccountSize * cap <= AllocMax
    PROVE  /\ Bytes(2 * cap) = AccountSize * (2 * cap)
           /\ 2 * cap <= U64Max
<1>1. PICK s \in Nat \ {0} : s = AccountSize
  BY MemoryAssumption
<1>2. AllocMax \in Nat /\ 2 * AllocMax <= U64Max /\ U64Max \in Nat
  BY MemoryAssumption, WidthAssumption
<1>3. PICK n \in Nat, m \in Nat : /\ n = AccountSize * cap /\ m = AccountSize * (2 * cap)
                                 /\ 2 * cap <= m /\ n <= AllocMax
  BY <1>2, SizesGrow
<1>4. m = 2 * n
  BY <1>1, <1>3
<1>5. m <= U64Max /\ 2 * cap <= U64Max
  BY <1>2, <1>3, <1>4
<1> QED
  BY <1>3, <1>5, BytesOf

\* A new account for which there is room leaves the list within what memory has given.
LEMMA RoomForOne ==
    ASSUME NEW a \in Seq(Account), NEW cap \in Nat, cap # 0, Len(a) <= cap,
           AccountSize * cap <= AllocMax, HasRoom(a, cap)
    PROVE  /\ CapacityAfterAdd(a, cap) # 0 /\ Len(a) + 1 <= CapacityAfterAdd(a, cap)
           /\ AccountSize * CapacityAfterAdd(a, cap) <= AllocMax
<1>1. Len(a) \in Nat /\ AllocMax \in Nat
  BY MemoryAssumption, LenProperties
<1>2. CASE NeedsGrowth(a, cap)
  <2>1. CapacityAfterAdd(a, cap) = 2 * cap
    BY <1>2 DEF CapacityAfterAdd
  <2>2. Bytes(2 * cap) = AccountSize * (2 * cap)
    BY TwiceTheBytes
  <2>3. PICK m \in Nat : m = AccountSize * (2 * cap)
    BY SizesGrow
  <2>4. m <= AllocMax
    BY <1>1, <1>2, <2>2, <2>3 DEF HasRoom, OutOfMemory
  <2> QED
    BY <1>1, <2>1, <2>3, <2>4
<1>3. CASE ~NeedsGrowth(a, cap)
  BY <1>1, <1>3 DEF CapacityAfterAdd, NeedsGrowth
<1> QED
  BY <1>2, <1>3

LEMMA RoomKept ==
    ASSUME RotType, RoomInList, [RotNext]_vars
    PROVE  RoomInList'
<1>0. accts \in Seq(Account) /\ capacity \in U64 /\ capacity \in Nat /\ Len(accts) \in Nat
      /\ now \in Nat
  BY WidthAssumption, EngineAssumption, LenProperties DEF RotType, U64
<1>1. CASE accts' = accts /\ capacity' = capacity
  BY <1>1 DEF RoomInList
<1>2. CASE FreshMemory
  BY <1>2, MemoryAssumption DEF FreshMemory, RoomInList
<1>3. ASSUME NEW op \in Operation, NEW t \in Nat,
             accts' = Apply(accts, op, t, now),
             op.type = "add_account" => HasRoom(accts, capacity),
             capacity' = IF op.type = "add_account"
                         THEN CapacityAfterAdd(accts, capacity) ELSE capacity
      PROVE  RoomInList'
  <2>1. Len(accts') = IF op.type = "add_account" THEN Len(accts) + 1 ELSE Len(accts)
    BY <1>0, <1>3, ApplyType
  <2>2. CASE op.type = "add_account"
    BY <1>0, <1>3, <2>1, <2>2, RoomForOne DEF RoomInList
  <2>3. CASE op.type # "add_account"
    BY <1>3, <2>1, <2>3 DEF RoomInList
  <2> QED
    BY <2>2, <2>3
<1>4. CASE ReplayEntry
  <2>1. NextSlot.entry.op \in Operation /\ NextSlot.entry.timestamp \in Nat
    BY <1>4, RotNextSlotType DEF ReplayEntry
  <2> QED
    BY <1>3, <1>4, <2>1 DEF ReplayEntry
<1>5. CASE ApplyEntry
  <2>1. cur.op \in Operation /\ cur.timestamp \in Nat
    BY <1>5 DEF ApplyEntry, RotType, Entry
  <2> QED
    BY <1>3, <1>5, <2>1 DEF ApplyEntry, Unapplied
<1>6. CASE UNCHANGED vars
  BY <1>6 DEF vars, RoomInList
<1> QED
  BY <1>1, <1>2, <1>4, <1>5, <1>6, ListSteps

-----------------------------------------------------------------------------
(* The process and the file.                                               *)

LEMMA ReadsExit == Exit => ProcessReads'
BY DEF Exit, FreshMemory, ProcessReads

LEMMA RotWrite ==
    ASSUME RotType, ProcessReads, pc = "ready", NEW slot \in Slot,
           file' = SlotsAfterWrite(slot)
    PROVE  /\ Len(file') = Len(file) + 1 /\ DOMAIN file' = 1 .. Len(file) + 1
           /\ \A i \in 1 .. Len(file) : file'[i] = file[i]
           /\ file'[Len(file) + 1] = slot
           /\ cursor = Len(file) /\ transactions = Len(file)
           /\ \A i \in 1 .. Len(file) : IsGood(file[i])
BY WriteAppends DEF RotType, ProcessReads, ReadableTo

LEMMA ReadsKept ==
    ASSUME RotType, ProcessReads, [RotNext]_vars
    PROVE  ProcessReads'
<1>0. /\ Len(file) \in Nat /\ DOMAIN file = 1 .. Len(file) /\ cursor \in Nat
      /\ transactions \in Nat /\ file \in Seq(Slot) /\ pc \in Pcs
  BY Slots DEF RotType
<1>1. CASE CreateFile
  BY <1>1 DEF CreateFile, FreshMemory, ProcessReads
<1>2. CASE WriteHeader
  BY <1>0, <1>2 DEF WriteHeader, memory, ProcessReads, ReadableTo
<1>3. CASE OpenFile
  BY <1>0, <1>3 DEF OpenFile, FreshMemory, storage, ProcessReads, ReadableTo
<1>4. CASE ReplayEntry
  <2>1. /\ pc = "replaying" /\ pc' = "replaying" /\ cursor < Len(file) /\ file' = file
        /\ IsGood(file[cursor + 1]) /\ cursor' = cursor + 1
        /\ transactions' = transactions + 1
    BY <1>4 DEF ReplayEntry, AtSlot, Replaying, NextSlot, storage
  <2>2. cursor + 1 <= Len(file) /\ \A i \in 1 .. cursor + 1 : IsGood(file[i])
    BY <1>0, <2>1 DEF ProcessReads, ReadableTo
  <2> QED
    BY <2>1, <2>2 DEF ProcessReads, ReadableTo
<1>5. CASE ReplayTruncate
  <2>1. /\ pc = "replaying" /\ pc' = "ready" /\ cursor < Len(file)
        /\ file' = SubSeq(file, 1, cursor) /\ cursor' = Len(file')
        /\ transactions' = transactions
    BY <1>5 DEF ReplayTruncate, AtSlot, Replaying, SeekEnd
  <2>2. Len(file') = cursor /\ \A i \in 1 .. cursor : file'[i] = file[i]
    BY <1>0, <2>1, SubSeqProperties
  <2>3. transactions = cursor /\ \A i \in 1 .. cursor : IsGood(file[i])
    BY <2>1 DEF ProcessReads, ReadableTo
  <2>4. cursor' = cursor /\ transactions' = cursor /\ cursor' <= Len(file')
    BY <1>0, <2>1, <2>2, <2>3
  <2>5. \A i \in 1 .. cursor' : IsGood(file'[i])
    BY <2>2, <2>3, <2>4
  <2> QED
    BY <2>1, <2>4, <2>5 DEF ProcessReads, ReadableTo
<1>6. CASE ReplayEnd
  <2>1. /\ pc = "replaying" /\ pc' = "ready" /\ cursor >= Len(file) /\ file' = file
        /\ cursor' = Len(file) /\ transactions' = transactions
    BY <1>6 DEF ReplayEnd, Replaying, SeekEnd, storage
  <2>2. /\ transactions = cursor /\ cursor <= Len(file)
        /\ \A i \in 1 .. cursor : IsGood(file[i])
    BY <2>1 DEF ProcessReads, ReadableTo
  <2>3. cursor = Len(file)
    <3>1. cursor \in Nat /\ Len(file) \in Nat
      BY <1>0
    <3>2. cursor >= Len(file) /\ cursor <= Len(file)
      BY <2>1, <2>2
    <3> QED
      BY <3>1, <3>2
  <2> QED
    BY <1>0, <2>1, <2>2, <2>3 DEF ProcessReads, ReadableTo
<1>7. CASE OpenRefused \/ UNCHANGED vars
  BY <1>7 DEF OpenRefused, vars, ProcessReads, ReadableTo
<1>8. ASSUME NEW id \in 0 .. MaxLog, NEW op \in Operations, WriteEntry(id, op)
      PROVE  ProcessReads'
  <2> DEFINE slot == Good(NewEntry(id, op))
  <2>1. /\ pc = "ready" /\ pc' = "written" /\ file' = SlotsAfterWrite(slot)
        /\ cursor' = cursor + 1 /\ transactions' = transactions /\ cur' = NewEntry(id, op)
        /\ id = transactions
    BY <1>8 DEF WriteEntry, Request, Accepted
  <2>2. slot \in Slot /\ IsGood(slot)
    BY EngineAssumption DEF RotType, Entry, NewEntry, Good, Slot, IsGood
  <2>3. slot = Good(cur') /\ cur'.id = transactions
    BY <2>1 DEF NewEntry
  <2> HIDE DEF slot
  <2>4. /\ Len(file') = cursor + 1 /\ \A i \in 1 .. cursor + 1 : IsGood(file'[i])
        /\ file'[cursor + 1] = slot /\ transactions = cursor
    <3>1. /\ Len(file') = Len(file) + 1 /\ file'[Len(file) + 1] = slot
          /\ \A i \in 1 .. Len(file) : file'[i] = file[i] /\ IsGood(file[i])
          /\ cursor = Len(file) /\ transactions = Len(file)
      BY <2>1, <2>2, RotWrite
    <3>2. \A i \in 1 .. Len(file) + 1 : i \in 1 .. Len(file) \/ i = Len(file) + 1
      BY <1>0
    <3> QED
      BY <2>2, <3>1, <3>2
  <2>5. (cursor + 1) - 1 = transactions /\ cursor + 1 > 0
    BY <1>0, <2>4
  <2> QED
    BY <2>1, <2>3, <2>4, <2>5 DEF ProcessReads, ReadableTo
<1>9. ASSUME NEW id \in 0 .. MaxLog, NEW op \in Operations,
             WriteFails(id, op) \/ Reject(id, op)
      PROVE  ProcessReads'
  BY <1>9, ReadsExit DEF WriteFails, Reject, vars, ProcessReads, ReadableTo
<1>10. CASE SyncLeavesDropped
  <2>1. /\ pc = "written" /\ pc' = "logged" /\ file' = file /\ cursor' = cursor /\ cur' = cur
        /\ transactions' = transactions + 1
    BY <1>10 DEF SyncLeavesDropped
  <2> QED
    BY <1>0, <2>1 DEF ProcessReads, ReadableTo
<1>11. CASE ApplyEntry \/ ApplyFails
  <2>1. CASE Exit
    BY <2>1, ReadsExit
  <2>2. CASE ~Exit
    <3>1. /\ pc = "logged" /\ pc' = "ready" /\ file' = file /\ cursor' = cursor
          /\ transactions' = transactions
      BY <1>11, <2>2 DEF ApplyEntry, ApplyFails, storage
    <3> QED
      BY <1>0, <3>1 DEF ProcessReads, ReadableTo
  <2> QED
    BY <2>1, <2>2
<1>12. CASE ReplayFails \/ ReplayRefused \/ Crash \/ SyncFails \/ SyncDrops
            \/ PowerLoss \/ PowerLossDropped
  BY <1>12, ReadsExit DEF ReplayFails, ReplayRefused, Crash, SyncFails, SyncDrops,
     PowerLoss, PowerLossDropped
<1>13. CASE Tick
  BY <1>13 DEF Tick, storage, memory, ProcessReads, ReadableTo
<1>14. CASE (\E i \in DOMAIN file : Rot(i)) \/ (\E i \in Dropped : Evict(i))
  BY <1>14 DEF Rot, Evict, memory, ProcessReads
<1> QED
  BY <1>1, <1>2, <1>3, <1>4, <1>5, <1>6, <1>7, <1>8, <1>9, <1>10, <1>11, <1>12, <1>13,
     <1>14 DEF RotNext, Recovery

-----------------------------------------------------------------------------
(* What was answered, without truncation.                                  *)

\* What was synced stays so, while the file and the device keep it.
LEMMA SyncedKept ==
    ASSUME NEW k \in Nat, Synced(k), k <= Len(disk'),
           \A j \in 1 .. k : j \in Dropped \/ disk[j] = file[j]
                                => j \in Dropped' \/ disk'[j] = file'[j],
           disk[k] = file[k] => disk'[k] = file'[k]
    PROVE  Synced(k)'
<1>1. \A j \in 1 .. k : j \in Dropped' \/ disk'[j] = file'[j]
  BY DEF Synced
<1> QED
  BY <1>1 DEF Synced

LEMMA SyncedAt ==
    ASSUME RotType, NEW k \in Nat, k > 0, Synced(k), Len(disk) <= Len(file)
    PROVE  /\ k \in DOMAIN disk /\ k \in DOMAIN file /\ k \notin Dropped
           /\ \A j \in 1 .. k : j \in DOMAIN disk /\ j \in DOMAIN file
<1>1. /\ Len(file) \in Nat /\ DOMAIN file = 1 .. Len(file)
      /\ Len(disk) \in Nat /\ DOMAIN disk = 1 .. Len(disk)
  BY Slots
<1>2. k <= Len(disk) /\ disk[k] = file[k]
  BY DEF Synced
<1>3. \A j \in 1 .. k : j \in DOMAIN disk /\ j \in DOMAIN file
  BY <1>1, <1>2
<1>4. k \in 1 .. k
  OBVIOUS
<1>5. k \in DOMAIN file
  BY <1>3, <1>4
<1>6. k \notin Dropped
  BY <1>2, <1>5, Slots DEF Dropped
<1> QED
  BY <1>3, <1>4, <1>6

\* A power loss keeps what was synced.
LEMMA PowerLossSynced ==
    ASSUME RotType, RotType', Len(disk) <= Len(file), NEW k \in Nat, k > 0, Synced(k),
           \/ Dropped = {} /\ SlotsSurvive /\ disk' = file'
           \/ PowerLossDropped
    PROVE  Synced(k)' /\ file'[k] = file[k]
<1>0. /\ Len(file) \in Nat /\ DOMAIN file = 1 .. Len(file)
      /\ Len(disk) \in Nat /\ DOMAIN disk = 1 .. Len(disk) /\ Len(file') \in Nat
      /\ k \in DOMAIN disk /\ k \in DOMAIN file /\ k \notin Dropped
      /\ \A j \in 1 .. k : j \in DOMAIN disk /\ j \in DOMAIN file
  BY Slots, SyncedAt, LenProperties DEF RotType
<1>1. SUFFICES disk' = file' /\ k <= Len(file') /\ file'[k] = file[k]
  BY <1>1 DEF Synced
<1>2. CASE file' = disk /\ disk' = file'
  BY <1>0, <1>2 DEF Synced
<1>3. ASSUME Dropped = {}, NEW n \in 0 .. Len(file), (n + 1) .. Len(file) \subseteq Unstable,
             NEW damaged \in SUBSET (Unstable \cap (1 .. n)), NEW end \in {Bad, Torn},
             file' = [i \in 1 .. n |-> IF i \notin damaged THEN file[i]
                                       ELSE IF i = n THEN end ELSE Bad]
      PROVE  k <= Len(file') /\ file'[k] = file[k]
  <2>1. \A j \in 1 .. k : file[j] = disk[j]
    BY <1>3 DEF Synced
  <2>2. k \notin Unstable
    BY <1>0, <2>1 DEF Unstable, Stable
  <2>3. n \in Nat /\ Len(file') = n
    BY <1>0, <1>3
  <2>4. k <= n
    BY <1>0, <1>3, <2>2, <2>3
  <2> QED
    BY <1>0, <1>3, <2>2, <2>3, <2>4
<1>4. CASE PowerLossDropped
  <2>1. PICK n \in Len(disk) .. Len(file), written \in SUBSET Dirty :
            file' = [i \in 1 .. n |-> IF i \in Dropped \/ i \in Dirty \ written
                                      THEN OnDevice(i) ELSE file[i]]
    BY <1>4 DEF PowerLossDropped
  <2>2. k \notin Dirty
    BY <1>0 DEF Dirty, Synced
  <2>3. n \in Nat /\ Len(file') = n /\ k \in 1 .. n
    BY <1>0, <2>1
  <2> QED
    BY <1>0, <1>4, <2>1, <2>2, <2>3 DEF PowerLossDropped
<1> QED
  BY <1>2, <1>3, <1>4 DEF SlotsSurvive

\* The part of AnsweredSynced that is about the entries answered.
AckedSynced ==
    \A e \in acked : Synced(e.id + 1) /\ (IsGood(file[e.id + 1]) => file[e.id + 1] = Good(e))

LEMMA AckedSyncedKept ==
    ASSUME RotType, AnsweredSynced, acked' = acked,
           \A k \in Nat : k > 0 /\ Synced(k) =>
                Synced(k)' /\ (IsGood(file'[k]) => file'[k] = file[k])
    PROVE  AckedSynced'
<1> SUFFICES ASSUME NEW e \in acked
             PROVE  /\ Synced(e.id + 1)'
                    /\ IsGood(file'[e.id + 1]) => file'[e.id + 1] = Good(e)
  BY DEF AckedSynced
<1>1. e.id + 1 \in Nat /\ e.id + 1 > 0
  BY DEF RotType, Entry
<1>2. Synced(e.id + 1) /\ (IsGood(file[e.id + 1]) => file[e.id + 1] = Good(e))
  BY DEF AnsweredSynced
<1> QED
  BY <1>1, <1>2

\* A step that changes neither the file nor the device.
LEMMA StorageSynced ==
    ASSUME RotType, AnsweredSynced, UNCHANGED storage, acked' = acked,
           pc' \notin {"written", "logged"},
           pc' \notin {"down", "creating"} => pc \notin {"down", "creating"}
                                              \/ header = "ok"
    PROVE  AnsweredSynced'
<1>1. AckedSynced'
  BY AckedSyncedKept DEF storage, Synced, Dropped
<1> QED
  BY <1>1 DEF AnsweredSynced, AckedSynced, storage

LEMMA RecoverySynced ==
    ASSUME ~TruncateOnFail, RotType, AnsweredSynced, Recovery
    PROVE  AnsweredSynced'
<1>1. CASE CreateFile \/ WriteHeader
  <2>1. /\ file' = file /\ disk' = disk /\ dheader' = dheader /\ acked' = acked
        /\ pc' \in {"creating", "replaying"} /\ (pc' = "replaying" => header' = "ok")
        /\ header' = "ok" \/ header = "absent"
    BY <1>1 DEF CreateFile, WriteHeader
  <2>2. AckedSynced'
    BY <2>1, AckedSyncedKept DEF Synced, Dropped
  <2> QED
    BY <2>1, <2>2 DEF AnsweredSynced, AckedSynced
<1>2. CASE OpenFile \/ ReplayEntry \/ ReplayFails \/ ReplayRefused \/ ReplayEnd
  BY <1>2, StorageSynced DEF OpenFile, ReplayEntry, ReplayFails, ReplayRefused, ReplayEnd,
     AtSlot, Replaying, Exit
<1>3. CASE OpenRefused
  BY <1>3, StorageSynced DEF OpenRefused, vars, storage
<1>4. ~ReplayTruncate
  BY DEF ReplayTruncate
<1> QED
  BY <1>1, <1>2, <1>3, <1>4 DEF Recovery

LEMMA RequestSynced ==
    ASSUME RotType, ProcessReads, AnsweredSynced, NEW id \in 0 .. MaxLog, NEW op \in Operations,
           WriteEntry(id, op) \/ WriteFails(id, op) \/ Reject(id, op)
    PROVE  AnsweredSynced'
<1>1. CASE Reject(id, op)
  BY <1>1, StorageSynced DEF Reject, vars, storage
<1>2. ASSUME NEW slot \in Slot, pc = "ready", file' = SlotsAfterWrite(slot), disk' = disk,
             acked' = acked, header' = header, dheader' = dheader,
             pc' \in {"down", "written"}
      PROVE  AnsweredSynced'
  <2>1. /\ Len(file) \in Nat /\ DOMAIN file = 1 .. Len(file)
        /\ Len(disk) \in Nat /\ Len(disk) <= Len(file)
    BY Slots DEF AnsweredSynced
  <2>2. Len(file') = Len(file) + 1 /\ \A i \in 1 .. Len(file) : file'[i] = file[i]
    BY <1>2, RotWrite
  <2>3. Len(disk') < Len(file') /\ Len(disk') <= Len(file')
    BY <1>2, <2>1, <2>2
  <2>4. ASSUME NEW k \in Nat, k > 0, Synced(k)
        PROVE  Synced(k)' /\ file'[k] = file[k]
    <3>1. \A j \in 1 .. k : j \in DOMAIN file /\ file'[j] = file[j]
      BY <2>1, <2>2, <2>4, SyncedAt
    <3>2. k \in 1 .. k
      BY <2>4
    <3>3. Dropped' = Dropped
      BY <1>2 DEF Dropped
    <3> QED
      BY <1>2, <2>4, <3>1, <3>2, <3>3 DEF Synced
  <2>5. AckedSynced'
    BY <1>2, <2>4, AckedSyncedKept
  <2> QED
    BY <1>2, <2>3, <2>5 DEF AnsweredSynced, AckedSynced
<1>3. CASE WriteEntry(id, op)
  <2>1. Good(NewEntry(id, op)) \in Slot
    BY EngineAssumption DEF RotType, Entry, NewEntry, Good, Slot
  <2> QED
    BY <1>2, <1>3, <2>1 DEF WriteEntry, Request
<1>4. CASE WriteFails(id, op)
  BY <1>2, <1>4, SlotStates DEF WriteFails, Request, Exit
<1> QED
  BY <1>1, <1>3, <1>4

LEMMA SyncSynced ==
    ASSUME RotType, ProcessReads, AnsweredSynced, SyncFails \/ SyncDrops \/ SyncLeavesDropped
    PROVE  AnsweredSynced'
<1>0. /\ Len(file) \in Nat /\ DOMAIN file = 1 .. Len(file)
      /\ Len(disk) \in Nat /\ DOMAIN disk = 1 .. Len(disk) /\ Len(disk) <= Len(file)
      /\ cursor \in Nat
  BY Slots DEF AnsweredSynced, RotType
<1>1. CASE SyncFails
  BY <1>1, StorageSynced DEF SyncFails, Exit
<1>2. CASE SyncDrops
  <2>1. /\ pc = "written" /\ pc' = "down" /\ file' = file /\ header' = header
        /\ dheader' = header /\ acked' = acked
        /\ disk' = [i \in DOMAIN file |->
                        IF i \in Dirty THEN Lost(OnDevice(i)) ELSE disk[i]]
    BY <1>2 DEF SyncDrops, Exit
  <2>2. Len(disk') = Len(file)
    BY <1>0, <2>1
  <2>3. ASSUME NEW k \in Nat, k > 0, Synced(k)
        PROVE  Synced(k)' /\ file'[k] = file[k]
    <3>1. /\ k \in DOMAIN disk /\ k \in DOMAIN file /\ k \notin Dropped
          /\ \A j \in 1 .. k : j \in DOMAIN disk /\ j \in DOMAIN file
      BY <1>0, <2>3, SyncedAt
    <3>2. \A j \in 1 .. k : j \notin Dirty
      BY <2>3, <3>1 DEF Dirty, Synced
    <3>3. \A j \in 1 .. k : disk'[j] = disk[j]
      BY <2>1, <3>1, <3>2
    <3>4. \A j \in 1 .. k : j \in Dropped => j \in Dropped'
      BY <1>0, <2>1, <2>2, <3>1, <3>3 DEF Dropped
    <3>5. k \in 1 .. k /\ k <= Len(disk')
      BY <1>0, <2>2, <2>3, <3>1
    <3> QED
      BY <2>1, <2>3, <3>3, <3>4, <3>5 DEF Synced
  <2>4. AckedSynced'
    BY <2>1, <2>3, AckedSyncedKept
  <2> QED
    BY <1>0, <2>1, <2>2, <2>4 DEF AnsweredSynced, AckedSynced
<1>3. CASE SyncLeavesDropped
  <2>1. /\ pc = "written" /\ pc' = "logged" /\ file' = file /\ header' = header
        /\ dheader' = header /\ acked' = acked /\ cursor' = cursor
        /\ disk' = [i \in DOMAIN file |-> IF i \in Dropped THEN disk[i] ELSE file[i]]
    BY <1>3 DEF SyncLeavesDropped
  <2>2. Len(disk') = Len(file)
    BY <1>0, <2>1
  <2>3. \A j \in DOMAIN file : j \in Dropped' \/ disk'[j] = file'[j]
    BY <1>0, <2>1, <2>2 DEF Dropped
  <2>4. ASSUME NEW k \in Nat, k \in DOMAIN file, k \notin Dropped
        PROVE  Synced(k)'
    <3>1. k <= Len(disk') /\ disk'[k] = file'[k]
      BY <1>0, <2>1, <2>2, <2>4
    <3>2. \A j \in 1 .. k : j \in Dropped' \/ disk'[j] = file'[j]
      BY <1>0, <2>3, <2>4
    <3> QED
      BY <3>1, <3>2 DEF Synced
  <2>5. AckedSynced'
    BY <1>0, <2>1, <2>4, SyncedAt, AckedSyncedKept
  <2>6. cursor \in DOMAIN file /\ cursor \notin Dropped
    BY <1>0, <2>1 DEF AnsweredSynced, ProcessReads, Dropped
  <2>7. Synced(cursor)'
    BY <1>0, <2>1, <2>4, <2>6
  <2>8. header = "ok" /\ dheader' = "ok" /\ header' = "ok"
    BY <2>1 DEF AnsweredSynced
  <2>9. Len(disk') <= Len(file')
    BY <1>0, <2>1, <2>2
  <2> QED
    BY <2>1, <2>5, <2>7, <2>8, <2>9 DEF AnsweredSynced, AckedSynced
<1> QED
  BY <1>1, <1>2, <1>3

LEMMA ApplySynced ==
    ASSUME RotType, ProcessReads, AnsweredSynced, ApplyEntry \/ ApplyFails
    PROVE  AnsweredSynced'
<1>1. CASE ApplyFails
  <2>1. UNCHANGED storage /\ acked' = acked /\ pc = "logged" /\ pc' \in {"ready", "down"}
    BY <1>1 DEF ApplyFails, Exit
  <2> QED
    BY <2>1, StorageSynced
<1>2. CASE ApplyEntry
  <2>1. /\ pc = "logged" /\ pc' = "ready" /\ acked' \in {acked, acked \cup {cur}}
        /\ UNCHANGED storage
    BY <1>2 DEF ApplyEntry
  <2>2. \A k \in Nat : Synced(k) => Synced(k)'
    BY <2>1 DEF storage, Synced, Dropped
  <2>3. cur.id + 1 = cursor /\ Synced(cursor) /\ file[cursor] = Good(cur) /\ dheader = "ok"
        /\ cursor \in Nat
    BY <2>1 DEF ProcessReads, AnsweredSynced, RotType
  <2>4. ASSUME NEW e \in acked'
        PROVE  Synced(e.id + 1)' /\ (IsGood(file[e.id + 1]) => file[e.id + 1] = Good(e))
    <3>1. e \in acked \/ e = cur
      BY <2>1
    <3>2. e.id + 1 \in Nat
      BY <2>3, <3>1 DEF RotType, Entry
    <3>3. Synced(e.id + 1) /\ (IsGood(file[e.id + 1]) => file[e.id + 1] = Good(e))
      BY <2>3, <3>1 DEF AnsweredSynced
    <3> QED
      BY <2>2, <3>2, <3>3
  <2> QED
    BY <2>1, <2>3, <2>4 DEF AnsweredSynced, storage
<1> QED
  BY <1>1, <1>2

LEMMA EnvironmentSynced ==
    ASSUME RotType, RotType', AnsweredSynced,
           Crash \/ Tick \/ (Dropped = {} /\ PowerLoss) \/ PowerLossDropped
    PROVE  AnsweredSynced'
<1>1. CASE Crash
  BY <1>1, StorageSynced DEF Crash, Exit
<1>2. CASE Tick
  <2>1. UNCHANGED storage /\ acked' = acked /\ pc' = pc /\ cursor' = cursor
    BY <1>2 DEF Tick, memory
  <2>2. AckedSynced'
    BY <2>1, AckedSyncedKept DEF storage, Synced, Dropped
  <2> QED
    BY <2>1, <2>2 DEF AnsweredSynced, AckedSynced, storage, Synced, Dropped
<1>3. CASE (Dropped = {} /\ PowerLoss) \/ PowerLossDropped
  <2>1. /\ pc' = "down" /\ acked' = acked /\ disk' = file'
    BY <1>3 DEF PowerLoss, PowerLossDropped, Exit
  <2>2. /\ dheader = "ok" => header' = "ok" /\ dheader' = "ok"
        /\ dheader' = "ok" => header' = "ok"
    BY <1>3 DEF PowerLoss, PowerLossDropped, AnsweredSynced
  <2>3. Len(disk') <= Len(file')
    <3>1. Len(file') \in Nat
      BY LenProperties DEF RotType
    <3> QED
      BY <2>1, <3>1
  <2>4. AckedSynced'
    <3>1. CASE acked = {}
      BY <2>1, <3>1 DEF AckedSynced
    <3>2. CASE acked # {}
      <4>1. dheader = "ok" /\ Len(disk) <= Len(file)
        BY <3>2 DEF AnsweredSynced
      <4>2. \/ Dropped = {} /\ SlotsSurvive /\ disk' = file'
            \/ PowerLossDropped
        BY <1>3, <2>1, <4>1 DEF PowerLoss
      <4> QED
        BY <2>1, <4>1, <4>2, PowerLossSynced, AckedSyncedKept
    <3> QED
      BY <3>1, <3>2
  <2> QED
    BY <2>1, <2>2, <2>3, <2>4 DEF AnsweredSynced, AckedSynced
<1> QED
  BY <1>1, <1>2, <1>3

LEMMA DamageSynced ==
    ASSUME RotType, RotType', AnsweredSynced,
           (\E i \in DOMAIN file : Rot(i)) \/ (\E i \in Dropped : Evict(i))
    PROVE  AnsweredSynced'
<1>0. /\ Len(file) \in Nat /\ DOMAIN file = 1 .. Len(file)
      /\ Len(disk) \in Nat /\ DOMAIN disk = 1 .. Len(disk) /\ Len(disk) <= Len(file)
  BY Slots DEF AnsweredSynced
<1>1. ASSUME NEW i, NEW s \in Slot, pc = "down", i \in DOMAIN file,
             file' = [file EXCEPT ![i] = s],
             disk' = [j \in DOMAIN disk |-> IF j = i THEN s ELSE disk[j]],
             i \in Dropped \/ ~IsGood(s),
             UNCHANGED <<header, dheader, pc, acked>>
      PROVE  AnsweredSynced'
  <2>1. /\ DOMAIN file' = DOMAIN file /\ DOMAIN disk' = DOMAIN disk
        /\ Len(file') = Len(file) /\ Len(disk') = Len(disk)
    BY <1>0, <1>1
  <2>2. ASSUME NEW k \in Nat, k > 0, Synced(k)
        PROVE  Synced(k)' /\ (IsGood(file'[k]) => file'[k] = file[k])
    <3>1. /\ k \in DOMAIN disk /\ k \in DOMAIN file /\ k \notin Dropped
          /\ \A j \in 1 .. k : j \in DOMAIN disk /\ j \in DOMAIN file
      BY <1>0, <2>2, SyncedAt
    <3>2. ASSUME NEW j \in 1 .. k PROVE j \in Dropped' \/ disk'[j] = file'[j]
      <4>1. CASE j = i
        BY <1>1, <3>1, <4>1
      <4>2. CASE j # i
        <5>1. disk'[j] = disk[j] /\ file'[j] = file[j]
          BY <1>1, <3>1, <4>2
        <5>2. j \in Dropped => j \in Dropped'
          BY <2>1, <5>1 DEF Dropped
        <5> QED
          BY <2>2, <5>1, <5>2 DEF Synced
      <4> QED
        BY <4>1, <4>2
    <3>3. disk'[k] = file'[k]
      BY <1>1, <2>2, <3>1 DEF Synced
    <3>4. IsGood(file'[k]) => file'[k] = file[k]
      BY <1>1, <3>1
    <3>5. k <= Len(disk')
      BY <1>0, <2>1, <3>1
    <3> QED
      BY <3>2, <3>3, <3>4, <3>5 DEF Synced
  <2>3. AckedSynced'
    BY <1>1, <2>2, AckedSyncedKept
  <2> QED
    BY <1>1, <2>1, <2>3 DEF AnsweredSynced, AckedSynced
<1>2. ASSUME NEW i \in DOMAIN file, Rot(i)
      PROVE  AnsweredSynced'
  BY <1>1, <1>2, SlotStates DEF Rot
<1>3. ASSUME NEW i \in Dropped, Evict(i)
      PROVE  AnsweredSynced'
  <2>1. i \in DOMAIN disk /\ i \in DOMAIN file /\ disk[i].device \in Slot
    BY <1>0, Slots, SlotStates
  <2>2. disk' = [j \in DOMAIN disk |-> IF j = i THEN disk[i].device ELSE disk[j]]
    BY <1>3, <2>1 DEF Evict
  <2> QED
    BY <1>1, <1>3, <2>1, <2>2 DEF Evict
<1> QED
  BY <1>2, <1>3

LEMMA SyncedStays ==
    ASSUME ~TruncateOnFail, RotType, RotType', ProcessReads, AnsweredSynced, [RotNext]_vars
    PROVE  AnsweredSynced'
<1>1. CASE UNCHANGED vars
  <2>1. UNCHANGED storage /\ acked' = acked /\ pc' = pc /\ cursor' = cursor
    BY <1>1 DEF vars, storage
  <2>2. AckedSynced'
    BY <2>1, AckedSyncedKept DEF storage, Synced, Dropped
  <2> QED
    BY <2>1, <2>2 DEF AnsweredSynced, AckedSynced, storage, Synced, Dropped
<1> QED
  BY <1>1, RecoverySynced, RequestSynced, SyncSynced, ApplySynced, EnvironmentSynced,
     DamageSynced DEF RotNext

-----------------------------------------------------------------------------
(* The dates of the entries.                                               *)

LEMMA DatedKept ==
    ASSUME RotType, RotType', now' >= now,
           \A i \in DOMAIN file' : DatedBy(file'[i], now),
           \A i \in DOMAIN disk' : DatedBy(OnDevice(i)', now)
    PROVE  Dated'
<1>1. now \in Nat /\ now' \in Nat
  BY EngineAssumption DEF RotType
<1>2. \A s \in Slot : IsGood(s) => s.entry.timestamp \in Nat
  BY DEF Slot, Entry, IsGood, Bad, Torn
<1>3. \A s \in Slot : DatedBy(s, now) => DatedBy(s, now')
  BY <1>1, <1>2 DEF DatedBy
<1>4. \A i \in DOMAIN file' : file'[i] \in Slot
  BY ElementOfSeq, LenProperties DEF RotType
<1>5. \A i : OnDevice(i)' \in Slot
  <2>1. \A i \in DOMAIN disk' : disk'[i] \in Slot \cup LostSlot
    BY ElementOfSeq, LenProperties DEF RotType
  <2> QED
    BY <2>1, SlotStates DEF OnDevice, Dropped
<1> QED
  BY <1>3, <1>4, <1>5 DEF Dated

LEMMA DatedSame ==
    ASSUME RotType, RotType', Dated, now' >= now, file' = file, disk' = disk
    PROVE  Dated'
BY DatedKept DEF Dated, OnDevice, Dropped

LEMMA BadDates == DatedBy(Bad, now) /\ DatedBy(Torn, now)
BY DEF DatedBy, IsGood, Bad, Torn

\* A device with nothing dropped.
LEMMA PlainDevice ==
    ASSUME RotType', disk' = file'
    PROVE  \A i \in DOMAIN disk' : OnDevice(i)' = file'[i]
<1>1. \A i \in DOMAIN file' : file'[i] \in Slot
  BY ElementOfSeq, LenProperties DEF RotType
<1>2. \A i \in DOMAIN disk' : i \notin Dropped'
  BY <1>1, SlotStates DEF Dropped
<1> QED
  BY <1>2 DEF OnDevice

LEMMA DatedStays ==
    ASSUME RotType, RotType', ProcessReads, Dated, [RotNext]_vars
    PROVE  Dated'
<1>0. /\ Len(file) \in Nat /\ DOMAIN file = 1 .. Len(file)
      /\ Len(disk) \in Nat /\ DOMAIN disk = 1 .. Len(disk)
      /\ now \in Nat /\ now' \in Nat /\ cursor \in Nat /\ file \in Seq(Slot)
      /\ \A i : DatedBy(OnDevice(i), now)
  BY Slots, BadDates, EngineAssumption DEF RotType, Dated, OnDevice
<1>1. CASE file' = file /\ disk' = disk /\ now' >= now
  BY <1>1, DatedSame
<1>2. CASE ReplayTruncate
  <2>1. /\ file' = SubSeq(file, 1, cursor) /\ disk' = disk /\ now' = now
        /\ cursor < Len(file)
    BY <1>2 DEF ReplayTruncate, AtSlot
  <2>2. \A i \in DOMAIN file' : i \in DOMAIN file /\ file'[i] = file[i]
    BY <1>0, <2>1, SubSeqProperties
  <2> QED
    BY <1>0, <2>1, <2>2, DatedKept DEF Dated, OnDevice, Dropped
<1>3. ASSUME NEW slot \in Slot, pc = "ready", file' = SlotsAfterWrite(slot), disk' = disk,
             now' = now, DatedBy(slot, now)
      PROVE  Dated'
  <2>1. /\ DOMAIN file' = 1 .. Len(file) + 1 /\ file'[Len(file) + 1] = slot
        /\ \A i \in 1 .. Len(file) : file'[i] = file[i]
    BY <1>3, RotWrite
  <2>2. \A i \in DOMAIN file' : i \in DOMAIN file \/ i = Len(file) + 1
    BY <1>0, <2>1
  <2>3. \A i \in DOMAIN file' : DatedBy(file'[i], now)
    BY <1>0, <1>3, <2>1, <2>2 DEF Dated
  <2>4. \A i \in DOMAIN disk' : DatedBy(OnDevice(i)', now)
    BY <1>3 DEF Dated, OnDevice, Dropped
  <2> QED
    BY <1>0, <1>3, <2>3, <2>4, DatedKept
<1>4. ASSUME NEW id \in 0 .. MaxLog, NEW op \in Operations,
             WriteEntry(id, op) \/ WriteFails(id, op) \/ Reject(id, op)
      PROVE  Dated'
  <2>1. CASE WriteEntry(id, op)
    <3>1. Good(NewEntry(id, op)) \in Slot
      BY EngineAssumption DEF RotType, Entry, NewEntry, Good, Slot
    <3>2. DatedBy(Good(NewEntry(id, op)), now)
      BY <1>0 DEF DatedBy, Good, NewEntry
    <3> QED
      BY <1>3, <2>1, <3>1, <3>2 DEF WriteEntry, Request
  <2>2. CASE WriteFails(id, op)
    BY <1>3, <2>2, SlotStates, BadDates DEF WriteFails, Request
  <2>3. CASE Reject(id, op)
    BY <1>0, <1>1, <2>3 DEF Reject, vars
  <2> QED
    BY <1>4, <2>1, <2>2, <2>3
<1>5. CASE SyncDrops
  <2>1. /\ file' = file /\ now' = now
        /\ disk' = [i \in DOMAIN file |->
                        IF i \in Dirty THEN Lost(OnDevice(i)) ELSE disk[i]]
    BY <1>5 DEF SyncDrops
  <2>2. ASSUME NEW i \in DOMAIN disk' PROVE OnDevice(i)' = OnDevice(i)
    <3>1. CASE i \in Dirty
      BY <2>1, <3>1 DEF OnDevice, Dropped, Lost
    <3>2. CASE i \notin Dirty
      <4>1. i \in DOMAIN disk /\ disk'[i] = disk[i]
        BY <2>1, <3>2, Slots DEF Dirty
      <4> QED
        BY <4>1 DEF OnDevice, Dropped
    <3> QED
      BY <3>1, <3>2
  <2> QED
    BY <1>0, <2>1, <2>2, DatedKept DEF Dated
<1>6. CASE SyncLeavesDropped
  <2>1. /\ file' = file /\ now' = now
        /\ disk' = [i \in DOMAIN file |-> IF i \in Dropped THEN disk[i] ELSE file[i]]
    BY <1>6 DEF SyncLeavesDropped
  <2>2. ASSUME NEW i \in DOMAIN disk'
        PROVE  OnDevice(i)' = OnDevice(i) \/ (OnDevice(i)' = file[i] /\ i \in DOMAIN file)
    <3>1. CASE i \in Dropped
      BY <2>1, <3>1, Slots DEF OnDevice, Dropped
    <3>2. CASE i \notin Dropped
      <4>1. disk'[i] = file[i] /\ i \in DOMAIN file /\ i \notin Dropped'
        BY <2>1, <3>2, Slots DEF Dropped
      <4> QED
        BY <4>1 DEF OnDevice
    <3> QED
      BY <3>1, <3>2
  <2> QED
    BY <1>0, <2>1, <2>2, DatedKept DEF Dated
<1>7. CASE Dropped = {} /\ PowerLoss
  <2>1. now' = now /\ disk' = file' /\ (SlotsSurvive \/ file' = <<>>)
    BY <1>7 DEF PowerLoss
  <2>2. \A i \in DOMAIN file' : DatedBy(file'[i], now)
    <3>1. CASE file' = <<>>
      BY <3>1
    <3>2. CASE file' = disk
      BY <1>0, <1>7, <3>2 DEF OnDevice
    <3>3. ASSUME NEW n \in 0 .. Len(file),
                 NEW damaged \in SUBSET (Unstable \cap (1 .. n)), NEW end \in {Bad, Torn},
                 file' = [i \in 1 .. n |-> IF i \notin damaged THEN file[i]
                                           ELSE IF i = n THEN end ELSE Bad]
          PROVE  \A i \in DOMAIN file' : DatedBy(file'[i], now)
      BY <1>0, <3>3, BadDates DEF Dated
    <3> QED
      BY <2>1, <3>1, <3>2, <3>3 DEF SlotsSurvive
  <2> QED
    BY <1>0, <2>1, <2>2, PlainDevice, DatedKept
<1>8. CASE PowerLossDropped
  <2>1. PICK n \in Len(disk) .. Len(file), written \in SUBSET Dirty :
            file' = [i \in 1 .. n |-> IF i \in Dropped \/ i \in Dirty \ written
                                      THEN OnDevice(i) ELSE file[i]]
    BY <1>8 DEF PowerLossDropped
  <2>2. now' = now /\ disk' = file'
    BY <1>8 DEF PowerLossDropped
  <2>3. \A i \in DOMAIN file' : DatedBy(file'[i], now)
    BY <1>0, <2>1 DEF Dated
  <2> QED
    BY <1>0, <2>2, <2>3, PlainDevice, DatedKept
<1>9. ASSUME NEW i, NEW s \in Slot, DatedBy(s, now), now' = now,
             file' = [file EXCEPT ![i] = s],
             disk' = [j \in DOMAIN disk |-> IF j = i THEN s ELSE disk[j]]
      PROVE  Dated'
  <2>1. \A j \in DOMAIN file' : DatedBy(file'[j], now)
    BY <1>9 DEF Dated
  <2>2. ASSUME NEW j \in DOMAIN disk' PROVE DatedBy(OnDevice(j)', now)
    <3>1. CASE j = i
      BY <1>9, <3>1, SlotStates DEF OnDevice, Dropped
    <3>2. CASE j # i
      <4>1. OnDevice(j)' = OnDevice(j)
        BY <1>9, <2>2, <3>2 DEF OnDevice, Dropped
      <4> QED
        BY <1>0, <4>1
    <3> QED
      BY <3>1, <3>2
  <2> QED
    BY <1>0, <1>9, <2>1, <2>2, DatedKept
<1>10. ASSUME NEW i \in DOMAIN file, Rot(i)
       PROVE  Dated'
  BY <1>9, <1>10, SlotStates, BadDates DEF Rot
<1>11. ASSUME NEW i \in Dropped, Evict(i)
       PROVE  Dated'
  <2>1. disk[i].device \in Slot /\ DatedBy(disk[i].device, now)
    <3>1. disk[i].device = OnDevice(i)
      BY Slots DEF OnDevice
    <3> QED
      BY <1>0, <3>1, Slots
  <2>2. disk' = [j \in DOMAIN disk |-> IF j = i THEN disk[i].device ELSE disk[j]]
    BY <1>11 DEF Evict
  <2> QED
    BY <1>9, <1>11, <2>1, <2>2 DEF Evict
<1>12. RotNext =>
          \/ file' = file /\ disk' = disk /\ now' >= now
          \/ ReplayTruncate
          \/ \E id \in 0 .. MaxLog, op \in Operations :
                WriteEntry(id, op) \/ WriteFails(id, op) \/ Reject(id, op)
          \/ SyncDrops \/ SyncLeavesDropped \/ (Dropped = {} /\ PowerLoss)
          \/ PowerLossDropped
          \/ (\E i \in Dropped : Evict(i)) \/ (\E i \in DOMAIN file : Rot(i))
  <2>1. Recovery => ReplayTruncate \/ (file' = file /\ disk' = disk /\ now' = now)
    BY DEF Recovery, CreateFile, WriteHeader, OpenFile, OpenRefused, ReplayEntry,
       ReplayFails, ReplayRefused, ReplayEnd, storage, vars
  <2>2. Crash \/ Tick \/ SyncFails \/ ApplyEntry \/ ApplyFails
            => file' = file /\ disk' = disk /\ (now' = now \/ now' = now + 1)
    BY DEF Crash, Tick, SyncFails, ApplyEntry, ApplyFails, storage
  <2> QED
    BY <1>0, <2>1, <2>2 DEF RotNext
<1>13. CASE UNCHANGED vars
  BY <1>0, <1>1, <1>13 DEF vars
<1> QED
  BY <1>1, <1>2, <1>4, <1>5, <1>6, <1>7, <1>8, <1>10, <1>11, <1>12, <1>13

-----------------------------------------------------------------------------
(* The accounts and the entries that opened them.                          *)

LEMMA ApplyTimes ==
    ASSUME NEW a \in Seq(Account), NEW op \in Operation,
           NEW created \in Nat, NEW clock \in Nat, NEW i \in DOMAIN a
    PROVE  /\ Apply(a, op, created, clock)[i].created_at = a[i].created_at
           /\ Apply(a, op, created, clock)[i].updated_at \in {a[i].updated_at, clock}
<1>1. a[i] \in Account /\ i \in 1 .. Len(a)
  BY ElementOfSeq, LenProperties
<1>2. CASE op.type = "add_account"
  <2>1. Apply(a, op, created, clock)[i] = a[i]
    BY <1>1, <1>2, NewAccountType, AppendProperties DEF Apply
  <2> QED
    BY <2>1
<1>3. CASE op.type = "make_transfer"
  BY <1>1, <1>3 DEF Apply, StateMakeTransfer, Account
<1>4. CASE op.type = "update_account"
  BY <1>1, <1>4 DEF Apply, StateUpdateAccount, Account
<1> QED
  BY <1>2, <1>3, <1>4, OperationTypes

LEMMA NewAccountTimes ==
    ASSUME NEW a \in Seq(Account), NEW op \in Operation, op.type = "add_account",
           NEW created \in Nat, NEW clock \in Nat
    PROVE  /\ Apply(a, op, created, clock)[Len(a) + 1].created_at = created
           /\ Apply(a, op, created, clock)[Len(a) + 1].updated_at = created
BY NewAccountType, AppendProperties DEF Apply, NewAccount

\* The entries that open accounts, counted.
LEMMA CountOpenings ==
    ASSUME NEW n \in Nat
    PROVE  /\ Cardinality(Openings(n)) \in Nat
           /\ Cardinality(Openings(0)) = 0
           /\ Cardinality(Openings(n + 1)) = IF OpensAccount(n + 1)
                                             THEN Cardinality(Openings(n)) + 1
                                             ELSE Cardinality(Openings(n))
<1>1. IsFiniteSet(Openings(n)) /\ Cardinality(Openings(n)) \in Nat
  <2>1. Openings(n) \subseteq 1 .. n /\ IsFiniteSet(1 .. n)
    BY FS_Interval DEF Openings
  <2>2. IsFiniteSet(Openings(n))
    BY <2>1, FS_Subset
  <2> QED
    BY <2>2, FS_CardinalityType
<1>2. Openings(0) = {} /\ Cardinality({}) = 0
  BY FS_EmptySet DEF Openings
<1>3. CASE OpensAccount(n + 1)
  <2>1. Openings(n + 1) = Openings(n) \cup {n + 1} /\ n + 1 \notin Openings(n)
    BY <1>3 DEF Openings
  <2> QED
    BY <1>1, <1>2, <1>3, <2>1, FS_AddElement
<1>4. CASE ~OpensAccount(n + 1)
  <2>1. Openings(n + 1) = Openings(n)
    BY <1>4 DEF Openings
  <2> QED
    BY <1>1, <1>2, <1>4, <2>1
<1> QED
  BY <1>3, <1>4

\* The file as far as it was applied says the same of the accounts.
LEMMA SameOpenings ==
    ASSUME NEW n \in Nat, \A i \in 1 .. n : file'[i] = file[i], NEW k \in 0 .. n
    PROVE  Openings(k)' = Openings(k) /\ (k > 0 => (OpensAccount(k)' <=> OpensAccount(k)))
<1>1. \A j \in 1 .. k : j \in 1 .. n
  OBVIOUS
<1>2. k > 0 => k \in 1 .. n
  OBVIOUS
<1> QED
  BY <1>1, <1>2 DEF Openings, OpensAccount

\* A process that starts or ends has no account.
LEMMA FreshLists ==
    ASSUME FreshMemory, pc' \notin {"written", "logged"}
    PROVE  ListsOpened'
<1>1. accts' = <<>> /\ cursor' = 0 /\ Applied' = 0 /\ Len(accts') = 0 /\ DOMAIN accts' = {}
  BY DEF FreshMemory, Applied
<1>2. Openings(Applied)' = {}
  BY <1>1 DEF Openings
<1> QED
  BY <1>1, <1>2, FS_EmptySet DEF ListsOpened, OpenedWhenLogged

\* The accounts open keep their entry.
LEMMA ListsKept ==
    ASSUME RotType, RotType', ListsOpened, Applied \in Nat, Applied' = Applied,
           accts' = accts, now' >= now, \A i \in 1 .. Applied : file'[i] = file[i]
    PROVE  ListsOpened'
<1>1. PICK n \in Nat : n = Applied /\ n = Applied'
  OBVIOUS
<1>2. now \in Nat /\ now' \in Nat
  BY EngineAssumption DEF RotType
<1>3. OpenedWhenLogged'
  <2> SUFFICES ASSUME NEW i \in DOMAIN accts
               PROVE  /\ \E k \in 1 .. n :
                          /\ OpensAccount(k)' /\ Cardinality(Openings(k)') = i
                          /\ accts[i].created_at = file'[k].entry.timestamp
                      /\ accts[i].updated_at \in accts[i].created_at .. now'
    BY <1>1 DEF OpenedWhenLogged
  <2>1. PICK k \in 1 .. n : /\ OpensAccount(k) /\ Cardinality(Openings(k)) = i
                            /\ accts[i].created_at = file[k].entry.timestamp
    BY <1>1 DEF ListsOpened, OpenedWhenLogged
  <2>2. k \in 0 .. n /\ k > 0
    BY <1>1
  <2>3. OpensAccount(k)' /\ Openings(k)' = Openings(k) /\ file'[k] = file[k]
    BY <1>1, <2>1, <2>2, SameOpenings
  <2>4. accts[i].updated_at \in accts[i].created_at .. now
    BY DEF ListsOpened, OpenedWhenLogged
  <2>5. accts[i] \in Account
    BY ElementOfSeq, LenProperties DEF RotType
  <2>6. accts[i].updated_at \in accts[i].created_at .. now'
    BY <1>2, <2>4, <2>5 DEF Account
  <2> QED
    BY <2>1, <2>2, <2>3, <2>6
<1>4. Openings(n)' = Openings(n)
  BY <1>1, SameOpenings
<1>5. Openings(Applied)' = Openings(n)'
  BY <1>1 DEF Openings
<1> QED
  BY <1>1, <1>3, <1>4, <1>5 DEF ListsOpened

\* One entry more is applied.
LEMMA ListsApplied ==
    ASSUME RotType, RotType', ListsOpened, Applied \in Nat, Applied' = Applied + 1,
           file' = file, now' = now, NEW e \in Entry,
           file[Applied + 1].entry = e, e.timestamp <= now,
           accts' = Apply(accts, e.op, e.timestamp, now)
    PROVE  ListsOpened'
<1>1. PICK n \in Nat : n = Applied /\ n + 1 = Applied' /\ n + 1 \in Nat
  OBVIOUS
<1>2. /\ now \in Nat /\ e.op \in Operation /\ e.timestamp \in Nat
      /\ accts \in Seq(Account) /\ Len(accts) \in Nat /\ DOMAIN accts = 1 .. Len(accts)
  BY EngineAssumption, LenProperties DEF RotType, Entry
<1>3. /\ accts' \in Seq(Account) /\ DOMAIN accts' = 1 .. Len(accts')
      /\ Len(accts') = IF e.op.type = "add_account" THEN Len(accts) + 1 ELSE Len(accts)
  BY <1>2, ApplyType, LenProperties DEF RotType
<1>4. OpensAccount(n + 1) <=> e.op.type = "add_account"
  BY <1>1 DEF OpensAccount
<1>5. \A k \in 0 .. n + 1 : Openings(k)' = Openings(k)
  BY DEF Openings, OpensAccount
<1>6. /\ Cardinality(Openings(n)) \in Nat
      /\ Cardinality(Openings(n + 1)) = IF e.op.type = "add_account"
                                        THEN Cardinality(Openings(n)) + 1
                                        ELSE Cardinality(Openings(n))
  BY <1>1, <1>4, CountOpenings
<1>7. Openings(Applied)' = Openings(n + 1)
  BY <1>1 DEF Openings, OpensAccount
<1>8. Len(accts) = Cardinality(Openings(n))
  BY <1>1 DEF ListsOpened
<1>9. ASSUME NEW i \in DOMAIN accts'
      PROVE  /\ \E k \in 1 .. n + 1 :
                  /\ OpensAccount(k) /\ Cardinality(Openings(k)) = i
                  /\ accts'[i].created_at = file[k].entry.timestamp
             /\ accts'[i].updated_at \in accts'[i].created_at .. now
  <2>1. CASE i \in DOMAIN accts
    <3>1. PICK k \in 1 .. n : /\ OpensAccount(k) /\ Cardinality(Openings(k)) = i
                              /\ accts[i].created_at = file[k].entry.timestamp
      BY <1>1, <2>1 DEF ListsOpened, OpenedWhenLogged
    <3>2. k \in 1 .. n + 1
      BY <1>1
    <3>3. accts'[i].created_at = accts[i].created_at
          /\ accts'[i].updated_at \in {accts[i].updated_at, now}
      BY <1>2, <2>1, ApplyTimes
    <3>4. accts[i].updated_at \in accts[i].created_at .. now /\ accts[i] \in Account
      BY <1>2, <2>1, ElementOfSeq DEF ListsOpened, OpenedWhenLogged
    <3>5. accts'[i].updated_at \in accts'[i].created_at .. now
      BY <1>2, <3>3, <3>4 DEF Account
    <3> QED
      BY <3>1, <3>2, <3>3, <3>5
  <2>2. CASE i \notin DOMAIN accts
    <3>1. e.op.type = "add_account" /\ i = Len(accts) + 1
      BY <1>2, <1>3, <2>2
    <3>2. Len(accts) = Cardinality(Openings(n))
      BY <1>8, <3>1
    <3>3. OpensAccount(n + 1) /\ Cardinality(Openings(n + 1)) = i
      BY <1>4, <1>6, <3>1, <3>2
    <3>4. accts'[i].created_at = e.timestamp /\ accts'[i].updated_at = e.timestamp
      BY <1>2, <3>1, NewAccountTimes
    <3>5. n + 1 \in 1 .. n + 1 /\ file[n + 1].entry = e
      BY <1>1
    <3>6. accts'[i].updated_at \in accts'[i].created_at .. now
      BY <1>2, <3>4
    <3> QED
      BY <3>3, <3>4, <3>5, <3>6
  <2> QED
    BY <2>1, <2>2
<1>10. OpenedWhenLogged'
  <2>1. \A k \in 1 .. n + 1 : OpensAccount(k)' <=> OpensAccount(k)
    BY DEF OpensAccount
  <2>2. \A k \in 1 .. n + 1 : Openings(k)' = Openings(k)
    BY <1>5
  <2> QED
    BY <1>1, <1>9, <2>1, <2>2 DEF OpenedWhenLogged
<1>11. Len(accts') = Cardinality(Openings(Applied)')
  BY <1>3, <1>6, <1>7, <1>8
<1> QED
  BY <1>10, <1>11 DEF ListsOpened

LEMMA ListsStay ==
    ASSUME RotType, RotType', RoomInList, ProcessReads, ProcessReads', Dated, ListsOpened,
           [RotNext]_vars
    PROVE  ListsOpened'
<1>0. /\ Len(file) \in Nat /\ DOMAIN file = 1 .. Len(file) /\ cursor \in Nat
      /\ now \in Nat /\ file \in Seq(Slot) /\ Applied \in Nat /\ Applied <= Len(file)
      /\ pc \in Pcs
  <2>1. Len(file) \in Nat /\ DOMAIN file = 1 .. Len(file) /\ cursor \in Nat /\ now \in Nat
        /\ file \in Seq(Slot) /\ pc \in Pcs
    BY Slots, EngineAssumption DEF RotType
  <2>2. Applied \in Nat /\ Applied <= Len(file)
    <3>1. CASE pc \in {"written", "logged"}
      <4>1. cursor = Len(file) /\ cursor > 0 /\ Applied = cursor - 1
        BY <3>1 DEF Applied, ProcessReads
      <4> QED
        BY <2>1, <4>1
    <3>2. CASE pc \notin {"written", "logged"}
      <4>1. Applied = cursor
        BY <3>2 DEF Applied
      <4>2. CASE pc \in {"down", "creating"}
        <5>1. cursor = 0
          BY <4>2 DEF ProcessReads
        <5> QED
          BY <2>1, <4>1, <5>1
      <4>3. CASE pc \in {"replaying", "ready"}
        <5>1. cursor <= Len(file)
          BY <4>3 DEF ProcessReads, ReadableTo
        <5> QED
          BY <2>1, <4>1, <5>1
      <4> QED
        BY <2>1, <3>2, <4>2, <4>3 DEF Pcs
    <3> QED
      BY <3>1, <3>2
  <2> QED
    BY <2>1, <2>2
<1>1. CASE FreshMemory /\ pc' \notin {"written", "logged"}
  BY <1>1, FreshLists
<1>2. CASE /\ accts' = accts /\ capacity' = capacity /\ Applied' = Applied /\ now' >= now
           /\ \A i \in 1 .. Applied : file'[i] = file[i]
  BY <1>0, <1>2, ListsKept
<1>3. CASE ReplayEntry
  <2>1. /\ pc = "replaying" /\ pc' = "replaying" /\ cursor < Len(file) /\ file' = file
        /\ IsGood(file[cursor + 1]) /\ cursor' = cursor + 1 /\ now' = now
        /\ accts' = Apply(accts, NextSlot.entry.op, NextSlot.entry.timestamp, now)
    BY <1>3 DEF ReplayEntry, AtSlot, Replaying, NextSlot, storage
  <2>2. NextSlot.entry \in Entry /\ NextSlot.entry = file[cursor + 1].entry
    BY <1>3, RotNextSlotType DEF ReplayEntry, NextSlot
  <2>3. cursor + 1 \in DOMAIN file
    BY <1>0, <2>1
  <2>4. NextSlot.entry.timestamp <= now
    BY <2>1, <2>2, <2>3 DEF Dated, DatedBy
  <2>5. Applied = cursor /\ Applied' = Applied + 1
    BY <2>1 DEF Applied
  <2> QED
    BY <1>0, <2>1, <2>2, <2>4, <2>5, ListsApplied
<1>4. CASE ApplyEntry
  <2>1. /\ pc = "logged" /\ pc' = "ready" /\ file' = file /\ cursor' = cursor /\ now' = now
        /\ accts' = Apply(accts, cur.op, cur.timestamp, now)
        /\ cur \in Entry
    BY <1>4 DEF ApplyEntry, Unapplied, storage, RotType
  <2>2. /\ cursor = Len(file) /\ cursor > 0 /\ file[cursor] = Good(cur)
    BY <2>1 DEF ProcessReads
  <2>3. /\ Applied = cursor - 1 /\ Applied' = Applied + 1 /\ Applied + 1 = cursor
    BY <1>0, <2>1 DEF Applied
  <2>4. cursor \in DOMAIN file
    BY <1>0, <2>2
  <2>5. file[Applied + 1].entry = cur
    BY <2>2, <2>3 DEF Good
  <2>6. cur.timestamp <= now
    BY <2>2, <2>4 DEF Dated, DatedBy, Good, IsGood
  <2> QED
    BY <1>0, <2>1, <2>3, <2>5, <2>6, ListsApplied
<1>5. CASE ApplyFails
  <2>1. capacity \in Nat /\ U64Max \in Nat
    BY WidthAssumption DEF RotType, U64
  <2>2. ~CapacityOverflows(accts, capacity)
    BY <2>1, TwiceTheBytes DEF RoomInList, CapacityOverflows
  <2> QED
    BY <1>1, <1>5, <2>2 DEF ApplyFails, Exit
<1>6. CASE ReplayTruncate
  <2>1. /\ pc = "replaying" /\ pc' = "ready" /\ cursor < Len(file) /\ accts' = accts
        /\ capacity' = capacity /\ now' = now /\ file' = SubSeq(file, 1, cursor)
        /\ cursor' = Len(file')
    BY <1>6 DEF ReplayTruncate, AtSlot, Replaying, SeekEnd
  <2>2. Len(file') = cursor /\ \A i \in 1 .. cursor : file'[i] = file[i]
    BY <1>0, <2>1, SubSeqProperties
  <2>3. Applied = cursor /\ Applied' = Applied
    BY <2>1, <2>2 DEF Applied
  <2> QED
    BY <1>0, <1>2, <2>1, <2>2, <2>3
<1>7. CASE ReplayEnd
  <2>1. /\ pc = "replaying" /\ pc' = "ready" /\ cursor >= Len(file) /\ accts' = accts
        /\ capacity' = capacity /\ now' = now /\ file' = file /\ cursor' = Len(file)
    BY <1>7 DEF ReplayEnd, Replaying, SeekEnd, storage
  <2>2. Applied = cursor
    BY <2>1 DEF Applied
  <2>3. cursor = Len(file)
    <3>1. cursor \in Nat /\ Len(file) \in Nat
      BY <1>0
    <3>2. cursor <= Len(file) /\ cursor >= Len(file)
      BY <1>0, <2>1, <2>2
    <3> QED
      BY <3>1, <3>2
  <2>4. Applied' = Applied
    BY <2>1, <2>2, <2>3 DEF Applied
  <2> QED
    BY <1>0, <1>2, <2>1, <2>4
<1>8. ASSUME NEW id \in 0 .. MaxLog, NEW op \in Operations, WriteEntry(id, op)
      PROVE  ListsOpened'
  <2>1. /\ pc = "ready" /\ pc' = "written" /\ cursor' = cursor + 1 /\ accts' = accts
        /\ capacity' = capacity /\ now' = now
        /\ file' = SlotsAfterWrite(Good(NewEntry(id, op)))
    BY <1>8 DEF WriteEntry, Request
  <2>2. Good(NewEntry(id, op)) \in Slot
    BY EngineAssumption DEF RotType, Entry, NewEntry, Good, Slot
  <2>3. Applied = cursor /\ Applied' = cursor /\ cursor = Len(file)
        /\ \A i \in 1 .. Len(file) : file'[i] = file[i]
    <3>1. cursor = Len(file) /\ \A i \in 1 .. Len(file) : file'[i] = file[i]
      BY <2>1, <2>2, RotWrite
    <3>2. Applied = cursor /\ Applied' = cursor
      BY <1>0, <2>1 DEF Applied
    <3> QED
      BY <3>1, <3>2
  <2> QED
    BY <1>0, <1>2, <2>1, <2>3
<1>9. CASE WriteHeader \/ SyncLeavesDropped \/ Tick \/ OpenRefused \/ UNCHANGED vars
  <2>1. /\ accts' = accts /\ capacity' = capacity /\ file' = file /\ cursor' = cursor
        /\ now' >= now
    BY <1>0, <1>9 DEF WriteHeader, SyncLeavesDropped, Tick, OpenRefused, storage, memory, vars
  <2>2. Applied' = Applied
    BY <1>9, <2>1 DEF WriteHeader, SyncLeavesDropped, Tick, OpenRefused, vars, Applied
  <2> QED
    BY <1>2, <2>1, <2>2
<1>10. CASE (\E i \in Dropped : Evict(i)) \/ (\E i \in DOMAIN file : Rot(i))
  <2>1. /\ pc = "down" /\ pc' = "down" /\ accts' = accts /\ capacity' = capacity
        /\ cursor' = cursor /\ now' = now
    BY <1>10 DEF Evict, Rot, memory
  <2>2. Applied = 0 /\ Applied' = Applied
    BY <2>1 DEF Applied, ProcessReads
  <2>3. \A i \in 1 .. Applied : file'[i] = file[i]
    BY <2>2
  <2> QED
    BY <1>0, <1>2, <2>1, <2>2, <2>3
<1>11. CASE CreateFile \/ OpenFile \/ ReplayFails \/ ReplayRefused \/ Crash
            \/ SyncFails \/ SyncDrops \/ PowerLoss \/ PowerLossDropped
  BY <1>1, <1>11 DEF CreateFile, OpenFile, ReplayFails, ReplayRefused, Crash, SyncFails,
     SyncDrops, PowerLoss, PowerLossDropped, Exit
<1>12. ASSUME NEW id \in 0 .. MaxLog, NEW op \in Operations,
              WriteFails(id, op) \/ Reject(id, op)
       PROVE  ListsOpened'
  BY <1>1, <1>9, <1>12 DEF WriteFails, Reject, Exit
<1> QED
  BY <1>3, <1>4, <1>5, <1>6, <1>7, <1>8, <1>9, <1>10, <1>11, <1>12 DEF RotNext, Recovery

-----------------------------------------------------------------------------
(* The theorems.                                                           *)

RotIInv == RotType /\ RoomInList /\ ProcessReads /\ Dated /\ ListsOpened

LEMMA RotInit == Init => RotIInv /\ AnsweredSynced
<1> SUFFICES ASSUME Init PROVE RotIInv /\ AnsweredSynced
  OBVIOUS
<1> USE DEF Init
<1>1. RotType
  BY FirstList, WidthAssumption, EngineAssumption DEF RotType, Headers, Pcs, U64
<1>2. /\ Len(file) = 0 /\ Len(disk) = 0 /\ Len(accts) = 0 /\ Applied = 0
      /\ DOMAIN file = {} /\ DOMAIN disk = {} /\ DOMAIN accts = {}
  BY DEF Applied
<1>3. RoomInList /\ ProcessReads /\ Dated
  BY <1>2, MemoryAssumption DEF RoomInList, ProcessReads, Dated
<1>4. Openings(Applied) = {}
  BY <1>2 DEF Openings
<1>5. ListsOpened
  BY <1>2, <1>4, FS_EmptySet DEF ListsOpened, OpenedWhenLogged
<1>6. AnsweredSynced
  BY <1>2 DEF AnsweredSynced
<1> QED
  BY <1>1, <1>3, <1>5, <1>6 DEF RotIInv

LEMMA RotInduction == RotSpec => []RotIInv
<1>1. Init => RotIInv
  BY RotInit
<1>2. RotIInv /\ [RotNext]_vars => RotIInv'
  <2> SUFFICES ASSUME RotIInv, [RotNext]_vars PROVE RotIInv'
    OBVIOUS
  <2>1. RotType'
    BY RotTyping DEF RotIInv
  <2>2. ProcessReads'
    BY ReadsKept DEF RotIInv
  <2> QED
    BY <2>1, <2>2, RoomKept, DatedStays, ListsStay DEF RotIInv
<1> QED
  BY <1>1, <1>2, PTL DEF RotSpec

\* The list is never written past its allocation, when it is served and when a start
\* reads it back from its smallest capacity, whatever the device did to the log: memory
\* runs out before the product of account.c:61 wraps, and so does it before an entry
\* that is logged could be rejected for the capacity (account.c:50-71).  It rests on
\* what an allocator can give (MemoryAssumption), as the code does.
THEOREM ListStaysWithin == RotSpec => []WithinCapacity
<1>1. RotIInv => WithinCapacity
  <2> SUFFICES ASSUME RotIInv PROVE WithinCapacity
    OBVIOUS
  <2>1. /\ RoomInList /\ capacity \in Nat /\ Len(accts) \in Nat
        /\ U64Max \in Nat /\ AllocMax \in Nat /\ AllocMax <= U64Max
    BY WidthAssumption, MemoryAssumption, LenProperties DEF RotIInv, RotType, U64
  <2>2. PICK m \in Nat, n \in Nat : /\ m = AccountSize * Len(accts) /\ n = AccountSize * capacity
                                   /\ m <= n /\ n <= AllocMax
    BY <2>1, SizesGrow DEF RoomInList
  <2>3. Bytes(capacity) = n
    BY <2>1, <2>2, BytesOf
  <2>4. ~CapacityOverflows(accts, capacity)
    BY <2>1, TwiceTheBytes DEF RoomInList, CapacityOverflows
  <2> QED
    BY <2>2, <2>3, <2>4 DEF WithinCapacity, Unapplied, HasRoom
<1> QED
  BY <1>1, RotInduction, PTL

\* Every account is the one its entry opened, in the order of the log and opened at the
\* time the log has, however often and late it is read back (wal.c:178-190).  The time of
\* its last change is not the log's (state.c:45): of it only the bounds hold, never before
\* the account was opened nor later than now.
THEOREM AccountsOpenAsLogged == RotSpec => []OpenedWhenLogged
<1>1. RotIInv => OpenedWhenLogged
  BY DEF RotIInv, ListsOpened
<1> QED
  BY <1>1, RotInduction, PTL

LEMMA SyncedInduction ==
    ASSUME ~TruncateOnFail
    PROVE  RotSpec => []AnsweredSynced
<1>1. Init => AnsweredSynced
  BY RotInit
<1>2. RotIInv /\ RotIInv' /\ AnsweredSynced /\ [RotNext]_vars => AnsweredSynced'
  BY SyncedStays DEF RotIInv
<1> QED
  BY <1>1, <1>2, RotInduction, PTL DEF RotSpec

\* Without --truncate-on-fail a process that comes to serve has every entry that was
\* ever answered, although the device damages slots at rest and the kernel drops what a
\* failed fsync could not write: a start that would miss one meets the damage before
\* and is refused (wal.c:153-171, 266-280).
THEOREM NothingAnsweredIsSkipped ==
    ASSUME ~TruncateOnFail
    PROVE  RotSpec => StartsWhole
<1> DEFINE Starts == pc = "replaying" /\ pc' = "ready"
              => \A e \in acked : e.id + 1 \in DOMAIN file' /\ file'[e.id + 1] = Good(e)
<1>1. RotIInv /\ AnsweredSynced /\ [RotNext]_vars => [Starts]_vars
  <2> SUFFICES ASSUME RotIInv, AnsweredSynced, RotNext, pc = "replaying", pc' = "ready",
                      NEW e \in acked
               PROVE  e.id + 1 \in DOMAIN file' /\ file'[e.id + 1] = Good(e)
    OBVIOUS
  <2>1. RotType /\ e.id + 1 \in Nat /\ e.id + 1 > 0
    BY DEF RotIInv, RotType, Entry
  <2>2. ReplayEnd
    BY DEF RotNext, Recovery, CreateFile, WriteHeader, OpenFile, OpenRefused, ReplayEntry,
       ReplayFails, ReplayTruncate, ReplayRefused, Crash, Tick, SyncFails, ApplyEntry,
       ApplyFails, WriteEntry, WriteFails, Reject, Request, SyncDrops, SyncLeavesDropped,
       PowerLoss, PowerLossDropped, Evict, Rot, Exit, vars
  <2>3. /\ file' = file /\ cursor >= Len(file) /\ cursor \in Nat
        /\ Len(file) \in Nat /\ DOMAIN file = 1 .. Len(file)
    BY <2>1, <2>2, Slots DEF ReplayEnd, storage, RotType
  <2>4. \A i \in DOMAIN file : IsGood(file[i])
    BY <2>3 DEF RotIInv, ProcessReads, ReadableTo
  <2>5. /\ Synced(e.id + 1) /\ Len(disk) <= Len(file)
        /\ IsGood(file[e.id + 1]) => file[e.id + 1] = Good(e)
    BY DEF AnsweredSynced
  <2>6. e.id + 1 \in DOMAIN file
    BY <2>1, <2>5, SyncedAt
  <2> QED
    BY <2>3, <2>4, <2>5, <2>6
<1> QED
  BY <1>1, RotInduction, SyncedInduction, PTL DEF RotSpec, StartsWhole

=============================================================================
