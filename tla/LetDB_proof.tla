----------------------------- MODULE LetDB_proof -----------------------------
(***************************************************************************)
(* Theorems of LetDB, for every set of operations, width and bound: what a *)
(* process serves is a whole file whose entries are in sequence, and what  *)
(* was answered is never lost, through crashes, failed writes and syncs,   *)
(* power losses and recoveries; the accounts served are those the log      *)
(* stands for, every entry a start can reach passes the guard where it     *)
(* stands, and the engine implements the durable ledger.                   *)
(***************************************************************************)
EXTENDS LetDBRefinement, LedgerLemmas

-----------------------------------------------------------------------------
(* Typing.                                                                 *)

LEMMA WriteType ==
    ASSUME NEW slot \in Slot, file \in Seq(Slot), cursor \in Nat
    PROVE  SlotsAfterWrite(slot) \in Seq(Slot)
<1> DEFINE n == IF cursor < Len(file) THEN Len(file) ELSE cursor + 1
           t == SlotsAfterWrite(slot)
<1>1. n \in Nat
  BY LenProperties
<1>2. Bad \in Slot
  BY DEF Slot
<1>3. \A i \in 1 .. Len(file) : file[i] \in Slot
  BY ElementOfSeq
<1>4. t \in [1 .. n -> Slot]
  BY <1>2, <1>3 DEF SlotsAfterWrite
<1> QED
  BY <1>1, <1>4

LEMMA EntryType ==
    ASSUME TypeOK, NEW id \in 0 .. MaxLog, NEW op \in Operations
    PROVE  /\ NewEntry(id, op) \in Entry
           /\ Good(NewEntry(id, op)) \in Slot
           /\ NewEntry(id, op) # NoEntry
<1>1. NewEntry(id, op) \in Entry
  BY EngineAssumption DEF TypeOK, Entry, NewEntry
<1>2. NewEntry(id, op).id = id /\ id # -1 /\ NoEntry.id = -1
  BY EngineAssumption DEF NewEntry, NoEntry
<1> QED
  BY <1>1, <1>2 DEF Good, Slot

LEMMA NextSlotType ==
    ASSUME TypeOK, AtSlot, IsGood(NextSlot)
    PROVE  /\ NextSlot.entry \in Entry
           /\ NextSlot.entry.op \in Operation
           /\ NextSlot.entry.timestamp \in Nat
<1>1. NextSlot \in Slot
  BY ElementOfSeq DEF TypeOK, AtSlot, NextSlot
<1>2. NextSlot.entry \in Entry
  BY <1>1 DEF Slot, IsGood, Bad, Torn
<1> QED
  BY <1>2 DEF Entry

LEMMA CapacityType ==
    ASSUME TypeOK, HasRoom(accts, capacity)
    PROVE  CapacityAfterAdd(accts, capacity) \in U64
BY WidthAssumption DEF TypeOK, CapacityAfterAdd, HasRoom, CapacityOverflows, NeedsGrowth, U64

\* More accounts need more bytes, each at least one.
LEMMA SizesGrow ==
    ASSUME NEW a \in Nat, NEW b \in Nat, a <= b
    PROVE  AccountSize * a \in Nat /\ AccountSize * a <= AccountSize * b /\ a <= AccountSize * a
<1>1. PICK s \in Nat, d \in Nat, r \in Nat : s = AccountSize /\ b = a + d /\ s = r + 1
  <2>1. AccountSize - 1 \in Nat /\ b - a \in Nat /\ AccountSize \in Nat
    BY MemoryAssumption
  <2> QED
    BY <2>1
<1>2. s * (a + d) = s * a + s * d /\ s * a = r * a + a
  BY <1>1
<1>3. s * a \in Nat /\ s * d \in Nat /\ r * a \in Nat
  OBVIOUS
<1> QED
  BY <1>1, <1>2, <1>3

\* A list that memory can hold is asked for by its size.
LEMMA BytesOf ==
    ASSUME NEW cap \in Nat, AccountSize * cap <= U64Max
    PROVE  Bytes(cap) = AccountSize * cap
BY SizesGrow, WrapType DEF Bytes

\* The smallest list can be had, and its capacity has its width.
LEMMA FirstList == CapDefault \in U64
<1>1. CapDefault \in Nat /\ AllocMax \in Nat /\ AllocMax <= U64Max /\ U64Max \in Nat
  BY MemoryAssumption, WidthAssumption
<1>2. CapDefault <= AllocMax
  BY <1>1, MemoryAssumption, SizesGrow
<1> QED
  BY <1>1, <1>2 DEF U64

LEMMA FreshType ==
    FreshMemory => /\ accts' \in Seq(Account) /\ capacity' \in U64
                   /\ transactions' \in Nat /\ cursor' \in Nat
                   /\ cur' = NoEntry
BY FirstList DEF FreshMemory

LEMMA SurvivorsType ==
    ASSUME TypeOK, SlotsSurvive
    PROVE  file' \in Seq(Slot)
<1>1. CASE file' = disk
  BY <1>1 DEF TypeOK
<1>2. ASSUME NEW n \in 0 .. Len(file),
             NEW damaged \in SUBSET (Unstable \cap (1 .. n)), NEW end \in {Bad, Torn},
             file' = [i \in 1 .. n |-> IF i \notin damaged THEN file[i]
                                       ELSE IF i = n THEN end ELSE Bad]
      PROVE  file' \in Seq(Slot)
  <2>1. \A i \in 1 .. n : file[i] \in Slot
    BY ElementOfSeq, LenProperties DEF TypeOK
  <2>2. Bad \in Slot /\ end \in Slot
    BY DEF Slot
  <2>3. file' \in [1 .. n -> Slot]
    BY <1>2, <2>1, <2>2
  <2>4. n \in Nat
    BY LenProperties DEF TypeOK
  <2> QED
    BY <2>3, <2>4
<1> QED
  BY <1>1, <1>2 DEF SlotsSurvive

LEMMA RecoveryTyping == TypeOK /\ Recovery => TypeOK'
<1> SUFFICES ASSUME TypeOK, Recovery PROVE TypeOK'
  OBVIOUS
<1> USE DEF TypeOK, Headers, Pcs, storage, memory
<1>1. CASE CreateFile
  BY <1>1, FreshType DEF CreateFile
<1>2. CASE WriteHeader
  BY <1>2 DEF WriteHeader
<1>3. CASE OpenFile
  BY <1>3, FreshType DEF OpenFile
<1>4. CASE OpenRefused
  BY <1>4 DEF OpenRefused, vars
<1>5. CASE ReplayEntry
  <2>1. AtSlot /\ IsGood(NextSlot)
    BY <1>5 DEF ReplayEntry
  <2>2. accts' \in Seq(Account)
    BY <1>5, <2>1, NextSlotType, ApplyType, EngineAssumption DEF ReplayEntry
  <2>3. capacity' \in U64
    BY <1>5, CapacityType DEF ReplayEntry
  <2>4. transactions' \in Nat /\ cursor' \in Nat
    BY <1>5 DEF ReplayEntry
  <2> QED
    BY <1>5, <2>2, <2>3, <2>4 DEF ReplayEntry
<1>6. CASE ReplayFails
  BY <1>6, FreshType DEF ReplayFails, Exit
<1>7. CASE ReplayTruncate
  <2>1. file' \in Seq(Slot)
    BY <1>7, SubSeqProperties, LenProperties DEF ReplayTruncate, AtSlot
  <2>2. cursor' \in Nat
    BY <1>7, <2>1, LenProperties DEF ReplayTruncate, SeekEnd
  <2> QED
    BY <1>7, <2>1, <2>2 DEF ReplayTruncate, AtSlot, Replaying
<1>8. CASE ReplayRefused
  BY <1>8, FreshType DEF ReplayRefused, Exit
<1>9. CASE ReplayEnd
  <2>1. cursor' \in Nat
    BY <1>9, LenProperties DEF ReplayEnd, SeekEnd
  <2> QED
    BY <1>9, <2>1 DEF ReplayEnd, Replaying
<1> QED
  BY <1>1, <1>2, <1>3, <1>4, <1>5, <1>6, <1>7, <1>8, <1>9 DEF Recovery

LEMMA ServiceTyping == TypeOK /\ Service => TypeOK'
<1> SUFFICES ASSUME TypeOK, Service PROVE TypeOK'
  OBVIOUS
<1> USE DEF TypeOK, Headers, Pcs, storage
<1>1. ASSUME NEW id \in 0 .. MaxLog, NEW op \in Operations, WriteEntry(id, op)
      PROVE  TypeOK'
  BY <1>1, EntryType, WriteType DEF WriteEntry, Request
<1>2. ASSUME NEW id \in 0 .. MaxLog, NEW op \in Operations, WriteFails(id, op)
      PROVE  TypeOK'
  <2>1. file' \in Seq(Slot)
    BY <1>2, WriteType DEF WriteFails, Slot
  <2>2. faults' \in 0 .. MaxFaults
    BY <1>2, EngineAssumption DEF WriteFails, Fault
  <2> QED
    BY <1>2, <2>1, <2>2, FreshType DEF WriteFails, Exit
<1>3. ASSUME NEW id \in 0 .. MaxLog, NEW op \in Operations, Reject(id, op)
      PROVE  TypeOK'
  BY <1>3 DEF Reject, vars
<1>4. CASE SyncEntry
  BY <1>4 DEF SyncEntry
<1>5. CASE SyncFails
  BY <1>5, FreshType, EngineAssumption DEF SyncFails, Fault, Exit
<1>6. CASE ApplyEntry
  <2>1. cur \in Entry
    BY <1>6 DEF ApplyEntry
  <2>2. cur.op \in Operation /\ cur.timestamp \in Nat
    BY <2>1 DEF Entry
  <2>3. accts' \in Seq(Account)
    BY <1>6, <2>2, ApplyType, EngineAssumption DEF ApplyEntry
  <2>4. capacity' \in U64
    BY <1>6, CapacityType DEF ApplyEntry, Unapplied
  <2>5. acked' \in SUBSET Entry
    BY <1>6, <2>1 DEF ApplyEntry
  <2> QED
    BY <1>6, <2>3, <2>4, <2>5 DEF ApplyEntry
<1>7. CASE ApplyFails
  BY <1>7, FreshType DEF ApplyFails, Exit
<1> QED
  BY <1>1, <1>2, <1>3, <1>4, <1>5, <1>6, <1>7 DEF Service

LEMMA EnvironmentTyping == TypeOK /\ Environment => TypeOK'
<1> SUFFICES ASSUME TypeOK, Environment PROVE TypeOK'
  OBVIOUS
<1> USE DEF Headers, Pcs, storage, memory
<1>1. CASE Crash
  BY <1>1, FreshType, EngineAssumption DEF Crash, Fault, Exit, TypeOK
<1>2. CASE PowerLoss
  <2>1. header' \in Headers
    BY <1>2 DEF PowerLoss, TypeOK
  <2>2. file' \in Seq(Slot)
    <3>1. SlotsSurvive \/ file' = <<>>
      BY <1>2 DEF PowerLoss
    <3>2. SlotsSurvive => file' \in Seq(Slot)
      BY SurvivorsType
    <3> QED
      BY <3>1, <3>2, EmptySeq
  <2>3. faults' \in 0 .. MaxFaults
    BY <1>2, EngineAssumption DEF PowerLoss, Fault, TypeOK
  <2> QED
    BY <1>2, <2>1, <2>2, <2>3, FreshType DEF PowerLoss, Exit, TypeOK
<1>3. CASE Tick
  BY <1>3, EngineAssumption DEF Tick, TypeOK
<1> QED
  BY <1>1, <1>2, <1>3 DEF Environment

\* The engine's state keeps its shape, and an entry is in flight exactly between
\* its write and its application.
THEOREM TypeCorrect == Spec => []TypeOK
<1>1. Init => TypeOK
  BY FirstList, WidthAssumption, EngineAssumption
    DEF Init, TypeOK, Headers, Pcs, U64
<1>2. TypeOK /\ [Next]_vars => TypeOK'
  <2>1. TypeOK /\ UNCHANGED vars => TypeOK'
    BY DEF TypeOK, vars
  <2> QED
    BY <2>1, RecoveryTyping, ServiceTyping, EnvironmentTyping DEF Next
<1> QED
  BY <1>1, <1>2, PTL DEF Spec

-----------------------------------------------------------------------------
(* The inductive invariant behind the safety theorems.                     *)

\* The header comes before the slots, in the file and on the device, and a
\* process is past its start only behind a whole header.
HeaderFirst ==
    /\ dheader = "ok" => header = "ok"
    /\ header # "ok" => file = <<>>
    /\ dheader # "ok" => disk = <<>>
    /\ pc \notin {"down", "creating"} => header = "ok"

Sequenced(slots) ==
    \A i \in DOMAIN slots : IsGood(slots[i]) => slots[i].entry.id = i - 1

ReadableTo(n) == n <= Len(file) /\ \A i \in 1 .. n : IsGood(file[i])

\* How far the process has come with the file.
ProcessInFile ==
    /\ pc = "creating" => cursor = 0 /\ transactions = 0
    /\ pc = "replaying" => ReadableTo(cursor) /\ transactions = cursor
    /\ pc = "ready" => /\ ReadableTo(Len(file)) /\ cursor = Len(file)
                       /\ transactions = Len(file)
    /\ pc \in {"written", "logged"} =>
            /\ ReadableTo(Len(file)) /\ cursor = Len(file)
            /\ cursor > 0 /\ file[cursor] = Good(cur)
    /\ pc = "written" => transactions = Len(file) - 1
    /\ pc = "logged" => transactions = Len(file) /\ disk = file

\* Slot i is readable and the device holds it.
Settled(i) ==
    /\ i \in DOMAIN file /\ i \in DOMAIN disk
    /\ file[i] = disk[i] /\ IsGood(file[i])

\* An answered entry is behind settled slots only, so that neither a truncation
\* nor a power loss reaches it.
AnsweredSettled ==
    \A e \in acked :
        /\ e.id + 1 \in DOMAIN file /\ file[e.id + 1] = Good(e)
        /\ \A i \in 1 .. e.id + 1 : Settled(i)

IInv ==
    /\ TypeOK
    /\ HeaderFirst
    /\ Sequenced(file) /\ Sequenced(disk)
    /\ ProcessInFile
    /\ AnsweredSettled

LEMMA StorageSame ==
    ASSUME IInv, UNCHANGED storage, UNCHANGED acked
    PROVE  Sequenced(file)' /\ Sequenced(disk)' /\ AnsweredSettled'
BY DEF IInv, storage, Sequenced, AnsweredSettled, Settled

LEMMA ExitInFile == Exit => ProcessInFile'
BY DEF Exit, ProcessInFile

LEMMA RecoveryIInv ==
    ASSUME IInv, Recovery
    PROVE  HeaderFirst' /\ Sequenced(file)' /\ Sequenced(disk)' /\ ProcessInFile'
           /\ AnsweredSettled'
<1> USE DEF IInv
<1>0. Len(file) \in Nat /\ cursor \in Nat /\ transactions \in Nat
  BY LenProperties DEF TypeOK
<1>1. CASE CreateFile
  <2>1. Sequenced(file)' /\ Sequenced(disk)' /\ AnsweredSettled'
    BY <1>1 DEF CreateFile, Sequenced, AnsweredSettled, Settled
  <2>2. HeaderFirst' /\ ProcessInFile'
    BY <1>1 DEF CreateFile, FreshMemory, HeaderFirst, ProcessInFile
  <2> QED
    BY <2>1, <2>2
<1>2. CASE WriteHeader
  <2>1. Sequenced(file)' /\ Sequenced(disk)' /\ AnsweredSettled'
    BY <1>2 DEF WriteHeader, Sequenced, AnsweredSettled, Settled
  <2>2. HeaderFirst'
    BY <1>2 DEF WriteHeader, HeaderFirst
  <2>3. ProcessInFile'
    BY <1>0, <1>2 DEF WriteHeader, memory, ProcessInFile, ReadableTo
  <2> QED
    BY <2>1, <2>2, <2>3
<1>3. CASE OpenFile
  <2>1. HeaderFirst'
    BY <1>3 DEF OpenFile, storage, HeaderFirst
  <2>2. ProcessInFile'
    BY <1>0, <1>3 DEF OpenFile, storage, FreshMemory, ProcessInFile, ReadableTo
  <2> QED
    BY <1>3, <2>1, <2>2, StorageSame DEF OpenFile
<1>4. CASE OpenRefused
  BY <1>4, StorageSame
    DEF OpenRefused, vars, storage, HeaderFirst, ProcessInFile, ReadableTo
<1>5. CASE ReplayEntry
  <2>1. HeaderFirst'
    BY <1>5 DEF ReplayEntry, storage, HeaderFirst
  <2>2. ProcessInFile'
    <3>1. pc = "replaying" /\ pc' = "replaying" /\ cursor < Len(file)
      BY <1>5 DEF ReplayEntry, AtSlot, Replaying
    <3>2. ReadableTo(cursor) /\ transactions = cursor /\ IsGood(file[cursor + 1])
      BY <1>5, <3>1 DEF ReplayEntry, ProcessInFile, NextSlot
    <3>3. file' = file /\ cursor' = cursor + 1 /\ transactions' = transactions + 1
      BY <1>5 DEF ReplayEntry, storage
    <3>4. ReadableTo(cursor)'
      BY <1>0, <3>1, <3>2, <3>3 DEF ReadableTo
    <3> QED
      BY <3>1, <3>2, <3>3, <3>4 DEF ProcessInFile
  <2> QED
    BY <1>5, <2>1, <2>2, StorageSame DEF ReplayEntry
<1>6. CASE ReplayFails
  BY <1>6, StorageSame, ExitInFile DEF ReplayFails, Exit, storage, HeaderFirst
<1>7. CASE ReplayTruncate
  <2>1. /\ pc = "replaying" /\ cursor < Len(file) /\ ~IsGood(file[cursor + 1])
        /\ file' = SubSeq(file, 1, cursor) /\ cursor' = Len(file') /\ pc' = "ready"
        /\ disk' = disk /\ acked' = acked /\ transactions' = transactions
    BY <1>7 DEF ReplayTruncate, AtSlot, Replaying, NextSlot, SeekEnd
  <2>2. ReadableTo(cursor) /\ transactions = cursor
    BY <2>1 DEF ProcessInFile
  <2>3. Len(file') = cursor /\ \A i \in 1 .. cursor : file'[i] = file[i]
    BY <1>0, <2>1, SubSeqProperties DEF TypeOK
  <2>4. DOMAIN file' = 1 .. cursor /\ DOMAIN file = 1 .. Len(file)
    BY <1>0, <2>1, <2>3, LenProperties, RecoveryTyping DEF TypeOK
  <2>5. HeaderFirst'
    BY <1>7, <2>1 DEF HeaderFirst, ReplayTruncate
  <2>6. Sequenced(file)' /\ Sequenced(disk)'
    BY <1>0, <2>1, <2>3, <2>4 DEF Sequenced
  <2>7. ProcessInFile'
    BY <1>0, <2>1, <2>2, <2>3 DEF ProcessInFile, ReadableTo
  <2>8. AnsweredSettled'
    <3> SUFFICES ASSUME NEW e \in acked
                 PROVE  /\ e.id + 1 \in DOMAIN file' /\ file'[e.id + 1] = Good(e)
                        /\ \A i \in 1 .. e.id + 1 : Settled(i)'
      BY <2>1 DEF AnsweredSettled
    <3>1. e.id \in Nat
      BY DEF TypeOK, Entry
    <3>2. \A i \in 1 .. e.id + 1 : Settled(i)
      BY DEF AnsweredSettled
    <3>3. ~Settled(cursor + 1)
      BY <2>1 DEF Settled
    <3>4. e.id + 1 <= cursor
      BY <1>0, <3>1, <3>2, <3>3
    <3>5. file[e.id + 1] = Good(e)
      BY DEF AnsweredSettled
    <3>6. \A i \in 1 .. e.id + 1 : Settled(i)'
      BY <1>0, <2>1, <2>3, <2>4, <3>1, <3>2, <3>4 DEF Settled
    <3> QED
      BY <1>0, <2>3, <2>4, <3>1, <3>4, <3>5, <3>6
  <2> QED
    BY <2>5, <2>6, <2>7, <2>8
<1>8. CASE ReplayRefused
  BY <1>8, StorageSame, ExitInFile DEF ReplayRefused, Exit, storage, HeaderFirst
<1>9. CASE ReplayEnd
  <2>1. /\ pc = "replaying" /\ cursor >= Len(file) /\ file' = file /\ pc' = "ready"
        /\ cursor' = Len(file) /\ transactions' = transactions
    BY <1>9 DEF ReplayEnd, Replaying, SeekEnd, storage
  <2>2. HeaderFirst'
    BY <1>9, <2>1 DEF ReplayEnd, storage, HeaderFirst
  <2>3. ProcessInFile'
    BY <1>0, <2>1 DEF ProcessInFile, ReadableTo
  <2> QED
    BY <1>9, <2>2, <2>3, StorageSame DEF ReplayEnd
<1> QED
  BY <1>1, <1>2, <1>3, <1>4, <1>5, <1>6, <1>7, <1>8, <1>9 DEF Recovery

\* A write at the end of the file appends.
LEMMA WriteAppends ==
    ASSUME file \in Seq(Slot), cursor = Len(file), NEW slot \in Slot
    PROVE  /\ SlotsAfterWrite(slot) \in Seq(Slot)
           /\ DOMAIN SlotsAfterWrite(slot) = 1 .. Len(file) + 1
           /\ Len(SlotsAfterWrite(slot)) = Len(file) + 1
           /\ \A i \in 1 .. Len(file) : SlotsAfterWrite(slot)[i] = file[i]
           /\ SlotsAfterWrite(slot)[Len(file) + 1] = slot
<1>1. Len(file) \in Nat
  BY LenProperties
<1>2. SlotsAfterWrite(slot) \in Seq(Slot)
  BY <1>1, WriteType
<1>3. SlotsAfterWrite(slot) =
        [i \in 1 .. Len(file) + 1 |-> IF i = Len(file) + 1 THEN slot
                                      ELSE IF i <= Len(file) THEN file[i] ELSE Bad]
  BY <1>1 DEF SlotsAfterWrite
<1> QED
  BY <1>1, <1>2, <1>3, LenProperties

\* After a write at the end, whatever of a slot it left, all before it stands.
LEMMA WriteSettles ==
    ASSUME IInv, pc = "ready", NEW slot \in Slot, file' = SlotsAfterWrite(slot),
           IsGood(slot) => slot.entry.id = Len(file), disk' = disk, acked' = acked
    PROVE  Sequenced(file)' /\ Sequenced(disk)' /\ AnsweredSettled'
<1>1. /\ Len(file) \in Nat /\ DOMAIN file = 1 .. Len(file)
      /\ DOMAIN file' = 1 .. Len(file) + 1
      /\ \A i \in 1 .. Len(file) : file'[i] = file[i]
      /\ file'[Len(file) + 1] = slot
  BY WriteAppends, LenProperties DEF IInv, TypeOK, ProcessInFile
<1>2. Sequenced(file)' /\ Sequenced(disk)'
  BY <1>1 DEF IInv, Sequenced
<1>3. AnsweredSettled'
  BY <1>1 DEF IInv, AnsweredSettled, Settled
<1> QED
  BY <1>2, <1>3

LEMMA ServiceIInv ==
    ASSUME IInv, Service
    PROVE  HeaderFirst' /\ Sequenced(file)' /\ Sequenced(disk)' /\ ProcessInFile'
           /\ AnsweredSettled'
<1> USE DEF IInv
<1>0. Len(file) \in Nat /\ cursor \in Nat /\ transactions \in Nat
      /\ DOMAIN file = 1 .. Len(file)
  BY LenProperties DEF TypeOK
<1>1. ASSUME NEW id \in 0 .. MaxLog, NEW op \in Operations, WriteEntry(id, op)
      PROVE  HeaderFirst' /\ Sequenced(file)' /\ Sequenced(disk)' /\ ProcessInFile'
             /\ AnsweredSettled'
  <2> DEFINE slot == Good(NewEntry(id, op))
  <2>1. /\ pc = "ready" /\ id = transactions /\ cur' = NewEntry(id, op)
        /\ file' = SlotsAfterWrite(slot) /\ cursor' = cursor + 1 /\ pc' = "written"
        /\ header' = header /\ dheader' = dheader /\ disk' = disk /\ acked' = acked
        /\ transactions' = transactions
    BY <1>1 DEF WriteEntry, Request, Accepted
  <2>2. slot \in Slot /\ slot.entry.id = transactions /\ IsGood(slot)
    BY <2>1, EntryType DEF Good, IsGood, NewEntry
  <2>3. ReadableTo(Len(file)) /\ cursor = Len(file) /\ transactions = Len(file)
    BY <2>1 DEF ProcessInFile
  <2>4. Sequenced(file)' /\ Sequenced(disk)' /\ AnsweredSettled'
    BY <2>1, <2>2, <2>3, WriteSettles
  <2>5. HeaderFirst'
    BY <2>1 DEF HeaderFirst
  <2>6. /\ Len(file') = Len(file) + 1
        /\ \A i \in 1 .. Len(file) : file'[i] = file[i]
        /\ file'[Len(file) + 1] = slot
    BY <2>1, <2>2, <2>3, WriteAppends DEF TypeOK
  <2>7. ReadableTo(Len(file))'
    BY <1>0, <2>2, <2>3, <2>6 DEF ReadableTo
  <2>8. ProcessInFile'
    BY <1>0, <2>1, <2>3, <2>6, <2>7 DEF ProcessInFile
  <2> QED
    BY <2>4, <2>5, <2>8
<1>2. ASSUME NEW id \in 0 .. MaxLog, NEW op \in Operations, WriteFails(id, op)
      PROVE  HeaderFirst' /\ Sequenced(file)' /\ Sequenced(disk)' /\ ProcessInFile'
             /\ AnsweredSettled'
  <2>1. Torn \in Slot /\ ~IsGood(Torn)
    BY DEF Slot, Torn, IsGood
  <2>2. HeaderFirst'
    BY <1>2 DEF WriteFails, Request, HeaderFirst
  <2>3. ProcessInFile'
    BY <1>2, ExitInFile DEF WriteFails
  <2>4. Sequenced(file)' /\ Sequenced(disk)' /\ AnsweredSettled'
    BY <1>2, <2>1, WriteSettles DEF WriteFails, Request
  <2> QED
    BY <2>2, <2>3, <2>4
<1>3. ASSUME NEW id \in 0 .. MaxLog, NEW op \in Operations, Reject(id, op)
      PROVE  HeaderFirst' /\ Sequenced(file)' /\ Sequenced(disk)' /\ ProcessInFile'
             /\ AnsweredSettled'
  BY <1>3, StorageSame
    DEF Reject, vars, storage, HeaderFirst, ProcessInFile, ReadableTo
<1>4. CASE SyncEntry
  <2>1. /\ pc = "written" /\ disk' = file /\ dheader' = header /\ pc' = "logged"
        /\ transactions' = transactions + 1 /\ file' = file /\ header' = header
        /\ cursor' = cursor /\ cur' = cur /\ acked' = acked
    BY <1>4 DEF SyncEntry
  <2>2. HeaderFirst'
    BY <2>1 DEF HeaderFirst
  <2>3. Sequenced(file)' /\ Sequenced(disk)'
    BY <2>1 DEF Sequenced
  <2>4. ProcessInFile'
    BY <1>0, <2>1 DEF ProcessInFile, ReadableTo
  <2>5. AnsweredSettled'
    BY <2>1 DEF AnsweredSettled, Settled
  <2> QED
    BY <2>2, <2>3, <2>4, <2>5
<1>5. CASE SyncFails
  BY <1>5, StorageSame, ExitInFile DEF SyncFails, Exit, storage, HeaderFirst
<1>6. CASE ApplyEntry
  <2>1. /\ pc = "logged" /\ pc' = "ready" /\ file' = file /\ disk' = disk
        /\ header' = header /\ dheader' = dheader /\ acked' \in {acked, acked \cup {cur}}
        /\ transactions' = transactions /\ cursor' = cursor
    BY <1>6 DEF ApplyEntry, storage
  <2>2. /\ ReadableTo(Len(file)) /\ cursor = Len(file) /\ cursor > 0
        /\ file[cursor] = Good(cur) /\ transactions = Len(file) /\ disk = file
    BY <2>1 DEF ProcessInFile
  <2>3. HeaderFirst'
    BY <2>1 DEF HeaderFirst
  <2>4. Sequenced(file)' /\ Sequenced(disk)'
    BY <2>1 DEF Sequenced
  <2>5. ProcessInFile'
    BY <2>1, <2>2 DEF ProcessInFile, ReadableTo
  <2>6. cur.id + 1 = Len(file)
    <3>1. Good(cur).entry = cur /\ IsGood(Good(cur))
      BY DEF Good, IsGood
    <3>2. cur.id = Len(file) - 1
      BY <1>0, <2>2, <3>1 DEF Sequenced
    <3> QED
      BY <1>0, <3>2
  <2>7. \A i \in 1 .. Len(file) : Settled(i)
    BY <1>0, <2>2 DEF Settled, ReadableTo
  <2>8. AnsweredSettled'
    <3> SUFFICES ASSUME NEW e \in acked'
                 PROVE  /\ e.id + 1 \in DOMAIN file /\ file[e.id + 1] = Good(e)
                        /\ \A i \in 1 .. e.id + 1 : Settled(i)
      BY <2>1 DEF AnsweredSettled, Settled
    <3>1. CASE e \in acked
      BY <3>1 DEF AnsweredSettled
    <3>2. CASE e = cur
      BY <1>0, <2>2, <2>6, <2>7, <3>2
    <3> QED
      BY <2>1, <3>1, <3>2
  <2> QED
    BY <2>3, <2>4, <2>5, <2>8
<1>7. CASE ApplyFails
  <2>1. HeaderFirst'
    BY <1>7 DEF ApplyFails, storage, HeaderFirst
  <2>2. ProcessInFile'
    <3>1. CASE CapacityOverflows(accts, capacity)
      <4>1. /\ pc = "logged" /\ pc' = "ready" /\ file' = file /\ disk' = disk
            /\ header' = header /\ transactions' = transactions /\ cursor' = cursor
        BY <1>7, <3>1 DEF ApplyFails, storage
      <4> QED
        BY <4>1 DEF ProcessInFile, ReadableTo
    <3>2. CASE ~CapacityOverflows(accts, capacity)
      BY <1>7, <3>2, ExitInFile DEF ApplyFails
    <3> QED
      BY <3>1, <3>2
  <2> QED
    BY <1>7, <2>1, <2>2, StorageSame DEF ApplyFails
<1> QED
  BY <1>1, <1>2, <1>3, <1>4, <1>5, <1>6, <1>7 DEF Service

-----------------------------------------------------------------------------
(* A power loss keeps every settled prefix.                                *)

LEMMA SurvivorsIInv ==
    ASSUME IInv, SlotsSurvive, disk' = file', acked' = acked
    PROVE  Sequenced(file)' /\ AnsweredSettled'
<1> USE DEF IInv
<1>0. /\ Len(file) \in Nat /\ DOMAIN file = 1 .. Len(file)
      /\ Len(disk) \in Nat /\ DOMAIN disk = 1 .. Len(disk)
  BY LenProperties DEF TypeOK
<1>1. CASE file' = disk
  <2>1. Sequenced(file)'
    BY <1>1 DEF Sequenced
  <2>2. AnsweredSettled'
    <3> SUFFICES ASSUME NEW e \in acked
                 PROVE  /\ e.id + 1 \in DOMAIN disk /\ disk[e.id + 1] = Good(e)
                        /\ \A i \in 1 .. e.id + 1 : i \in DOMAIN disk /\ IsGood(disk[i])
      BY <1>1 DEF AnsweredSettled, Settled
    <3>1. e.id + 1 \in 1 .. e.id + 1
      BY DEF TypeOK, Entry
    <3> QED
      BY <3>1 DEF AnsweredSettled, Settled
  <2> QED
    BY <2>1, <2>2
<1>2. ASSUME NEW n \in 0 .. Len(file), (n + 1) .. Len(file) \subseteq Unstable,
             NEW damaged \in SUBSET (Unstable \cap (1 .. n)), NEW end \in {Bad, Torn},
             file' = [i \in 1 .. n |-> IF i \notin damaged THEN file[i]
                                       ELSE IF i = n THEN end ELSE Bad]
      PROVE  Sequenced(file)' /\ AnsweredSettled'
  <2>1. ~IsGood(Bad) /\ ~IsGood(Torn)
    BY DEF IsGood, Bad, Torn
  <2>2. \A i \in 1 .. n : IsGood(file'[i]) => file'[i] = file[i]
    BY <1>2, <2>1
  <2>3. Sequenced(file)'
    BY <1>0, <1>2, <2>2 DEF Sequenced
  <2>4. AnsweredSettled'
    <3> SUFFICES ASSUME NEW e \in acked
                 PROVE  /\ e.id + 1 \in DOMAIN file' /\ file'[e.id + 1] = Good(e)
                        /\ \A i \in 1 .. e.id + 1 : Settled(i)'
      BY DEF AnsweredSettled
    <3>1. e.id \in Nat
      BY DEF TypeOK, Entry
    <3>2. \A i \in 1 .. e.id + 1 : Settled(i)
      BY DEF AnsweredSettled
    <3>3. \A i \in 1 .. e.id + 1 : i \notin Unstable
      BY <1>0, <3>1, <3>2 DEF Unstable, Stable, Settled
    <3>4. e.id + 1 <= n
      <4>1. e.id + 1 <= Len(file)
        BY <1>0, <3>1, <3>2 DEF Settled
      <4> QED
        BY <1>0, <1>2, <3>1, <3>3, <4>1
    <3>5. \A i \in 1 .. e.id + 1 : i \in DOMAIN file' /\ file'[i] = file[i]
      BY <1>2, <3>1, <3>3, <3>4
    <3>6. \A i \in 1 .. e.id + 1 : Settled(i)'
      BY <3>2, <3>5 DEF Settled
    <3>7. file[e.id + 1] = Good(e)
      BY DEF AnsweredSettled
    <3> QED
      BY <3>1, <3>5, <3>6, <3>7
  <2> QED
    BY <2>3, <2>4
<1> QED
  BY <1>1, <1>2 DEF SlotsSurvive

LEMMA EnvironmentIInv ==
    ASSUME IInv, Environment
    PROVE  HeaderFirst' /\ Sequenced(file)' /\ Sequenced(disk)' /\ ProcessInFile'
           /\ AnsweredSettled'
<1> USE DEF IInv
<1>1. CASE Crash
  BY <1>1, StorageSame, ExitInFile DEF Crash, Exit, storage, HeaderFirst
<1>2. CASE PowerLoss
  <2>1. /\ pc' = "down" /\ disk' = file' /\ dheader' = header' /\ acked' = acked
        /\ dheader = "ok" => header' = "ok"
        /\ IF header' = "ok" THEN SlotsSurvive ELSE file' = <<>>
    BY <1>2 DEF PowerLoss, Exit
  <2>2. HeaderFirst'
    BY <2>1 DEF HeaderFirst
  <2>3. ProcessInFile'
    BY <1>2, ExitInFile DEF PowerLoss
  <2>4. CASE header' = "ok"
    <3>1. Sequenced(file)' /\ AnsweredSettled'
      BY <2>1, <2>4, SurvivorsIInv
    <3>2. Sequenced(disk)'
      BY <2>1, <3>1 DEF Sequenced
    <3> QED
      BY <2>2, <2>3, <3>1, <3>2
  <2>5. CASE header' # "ok"
    <3>1. disk = <<>>
      BY <2>1, <2>5 DEF HeaderFirst
    <3>2. acked = {}
      <4>1. \A e \in acked : e.id + 1 \in 1 .. e.id + 1
        BY DEF TypeOK, Entry
      <4> QED
        BY <3>1, <4>1 DEF AnsweredSettled, Settled
    <3>3. file' = <<>> /\ disk' = <<>>
      BY <2>1, <2>5
    <3> QED
      BY <2>1, <2>2, <2>3, <3>2, <3>3 DEF Sequenced, AnsweredSettled
  <2> QED
    BY <2>4, <2>5
<1>3. CASE Tick
  <2>1. HeaderFirst'
    BY <1>3 DEF Tick, storage, HeaderFirst
  <2>2. ProcessInFile'
    BY <1>3 DEF Tick, storage, memory, ProcessInFile, ReadableTo
  <2> QED
    BY <1>3, <2>1, <2>2, StorageSame DEF Tick
<1> QED
  BY <1>1, <1>2, <1>3 DEF Environment

-----------------------------------------------------------------------------
(* The theorems.                                                           *)

LEMMA InvariantHolds == Spec => []IInv
<1>1. Init => IInv
  <2>1. Init => TypeOK
    BY FirstList, WidthAssumption, EngineAssumption
      DEF Init, TypeOK, Headers, Pcs, U64
  <2> QED
    BY <2>1 DEF Init, IInv, HeaderFirst, Sequenced, ProcessInFile, AnsweredSettled
<1>2. IInv /\ [Next]_vars => IInv'
  <2> SUFFICES ASSUME IInv, [Next]_vars PROVE IInv'
    OBVIOUS
  <2>1. CASE Recovery
    BY <2>1, RecoveryTyping, RecoveryIInv DEF IInv
  <2>2. CASE Service
    BY <2>2, ServiceTyping, ServiceIInv DEF IInv
  <2>3. CASE Environment
    BY <2>3, EnvironmentTyping, EnvironmentIInv DEF IInv
  <2>4. CASE UNCHANGED vars
    <3>1. TypeOK'
      BY <2>4 DEF IInv, TypeOK, vars
    <3>2. HeaderFirst' /\ ProcessInFile'
      BY <2>4 DEF IInv, vars, HeaderFirst, ProcessInFile, ReadableTo
    <3> QED
      BY <2>4, <3>1, <3>2, StorageSame DEF IInv, vars, storage
  <2> QED
    BY <2>1, <2>2, <2>3, <2>4 DEF Next
<1> QED
  BY <1>1, <1>2, PTL DEF Spec

\* An answered operation is on the device and in the file, in its place, forever.
THEOREM AnsweredIsDurable == Spec => []Durable
<1>1. IInv => Durable
  <2> SUFFICES ASSUME IInv, NEW e \in acked
               PROVE  /\ e.id + 1 \in DOMAIN disk /\ disk[e.id + 1] = Good(e)
                      /\ e.id + 1 \in DOMAIN file /\ file[e.id + 1] = Good(e)
    BY DEF Durable
  <2>1. e.id + 1 \in 1 .. e.id + 1
    BY DEF IInv, TypeOK, Entry
  <2> QED
    BY <2>1 DEF IInv, AnsweredSettled, Settled
<1> QED
  BY <1>1, InvariantHolds, PTL

\* The id of every readable entry is its place in the file.
THEOREM EntriesInSequence == Spec => []InSequence
<1>1. IInv => InSequence
  BY DEF IInv, InSequence, Sequenced
<1> QED
  BY <1>1, InvariantHolds, PTL

\* A process that serves has read the whole file and writes at its end.
THEOREM ServesWhole == Spec => []ServesWholeFile
<1>1. IInv => ServesWholeFile
  <2> SUFFICES ASSUME IInv, pc = "ready"
               PROVE  /\ \A i \in DOMAIN file : IsGood(file[i])
                      /\ cursor = Len(file) /\ transactions = Len(file)
    BY DEF ServesWholeFile
  <2>1. DOMAIN file = 1 .. Len(file)
    BY LenProperties DEF IInv, TypeOK
  <2> QED
    BY <2>1 DEF IInv, ProcessInFile, ReadableTo
<1> QED
  BY <1>1, InvariantHolds, PTL

-----------------------------------------------------------------------------
(* What is in the log.                                                     *)

\* Memory has room for a list of every account the log may open.
LogFits == AccountSize * (2 * MaxLog) <= AllocMax

LogOf(slots, n) == [i \in 1 .. n |-> slots[i].entry]

\* Every entry that can be reached is legal after those before it.
Legal(slots) ==
    \A i \in DOMAIN slots :
        (\A j \in 1 .. i : IsGood(slots[j]))
            => Guard(AccountsAfter(LogOf(slots, i - 1)), slots[i].entry.op)

\* The device never has more to read than the file.
DiskBehind ==
    \A i \in DOMAIN disk :
        (\A j \in 1 .. i : IsGood(disk[j])) => i \in DOMAIN file /\ file[i] = disk[i]

\* The accounts in memory are those of the entries read or served.
Shown ==
    /\ pc = "down" => cursor = 0
    /\ Applied \in Nat /\ Len(accts) <= Applied
    /\ Untimed(accts) = AccountsAfter(LogOf(file, Applied))

LogInv ==
    /\ Len(file) <= MaxLog /\ Len(disk) <= MaxLog
    /\ Legal(file) /\ Legal(disk)
    /\ DiskBehind
    /\ Shown

-----------------------------------------------------------------------------
(* Logs that begin alike.                                                  *)

LEMMA LogType ==
    ASSUME NEW slots, NEW n \in Nat
    PROVE  /\ LogOf(slots, n) = [i \in 1 .. n |-> slots[i].entry]
           /\ Len(LogOf(slots, n)) = n
           /\ \A i \in 1 .. n : LogOf(slots, n)[i] = slots[i].entry
BY DEF LogOf

LEMMA SameLog ==
    ASSUME NEW s, NEW t, NEW n \in Nat, \A i \in 1 .. n : t[i] = s[i]
    PROVE  LogOf(t, n) = LogOf(s, n)
BY DEF LogOf

\* A log that can be read only as far as a legal one can, is legal.
LEMMA LegalWithin ==
    ASSUME NEW s \in Seq(Slot), NEW t \in Seq(Slot), Legal(s),
           \A i \in DOMAIN t : (\A j \in 1 .. i : IsGood(t[j]))
                => i \in DOMAIN s /\ t[i] = s[i]
    PROVE  Legal(t)
<1> SUFFICES ASSUME NEW i \in DOMAIN t, \A j \in 1 .. i : IsGood(t[j])
             PROVE  Guard(AccountsAfter(LogOf(t, i - 1)), t[i].entry.op)
  BY DEF Legal
<1>1. /\ DOMAIN t = 1 .. Len(t) /\ Len(t) \in Nat /\ DOMAIN s = 1 .. Len(s) /\ Len(s) \in Nat
      /\ i \in Nat /\ i - 1 \in Nat
  BY LenProperties
<1>2. \A j \in 1 .. i : j \in DOMAIN s /\ t[j] = s[j]
  <2> TAKE j \in 1 .. i
  <2>1. j \in DOMAIN t /\ \A k \in 1 .. j : IsGood(t[k])
    BY <1>1
  <2> QED
    BY <2>1
<1>3. i \in DOMAIN s /\ t[i] = s[i] /\ \A j \in 1 .. i : IsGood(s[j])
  BY <1>1, <1>2
<1>4. LogOf(t, i - 1) = LogOf(s, i - 1)
  <2>1. \A j \in 1 .. i - 1 : t[j] = s[j]
    BY <1>1, <1>2
  <2> QED
    BY <1>1, <2>1, SameLog
<1> QED
  BY <1>3, <1>4 DEF Legal

\* One more legal entry.
LEMMA LegalAppend ==
    ASSUME NEW s \in Seq(Slot), NEW t \in Seq(Slot), Legal(s),
           Len(t) = Len(s) + 1, \A i \in 1 .. Len(s) : t[i] = s[i],
           Guard(AccountsAfter(LogOf(s, Len(s))), t[Len(t)].entry.op)
    PROVE  Legal(t)
<1> SUFFICES ASSUME NEW i \in DOMAIN t, \A j \in 1 .. i : IsGood(t[j])
             PROVE  Guard(AccountsAfter(LogOf(t, i - 1)), t[i].entry.op)
  BY DEF Legal
<1>1. /\ DOMAIN t = 1 .. Len(s) + 1 /\ DOMAIN s = 1 .. Len(s) /\ Len(s) \in Nat
      /\ i \in Nat /\ i - 1 \in Nat
  BY LenProperties
<1>2. LogOf(t, i - 1) = LogOf(s, i - 1)
  <2>1. \A j \in 1 .. i - 1 : t[j] = s[j]
    BY <1>1
  <2> QED
    BY <1>1, <2>1, SameLog
<1>3. CASE i \in DOMAIN s
  <2>1. t[i] = s[i] /\ \A j \in 1 .. i : IsGood(s[j])
    BY <1>1, <1>3
  <2> QED
    BY <1>2, <1>3, <2>1 DEF Legal
<1>4. CASE i = Len(s) + 1
  <2>1. i - 1 = Len(s) /\ i = Len(t)
    BY <1>1, <1>4
  <2> QED
    BY <1>2, <2>1
<1> QED
  BY <1>1, <1>3, <1>4

\* The accounts of a log with one more entry.
LEMMA LogAppend ==
    ASSUME NEW slots, NEW n \in Nat
    PROVE  AccountsAfter(LogOf(slots, n + 1))
             = After(AccountsAfter(LogOf(slots, n)), slots[n + 1].entry)
<1> DEFINE s == LogOf(slots, n)
           t == LogOf(slots, n + 1)
<1>1. n + 1 \in Nat /\ n + 1 \in 1 .. n + 1 /\ \A i \in 1 .. n : i \in 1 .. n + 1
  OBVIOUS
<1>2. Len(s) = n /\ Len(t) = n + 1 /\ t[n + 1] = slots[n + 1].entry
  BY <1>1, LogType
<1>3. \A i \in 1 .. n : t[i] = s[i]
  BY <1>1, LogType
<1> HIDE DEF s, t
<1> QED
  BY <1>2, <1>3, AccountsAfterOne DEF s, t

LEMMA EmptyLog ==
    ASSUME NEW slots
    PROVE  AccountsAfter(LogOf(slots, 0)) = <<>> /\ Untimed(<<>>) = <<>>
<1>1. Len(LogOf(slots, 0)) = 0
  BY LogType
<1>2. Untimed(<<>>) = <<>>
  BY DEF Untimed
<1> QED
  BY <1>1, <1>2, AccountsAfterEmpty

-----------------------------------------------------------------------------
(* The invariant: what the steps have in common.                           *)

LEMMA Lengths ==
    ASSUME TypeOK
    PROVE  /\ Len(file) \in Nat /\ DOMAIN file = 1 .. Len(file)
           /\ Len(disk) \in Nat /\ DOMAIN disk = 1 .. Len(disk)
           /\ Len(accts) \in Nat /\ cursor \in Nat /\ transactions \in Nat
BY LenProperties DEF TypeOK

\* A process that starts or ends shows nothing.
LEMMA FreshShown ==
    ASSUME FreshMemory, pc' \notin {"written", "logged"}
    PROVE  Shown'
<1>1. accts' = <<>> /\ cursor' = 0 /\ Applied' = 0
  BY DEF FreshMemory, Applied
<1>2. Len(accts') = 0
  BY <1>1
<1> QED
  BY <1>1, <1>2, EmptyLog DEF Shown

LEMMA StorageKept ==
    ASSUME LogInv, file' = file, disk' = disk
    PROVE  /\ Len(file') <= MaxLog /\ Len(disk') <= MaxLog
           /\ Legal(file)' /\ Legal(disk)' /\ DiskBehind'
BY DEF LogInv, Legal, LogOf, DiskBehind

\* An entry is applied: the accounts become those of one entry more.
LEMMA ApplyShown ==
    ASSUME TypeOK, Shown, Applied' = Applied + 1, pc' # "down",
           \A i \in 1 .. Applied + 1 : file'[i] = file[i],
           NEW e \in Entry, file[Applied + 1].entry = e,
           accts' = Apply(accts, e.op, e.timestamp, now)
    PROVE  Shown'
<1>1. /\ accts \in Seq(Account) /\ e.op \in Operation /\ e.timestamp \in Nat /\ now \in Nat
      /\ Applied \in Nat /\ Applied + 1 \in Nat
  BY EngineAssumption DEF TypeOK, Entry, Shown
<1>2. Len(accts') <= Applied + 1
  <2>1. Len(accts') = IF e.op.type = "add_account" THEN Len(accts) + 1 ELSE Len(accts)
    BY <1>1, ApplyType
  <2>2. Len(accts) \in Nat /\ Len(accts) <= Applied
    BY <1>1, LenProperties DEF Shown
  <2> QED
    BY <1>1, <2>1, <2>2
<1>3. Untimed(accts') = Untimed(Apply(Untimed(accts), e.op, e.timestamp, e.timestamp))
  BY <1>1, UntimedApply
<1>4. Untimed(accts') = After(AccountsAfter(LogOf(file, Applied)), e)
  BY <1>3 DEF Shown, After
<1>5. AccountsAfter(LogOf(file, Applied + 1)) = Untimed(accts')
  BY <1>1, <1>4, LogAppend
<1>6. LogOf(file', Applied + 1) = LogOf(file, Applied + 1)
  BY <1>1, SameLog
<1> QED
  BY <1>1, <1>2, <1>5, <1>6 DEF Shown

\* Nothing is applied: what is shown is at the same place.
LEMMA ShownKept ==
    ASSUME Shown, accts' = accts, Applied' = Applied, pc' # "down",
           \A i \in 1 .. Applied : file'[i] = file[i]
    PROVE  Shown'
<1>1. LogOf(file', Applied) = LogOf(file, Applied)
  BY SameLog DEF Shown
<1> QED
  BY <1>1 DEF Shown

\* The guard asks in memory what it would ask of the log.
LEMMA GuardOfLog ==
    ASSUME TypeOK, Shown, NEW op \in Operation
    PROVE  Guard(AccountsAfter(LogOf(file, Applied)), op) <=> Guard(accts, op)
BY UntimedGuard DEF TypeOK, Shown

LEMMA RecoveryLog ==
    ASSUME IInv, IInv', LogInv, Recovery
    PROVE  LogInv'
<1>0. TypeOK /\ TypeOK' /\ Len(file) \in Nat /\ DOMAIN file = 1 .. Len(file)
      /\ Len(disk) \in Nat /\ DOMAIN disk = 1 .. Len(disk) /\ cursor \in Nat
      /\ MaxLog \in Nat
  BY Lengths, EngineAssumption DEF IInv
<1>1. CASE CreateFile
  BY <1>1, FreshShown, StorageKept DEF CreateFile, LogInv
<1>2. CASE WriteHeader
  <2>1. file' = file /\ disk' = disk /\ accts' = accts /\ pc = "creating" /\ pc' = "replaying"
        /\ Applied' = Applied
    BY <1>2 DEF WriteHeader, memory, Applied
  <2> QED
    BY <2>1, ShownKept, StorageKept DEF LogInv
<1>3. CASE OpenFile
  BY <1>3, FreshShown, StorageKept DEF OpenFile, storage, LogInv
<1>4. CASE OpenRefused
  BY <1>4, StorageKept DEF OpenRefused, vars, LogInv, Shown, Applied, LogOf
<1>5. CASE ReplayEntry
  <2>1. /\ pc = "replaying" /\ pc' = "replaying" /\ cursor < Len(file) /\ IsGood(NextSlot)
        /\ file' = file /\ disk' = disk /\ cursor' = cursor + 1
        /\ accts' = Apply(accts, NextSlot.entry.op, NextSlot.entry.timestamp, now)
    BY <1>5 DEF ReplayEntry, AtSlot, Replaying, storage
  <2>2. NextSlot.entry \in Entry /\ file[cursor + 1].entry = NextSlot.entry
    BY <1>0, <1>5, NextSlotType DEF ReplayEntry, NextSlot
  <2>3. Applied = cursor /\ Applied' = Applied + 1
    BY <2>1 DEF Applied
  <2>4. Shown'
    BY <1>0, <2>1, <2>2, <2>3, ApplyShown DEF LogInv
  <2> QED
    BY <2>1, <2>4, StorageKept DEF LogInv
<1>6. CASE ReplayFails
  BY <1>6, FreshShown, StorageKept DEF ReplayFails, Exit, storage, LogInv
<1>7. CASE ReplayTruncate
  <2>1. /\ pc = "replaying" /\ cursor < Len(file) /\ ~IsGood(file[cursor + 1])
        /\ file' = SubSeq(file, 1, cursor) /\ cursor' = Len(file') /\ pc' = "ready"
        /\ disk' = disk /\ accts' = accts
    BY <1>7 DEF ReplayTruncate, AtSlot, Replaying, NextSlot, SeekEnd
  <2>2. /\ Len(file') = cursor /\ DOMAIN file' = 1 .. cursor
        /\ \A i \in 1 .. cursor : file'[i] = file[i]
    BY <1>0, <2>1, SubSeqProperties, LenProperties DEF TypeOK
  <2>3. Applied = cursor /\ Applied' = Applied
    BY <2>1, <2>2 DEF Applied
  <2>4. Shown'
    BY <2>1, <2>2, <2>3, ShownKept DEF LogInv
  <2>5. Legal(file')
    <3>1. file \in Seq(Slot) /\ file' \in Seq(Slot) /\ Legal(file)
      BY <1>0 DEF TypeOK, LogInv
    <3>2. \A i \in DOMAIN file' : i \in DOMAIN file /\ file'[i] = file[i]
      BY <1>0, <2>1, <2>2
    <3> QED
      BY <3>1, <3>2, LegalWithin
  <2>6. DiskBehind'
    <3> SUFFICES ASSUME NEW i \in DOMAIN disk, \A j \in 1 .. i : IsGood(disk[j])
                 PROVE  i \in DOMAIN file' /\ file'[i] = disk[i]
      BY <2>1 DEF DiskBehind
    <3>1. i \in DOMAIN file /\ file[i] = disk[i]
      BY DEF LogInv, DiskBehind
    <3>2. ~(cursor + 1 <= i)
      <4> SUFFICES ASSUME cursor + 1 <= i PROVE FALSE
        OBVIOUS
      <4>1. cursor + 1 \in DOMAIN disk /\ cursor + 1 \in 1 .. i
            /\ \A j \in 1 .. cursor + 1 : j \in 1 .. i
        BY <1>0
      <4>2. file[cursor + 1] = disk[cursor + 1]
        BY <4>1 DEF LogInv, DiskBehind
      <4> QED
        BY <2>1, <4>1, <4>2
    <3> QED
      BY <1>0, <2>2, <3>1, <3>2
  <2>7. Len(file') <= MaxLog /\ Len(disk') <= MaxLog /\ Legal(disk)'
    BY <1>0, <2>1, <2>2 DEF LogInv, Legal, LogOf
  <2> QED
    BY <2>4, <2>5, <2>6, <2>7 DEF LogInv
<1>8. CASE ReplayRefused
  BY <1>8, FreshShown, StorageKept DEF ReplayRefused, Exit, storage, LogInv
<1>9. CASE ReplayEnd
  <2>1. /\ pc = "replaying" /\ cursor >= Len(file) /\ file' = file /\ pc' = "ready"
        /\ cursor' = Len(file) /\ disk' = disk /\ accts' = accts
    BY <1>9 DEF ReplayEnd, Replaying, SeekEnd, storage
  <2>2. cursor = Len(file)
    BY <1>0, <2>1 DEF IInv, ProcessInFile, ReadableTo
  <2>3. Applied' = Applied
    BY <2>1, <2>2 DEF Applied
  <2> QED
    BY <2>1, <2>3, ShownKept, StorageKept DEF LogInv
<1> QED
  BY <1>1, <1>2, <1>3, <1>4, <1>5, <1>6, <1>7, <1>8, <1>9 DEF Recovery

\* A slot is written at the end: an entry that is legal there, or part of one.
LEMMA WriteLog ==
    ASSUME IInv, LogInv, pc = "ready", transactions < MaxLog, NEW slot \in Slot,
           file' = SlotsAfterWrite(slot), disk' = disk,
           IsGood(slot) => slot.entry.op \in Operation /\ Guard(accts, slot.entry.op)
    PROVE  /\ Len(file') <= MaxLog /\ Len(disk') <= MaxLog
           /\ Legal(file)' /\ Legal(disk)' /\ DiskBehind'
           /\ \A i \in 1 .. Len(file) : file'[i] = file[i]
           /\ Applied = Len(file) /\ cursor = Len(file)
<1>0. TypeOK /\ Len(file) \in Nat /\ DOMAIN file = 1 .. Len(file)
      /\ Len(disk) \in Nat /\ MaxLog \in Nat
  BY Lengths, EngineAssumption DEF IInv
<1>1. cursor = Len(file) /\ transactions = Len(file) /\ Applied = Len(file)
  BY DEF IInv, ProcessInFile, Applied
<1>2. /\ file' \in Seq(Slot) /\ DOMAIN file' = 1 .. Len(file) + 1 /\ Len(file') = Len(file) + 1
      /\ \A i \in 1 .. Len(file) : file'[i] = file[i]
      /\ file'[Len(file) + 1] = slot
  BY <1>0, <1>1, WriteAppends DEF TypeOK
<1>3. Len(file') <= MaxLog /\ Len(disk') <= MaxLog
  BY <1>0, <1>1, <1>2 DEF LogInv
<1>4. Legal(file')
  <2>1. file \in Seq(Slot) /\ Legal(file)
    BY <1>0 DEF TypeOK, LogInv
  <2>2. CASE IsGood(slot)
    <3>1. Guard(AccountsAfter(LogOf(file, Len(file))), slot.entry.op)
      BY <1>0, <1>1, <2>2, GuardOfLog DEF LogInv
    <3> QED
      BY <1>2, <2>1, <3>1, LegalAppend
  <2>3. CASE ~IsGood(slot)
    <3>1. ASSUME NEW i \in DOMAIN file', \A j \in 1 .. i : IsGood(file'[j])
          PROVE  i \in DOMAIN file /\ file'[i] = file[i]
      <4>1. i \in 1 .. i /\ i # Len(file) + 1
        BY <1>0, <1>2, <2>3, <3>1
      <4> QED
        BY <1>0, <1>2, <4>1
    <3> QED
      BY <1>2, <2>1, <3>1, LegalWithin
  <2> QED
    BY <2>2, <2>3
<1>5. Legal(disk)'
  BY DEF LogInv, Legal, LogOf
<1>6. DiskBehind'
  <2> SUFFICES ASSUME NEW i \in DOMAIN disk, \A j \in 1 .. i : IsGood(disk[j])
               PROVE  i \in DOMAIN file' /\ file'[i] = disk[i]
    BY DEF DiskBehind
  <2>1. i \in DOMAIN file /\ file[i] = disk[i]
    BY DEF LogInv, DiskBehind
  <2> QED
    BY <1>0, <1>2, <2>1
<1> QED
  BY <1>1, <1>2, <1>3, <1>4, <1>5, <1>6

\* No list of accounts is too long for an entry of the log.
LEMMA EveryEntryApplies ==
    ASSUME LogFits, IInv, LogInv, pc = "logged"
    PROVE  ~Unapplied
<1>1. /\ Len(accts) \in Nat /\ Len(file) \in Nat /\ MaxLog \in Nat /\ capacity \in Nat
      /\ Applied = Len(file) - 1 /\ U64Max \in Nat
  BY Lengths, EngineAssumption, WidthAssumption
    DEF IInv, TypeOK, ProcessInFile, Applied, U64
<1>2. Len(accts) <= Applied /\ Len(file) <= MaxLog
  BY DEF LogInv, Shown
<1>3. SUFFICES ASSUME capacity <= Len(accts)
               PROVE  HasRoom(accts, capacity)
  BY DEF Unapplied, HasRoom, CapacityOverflows, OutOfMemory, NeedsGrowth
<1>4. 2 * capacity \in Nat /\ 2 * MaxLog \in Nat /\ 2 * capacity <= 2 * MaxLog
  BY <1>1, <1>2, <1>3
<1>5. AllocMax \in Nat /\ AllocMax <= U64Max /\ AccountSize * (2 * MaxLog) <= AllocMax
  BY <1>1, MemoryAssumption DEF LogFits
<1>6. /\ AccountSize * (2 * capacity) \in Nat /\ AccountSize * (2 * MaxLog) \in Nat
      /\ AccountSize * (2 * capacity) <= AccountSize * (2 * MaxLog)
      /\ 2 * capacity <= AccountSize * (2 * capacity)
  BY <1>4, SizesGrow
<1>7. PICK m \in Nat, n \in Nat : /\ m = AccountSize * (2 * capacity) /\ n = AccountSize * (2 * MaxLog)
                                 /\ m <= n /\ 2 * capacity <= m /\ n <= AllocMax
  BY <1>5, <1>6
<1>8. Bytes(2 * capacity) = m
  BY <1>1, <1>4, <1>5, <1>7, BytesOf
<1>9. Bytes(2 * capacity) <= AllocMax /\ 2 * capacity <= U64Max
  BY <1>1, <1>4, <1>5, <1>7, <1>8
<1> QED
  BY <1>1, <1>4, <1>5, <1>7, <1>8, <1>9 DEF HasRoom, CapacityOverflows, OutOfMemory

LEMMA ServiceLog ==
    ASSUME LogFits, IInv, IInv', LogInv, Service
    PROVE  LogInv'
<1>0. TypeOK /\ TypeOK' /\ Len(file) \in Nat /\ cursor \in Nat
  BY Lengths DEF IInv
<1>1. ASSUME NEW id \in 0 .. MaxLog, NEW op \in Operations, WriteEntry(id, op)
      PROVE  LogInv'
  <2> DEFINE slot == Good(NewEntry(id, op))
  <2>1. /\ pc = "ready" /\ transactions < MaxLog /\ Guard(accts, op)
        /\ file' = SlotsAfterWrite(slot) /\ disk' = disk /\ accts' = accts
        /\ cursor' = cursor + 1 /\ pc' = "written"
    BY <1>1 DEF WriteEntry, Request, Accepted
  <2>2. slot \in Slot /\ slot.entry.op = op /\ op \in Operation
    BY <1>0, EntryType, EngineAssumption DEF Good, NewEntry
  <2> HIDE DEF slot
  <2>3. /\ Len(file') <= MaxLog /\ Len(disk') <= MaxLog
        /\ Legal(file)' /\ Legal(disk)' /\ DiskBehind'
        /\ \A i \in 1 .. Len(file) : file'[i] = file[i]
        /\ Applied = Len(file) /\ cursor = Len(file)
    BY <2>1, <2>2, WriteLog
  <2>4. Applied' = Applied
    BY <1>0, <2>1, <2>3 DEF Applied
  <2>5. Shown'
    BY <2>1, <2>3, <2>4, ShownKept DEF LogInv
  <2> QED
    BY <2>3, <2>5 DEF LogInv
<1>2. ASSUME NEW id \in 0 .. MaxLog, NEW op \in Operations, WriteFails(id, op)
      PROVE  LogInv'
  <2>1. /\ pc = "ready" /\ transactions < MaxLog /\ file' = SlotsAfterWrite(Torn)
        /\ disk' = disk /\ pc' = "down" /\ FreshMemory
    BY <1>2 DEF WriteFails, Request, Exit
  <2>2. Torn \in Slot /\ ~IsGood(Torn)
    BY DEF Slot, Torn, IsGood
  <2> QED
    BY <2>1, <2>2, WriteLog, FreshShown DEF LogInv
<1>3. ASSUME NEW id \in 0 .. MaxLog, NEW op \in Operations, Reject(id, op)
      PROVE  LogInv'
  BY <1>3, StorageKept DEF Reject, vars, LogInv, Shown, Applied, LogOf
<1>4. CASE SyncEntry
  <2>1. /\ pc = "written" /\ pc' = "logged" /\ file' = file /\ disk' = file
        /\ accts' = accts /\ cursor' = cursor
    BY <1>4 DEF SyncEntry
  <2>2. Applied' = Applied
    BY <2>1 DEF Applied
  <2>3. Shown'
    BY <2>1, <2>2, ShownKept DEF LogInv
  <2>4. Legal(file') /\ Legal(disk')
    BY <2>1 DEF LogInv
  <2>5. DiskBehind'
    BY <2>1 DEF DiskBehind
  <2> QED
    BY <2>1, <2>3, <2>4, <2>5 DEF LogInv
<1>5. CASE SyncFails
  BY <1>5, FreshShown, StorageKept DEF SyncFails, Exit, storage, LogInv
<1>6. CASE ApplyEntry
  <2>1. /\ pc = "logged" /\ pc' = "ready" /\ file' = file /\ disk' = disk
        /\ cursor' = cursor /\ accts' = Apply(accts, cur.op, cur.timestamp, now)
    BY <1>6 DEF ApplyEntry, storage
  <2>2. file[cursor] = Good(cur) /\ cur \in Entry
    BY <2>1 DEF IInv, ProcessInFile, TypeOK, Good, NoEntry
  <2>3. Applied = cursor - 1 /\ Applied' = Applied + 1 /\ Applied + 1 = cursor
    BY <1>0, <2>1 DEF Applied
  <2>4. file[Applied + 1].entry = cur
    BY <2>2, <2>3 DEF Good
  <2>5. Shown'
    BY <1>0, <2>1, <2>2, <2>3, <2>4, ApplyShown DEF LogInv
  <2> QED
    BY <2>1, <2>5, StorageKept DEF LogInv
<1>7. CASE ApplyFails
  BY <1>7, EveryEntryApplies DEF ApplyFails
<1> QED
  BY <1>1, <1>2, <1>3, <1>4, <1>5, <1>6, <1>7 DEF Service

\* A power loss shows a part of the file, or the device.
LEMMA SurvivorsLog ==
    ASSUME IInv, IInv', LogInv, SlotsSurvive
    PROVE  Len(file') <= MaxLog /\ Legal(file')
<1>0. /\ file \in Seq(Slot) /\ file' \in Seq(Slot) /\ Legal(file) /\ Legal(disk)
      /\ Len(file) \in Nat /\ DOMAIN file = 1 .. Len(file) /\ MaxLog \in Nat
      /\ Len(file) <= MaxLog /\ Len(disk) <= MaxLog
  BY Lengths, EngineAssumption DEF IInv, TypeOK, LogInv
<1>1. CASE file' = disk
  BY <1>0, <1>1
<1>2. ASSUME NEW n \in 0 .. Len(file),
             NEW damaged \in SUBSET (Unstable \cap (1 .. n)), NEW end \in {Bad, Torn},
             file' = [i \in 1 .. n |-> IF i \notin damaged THEN file[i]
                                       ELSE IF i = n THEN end ELSE Bad]
      PROVE  Len(file') <= MaxLog /\ Legal(file')
  <2>1. DOMAIN file' = 1 .. n /\ n \in Nat /\ Len(file') = n
    BY <1>0, <1>2, LenProperties
  <2>2. ~IsGood(Bad) /\ ~IsGood(end)
    BY DEF IsGood, Bad, Torn
  <2>3. \A i \in DOMAIN file' : IsGood(file'[i]) => i \in DOMAIN file /\ file'[i] = file[i]
    BY <1>0, <1>2, <2>1, <2>2
  <2>4. \A i \in DOMAIN file' : (\A j \in 1 .. i : IsGood(file'[j]))
            => i \in DOMAIN file /\ file'[i] = file[i]
    <3> TAKE i \in DOMAIN file'
    <3>1. i \in 1 .. i
      BY <2>1
    <3> QED
      BY <2>3, <3>1
  <2> QED
    BY <1>0, <2>1, <2>4, LegalWithin
<1> QED
  BY <1>1, <1>2 DEF SlotsSurvive

LEMMA EnvironmentLog ==
    ASSUME IInv, IInv', LogInv, Environment
    PROVE  LogInv'
<1>1. CASE Crash
  BY <1>1, FreshShown, StorageKept DEF Crash, Exit, storage, LogInv
<1>2. CASE PowerLoss
  <2>1. /\ pc' = "down" /\ FreshMemory /\ disk' = file'
        /\ SlotsSurvive \/ file' = <<>>
    BY <1>2 DEF PowerLoss, Exit
  <2>2. Shown'
    BY <2>1, FreshShown
  <2>3. Len(file') <= MaxLog /\ Legal(file')
    <3>1. CASE SlotsSurvive
      BY <3>1, SurvivorsLog
    <3>2. CASE file' = <<>>
      BY <3>2, EngineAssumption DEF Legal
    <3> QED
      BY <2>1, <3>1, <3>2
  <2>4. DiskBehind'
    BY <2>1 DEF DiskBehind
  <2>5. Len(disk') <= MaxLog /\ Legal(disk')
    BY <2>1, <2>3
  <2> QED
    BY <2>2, <2>3, <2>4, <2>5 DEF LogInv
<1>3. CASE Tick
  <2>1. /\ file' = file /\ disk' = disk /\ accts' = accts /\ cursor' = cursor /\ pc' = pc
    BY <1>3 DEF Tick, storage, memory
  <2> QED
    BY <2>1, StorageKept DEF LogInv, Shown, Applied, LogOf
<1> QED
  BY <1>1, <1>2, <1>3 DEF Environment

LEMMA LogInduction ==
    ASSUME LogFits
    PROVE  Spec => []LogInv
<1>1. Init => LogInv
  <2> SUFFICES ASSUME Init PROVE LogInv
    OBVIOUS
  <2>1. /\ file = <<>> /\ disk = <<>> /\ accts = <<>> /\ pc = "down" /\ cursor = 0
        /\ Applied = 0 /\ Len(<<>>) = 0 /\ DOMAIN <<>> = {}
    BY DEF Init, Applied
  <2>2. Shown
    BY <2>1, EmptyLog DEF Shown
  <2> QED
    BY <2>1, <2>2, EngineAssumption DEF LogInv, Legal, DiskBehind
<1>2. IInv /\ IInv' /\ LogInv /\ [Next]_vars => LogInv'
  <2> SUFFICES ASSUME IInv, IInv', LogInv, [Next]_vars PROVE LogInv'
    OBVIOUS
  <2>1. CASE UNCHANGED vars
    BY <2>1, StorageKept DEF vars, LogInv, Shown, Applied, LogOf
  <2> QED
    BY <2>1, RecoveryLog, ServiceLog, EnvironmentLog DEF Next
<1> QED
  BY <1>1, <1>2, InvariantHolds, PTL DEF Spec

-----------------------------------------------------------------------------
(* What the log and the accounts have to do with each other.               *)

LEMMA AppliedReadable ==
    ASSUME IInv, LogInv
    PROVE  Applied <= Len(file) /\ \A i \in 1 .. Applied : i \in DOMAIN file /\ IsGood(file[i])
<1>0. Len(file) \in Nat /\ DOMAIN file = 1 .. Len(file) /\ cursor \in Nat
  BY Lengths DEF IInv
<1>1. CASE pc \in {"down", "creating"}
  <2>1. cursor = 0
    BY <1>1 DEF IInv, ProcessInFile, LogInv, Shown
  <2>2. Applied = 0
    BY <1>1, <2>1 DEF Applied
  <2> QED
    BY <1>0, <2>2
<1>2. CASE pc \in {"replaying", "ready"}
  <2>1. Applied = cursor
    BY <1>2 DEF Applied
  <2>2. cursor <= Len(file) /\ \A i \in 1 .. cursor : IsGood(file[i])
    BY <1>0, <1>2 DEF IInv, ProcessInFile, ReadableTo
  <2> QED
    BY <1>0, <2>1, <2>2
<1>3. CASE pc \in {"written", "logged"}
  <2>1. Applied = cursor - 1
    BY <1>3 DEF Applied
  <2>2. cursor = Len(file) /\ \A i \in 1 .. cursor : IsGood(file[i])
    BY <1>0, <1>3 DEF IInv, ProcessInFile, ReadableTo
  <2> QED
    BY <1>0, <2>1, <2>2
<1> QED
  BY <1>1, <1>2, <1>3 DEF IInv, TypeOK, Pcs

\* The accounts served are those the log stands for, before and after any restart:
\* no entry is applied twice, skipped or applied out of order (let.c:191-318,
\* wal.c:149-252).
THEOREM ServesTheLog ==
    ASSUME LogFits
    PROVE  Spec => []StateIsLog
<1>1. IInv /\ LogInv => StateIsLog
  BY AppliedReadable DEF StateIsLog, LogInv, Shown, LogOf
<1> QED
  BY <1>1, InvariantHolds, LogInduction, PTL

\* What replay applies without asking the guard would have passed it
\* (wal.c:175-225, state.c:50-51).
LEMMA ReplayedIsLegal ==
    ASSUME IInv, LogInv, AtSlot, IsGood(NextSlot)
    PROVE  Guard(accts, NextSlot.entry.op)
<1>1. /\ pc = "replaying" /\ cursor < Len(file) /\ cursor \in Nat /\ Len(file) \in Nat
      /\ DOMAIN file = 1 .. Len(file) /\ Applied = cursor /\ TypeOK
  BY Lengths DEF IInv, AtSlot, Replaying, Applied
<1>2. cursor + 1 \in DOMAIN file /\ \A j \in 1 .. cursor + 1 : IsGood(file[j])
  BY <1>1 DEF IInv, ProcessInFile, ReadableTo, NextSlot
<1>3. Guard(AccountsAfter(LogOf(file, (cursor + 1) - 1)), file[cursor + 1].entry.op)
  BY <1>2 DEF LogInv, Legal
<1>4. (cursor + 1) - 1 = Applied /\ file[cursor + 1] = NextSlot
  BY <1>1 DEF NextSlot
<1>5. NextSlot.entry.op \in Operation
  BY <1>1, NextSlotType
<1> QED
  BY <1>1, <1>3, <1>4, <1>5, GuardOfLog DEF LogInv

\* Every entry a start can reach passes, in the state replay has rebuilt, the guard it
\* passed when it was logged, so that no account is looked up that is not there.
THEOREM ReplayTheorem ==
    ASSUME LogFits
    PROVE  Spec => []ReplayMeetsGuard
<1>1. IInv /\ LogInv => ReplayMeetsGuard
  BY ReplayedIsLegal DEF ReplayMeetsGuard
<1> QED
  BY <1>1, InvariantHolds, LogInduction, PTL

\* The entry that is served passes the guard still, when it is applied.
LEMMA ServedIsLegal ==
    ASSUME IInv, LogInv, pc = "logged"
    PROVE  Guard(accts, cur.op) /\ cur \in Entry
<1>1. /\ cursor \in Nat /\ cursor > 0 /\ cursor = Len(file) /\ file[cursor] = Good(cur)
      /\ DOMAIN file = 1 .. Len(file) /\ \A j \in 1 .. cursor : IsGood(file[j])
      /\ cur \in Entry /\ TypeOK /\ Applied = cursor - 1
  BY Lengths DEF IInv, TypeOK, ProcessInFile, ReadableTo, Applied, NoEntry
<1>2. Guard(AccountsAfter(LogOf(file, cursor - 1)), file[cursor].entry.op)
  BY <1>1 DEF LogInv, Legal
<1>3. file[cursor].entry = cur /\ cur.op \in Operation
  BY <1>1 DEF Good, Entry
<1> QED
  BY <1>1, <1>2, <1>3, GuardOfLog DEF LogInv

\* No account that may not be in debt pays more than it has, be the transfer served
\* or replayed, though replay runs no guard (guard.c:65-76, wal.c:196-211).
THEOREM PaysTheorem ==
    ASSUME LogFits
    PROVE  Spec => PaysFromBalance
<1> DEFINE Pays ==
      \A i \in DOMAIN accts \cap DOMAIN accts' :
        accts'[i].credits # accts[i].credits /\ "debt" \notin accts[i].flags
            => /\ accts'[i].credits > accts[i].credits
               /\ accts'[i].debits >= accts'[i].credits
<1>1. IInv /\ LogInv /\ [Next]_vars => [Pays]_vars
  <2> SUFFICES ASSUME IInv, LogInv, Next PROVE Pays
    OBVIOUS
  <2>0. accts \in Seq(Account) /\ now \in Nat
    BY EngineAssumption DEF IInv, TypeOK
  <2>1. CASE accts' = accts
    BY <2>1
  <2>2. CASE accts' = <<>>
    BY <2>2
  <2>3. CASE ReplayEntry
    <3>1. /\ AtSlot /\ IsGood(NextSlot)
          /\ accts' = Apply(accts, NextSlot.entry.op, NextSlot.entry.timestamp, now)
      BY <2>3 DEF ReplayEntry
    <3>2. /\ Guard(accts, NextSlot.entry.op)
          /\ NextSlot.entry.op \in Operation /\ NextSlot.entry.timestamp \in Nat
      BY <3>1, ReplayedIsLegal, NextSlotType DEF IInv
    <3> QED
      BY <2>0, <3>1, <3>2, ApplyPays
  <2>4. CASE ApplyEntry
    <3>1. pc = "logged" /\ accts' = Apply(accts, cur.op, cur.timestamp, now)
      BY <2>4 DEF ApplyEntry
    <3>2. Guard(accts, cur.op) /\ cur.op \in Operation /\ cur.timestamp \in Nat
      BY <3>1, ServedIsLegal DEF Entry
    <3> QED
      BY <2>0, <3>1, <3>2, ApplyPays
  <2>5. Recovery => accts' = accts \/ accts' = <<>> \/ ReplayEntry
    BY DEF Recovery, CreateFile, WriteHeader, OpenFile, OpenRefused, ReplayFails,
           ReplayTruncate, ReplayRefused, ReplayEnd, Exit, FreshMemory, memory, vars
  <2>6. Service => accts' = accts \/ accts' = <<>> \/ ApplyEntry
    BY DEF Service, WriteEntry, WriteFails, Reject, SyncEntry, SyncFails, ApplyFails,
           Exit, FreshMemory, vars
  <2>7. Environment => accts' = accts \/ accts' = <<>>
    BY DEF Environment, Crash, PowerLoss, Tick, Exit, FreshMemory, memory
  <2> QED
    BY <2>1, <2>2, <2>3, <2>4, <2>5, <2>6, <2>7 DEF Next
<1> QED
  BY <1>1, InvariantHolds, LogInduction, PTL DEF Spec, PaysFromBalance

-----------------------------------------------------------------------------
(* Money is neither made nor lost.                                         *)

Moves(n) == {i \in 1 .. n : file[i].entry.op.type = "make_transfer"}

\* The list s has the sums of the first n entries.
HasSums(s, n) ==
    /\ s \in Seq(Account)
    /\ \E k \in Int : Balances(s) = SumFunction([i \in 1 .. n |-> Opened(i)]) + k * Width
    /\ Counted(s) = 2 * Cardinality(Moves(n))

LEMMA EntryAt ==
    ASSUME TypeOK, NEW i \in 1 .. Len(file), IsGood(file[i])
    PROVE  /\ file[i].entry \in Entry /\ file[i].entry.op \in Operation
           /\ file[i].entry.timestamp \in Nat
           /\ Opened(i) = OpenedWith(file[i].entry.op) /\ Opened(i) \in Int
<1>1. file[i] \in Slot
  BY ElementOfSeq DEF TypeOK
<1>2. file[i].entry \in Entry
  BY <1>1 DEF Slot, IsGood, Bad, Torn
<1>3. file[i].entry.op \in Operation /\ file[i].entry.timestamp \in Nat
  BY <1>2 DEF Entry
<1>4. Opened(i) = OpenedWith(file[i].entry.op)
  BY DEF Opened, OpenedWith
<1>5. \A op \in Operation : OpenedWith(op) \in Int
  BY OperationTypes, WidthAssumption DEF OpenedWith, U128
<1> QED
  BY <1>2, <1>3, <1>4, <1>5

LEMMA NothingConserved ==
    HasSums(AccountsAfter(LogOf(file, 0)), 0)
<1> DEFINE none == <<>>
<1>1. AccountsAfter(LogOf(file, 0)) = none
  BY EmptyLog
<1>2. none \in Seq(Account) /\ DOMAIN none = {}
  OBVIOUS
<1>3. Balances(none) = 0 /\ Counted(none) = 0
  <2>1. \A f : SumFunctionOnSet(f, {}) = 0
    BY SumOfNone
  <2>2. DOMAIN [i \in DOMAIN none |-> none[i].debits - none[i].credits] = {}
          /\ DOMAIN [i \in DOMAIN none |-> none[i].transactions] = {}
    BY <1>2
  <2> HIDE DEF none
  <2> QED
    BY <2>1, <2>2 DEF Balances, Counted, SumFunction
<1>4. SumFunction([i \in 1 .. 0 |-> Opened(i)]) = 0
  <2>1. DOMAIN [i \in 1 .. 0 |-> Opened(i)] = {}
    OBVIOUS
  <2> QED
    BY <2>1, SumOfNone DEF SumFunction
<1>5. Cardinality(Moves(0)) = 0
  <2>1. Moves(0) = {}
    BY DEF Moves
  <2> QED
    BY <2>1, FS_EmptySet
<1>6. 0 \in Int /\ 0 = 0 + 0 * Width
  BY WidthAssumption DEF Width
<1> HIDE DEF none
<1>7. \E k \in Int : Balances(none) = SumFunction([i \in 1 .. 0 |-> Opened(i)]) + k * Width
  BY <1>3, <1>4, <1>6
<1>8. Counted(none) = 2 * Cardinality(Moves(0))
  BY <1>3, <1>5
<1> QED
  BY <1>1, <1>2, <1>7, <1>8 DEF HasSums

LEMMA OneMoreConserved ==
    ASSUME TypeOK, Legal(file), NEW n \in Nat, n + 1 <= Len(file),
           \A i \in 1 .. n + 1 : IsGood(file[i]), HasSums(AccountsAfter(LogOf(file, n)), n)
    PROVE  HasSums(AccountsAfter(LogOf(file, n + 1)), n + 1)
<1> DEFINE e == file[n + 1].entry
           o(i) == Opened(i)
           f == [i \in 1 .. n |-> Opened(i)]
           g == [i \in 1 .. n + 1 |-> Opened(i)]
<1>0. /\ Len(file) \in Nat /\ DOMAIN file = 1 .. Len(file) /\ n + 1 \in 1 .. Len(file)
      /\ (n + 1) - 1 = n /\ \A i \in 1 .. n + 1 : i \in 1 .. Len(file)
  BY Lengths
<1>1. PICK s \in Seq(Account) : s = AccountsAfter(LogOf(file, n))
  BY DEF HasSums
<1>2. Guard(s, e.op)
  <2>1. Guard(AccountsAfter(LogOf(file, (n + 1) - 1)), e.op)
    BY <1>0 DEF Legal
  <2> QED
    BY <1>0, <1>1, <2>1
<1>3. e.op \in Operation /\ e.timestamp \in Nat /\ Opened(n + 1) = OpenedWith(e.op)
  BY <1>0, EntryAt
<1>4. PICK t : t = After(s, e)
  OBVIOUS
<1>5. AccountsAfter(LogOf(file, n + 1)) = t
  BY <1>1, <1>4, LogAppend
<1> HIDE DEF e
<1>6. /\ t \in Seq(Account) /\ Balances(s) \in Int /\ Counted(s) \in Int
      /\ \E k \in Int : Balances(t) = Balances(s) + OpenedWith(e.op) + k * Width
      /\ Counted(t) = Counted(s) + CountsOf(e.op)
  BY <1>2, <1>3, <1>4, AfterConserves
<1>7. \E k \in Int : Balances(t) = SumFunction(g) + k * Width
  <2>1. f \in [1 .. n -> Int] /\ g \in [1 .. n + 1 -> Int]
    BY <1>0, EntryAt
  <2>2. (\A i \in 1 .. n : g[i] = f[i]) /\ g[n + 1] = OpenedWith(e.op) /\ g[n + 1] \in Int
    BY <1>0, <1>3, EntryAt
  <2>3. \E k \in Int : Balances(s) = SumFunction(f) + k * Width
    BY <1>1 DEF HasSums
  <2> HIDE DEF f, g
  <2>4. SumFunction(f) \in Int /\ SumFunction(g) = SumFunction(f) + g[n + 1]
    BY <2>1, <2>2, SumAppend
  <2>5. PICK j \in Int : Balances(s) = SumFunction(f) + j * Width
    BY <2>3
  <2>6. PICK k \in Int : Balances(t) = Balances(s) + OpenedWith(e.op) + k * Width
    BY <1>6
  <2>7. PICK m \in Int, v \in Int, w \in Int : v = j * Width /\ w = k * Width /\ v + w = m * Width
    <3>1. j * Width + k * Width = (j + k) * Width /\ j * Width \in Int /\ k * Width \in Int
      BY WidthAssumption DEF Width
    <3> QED
      BY <3>1
  <2>8. PICK a \in Int, b \in Int : a = SumFunction(f) /\ b = OpenedWith(e.op)
    BY <2>2, <2>4
  <2>9. Balances(t) = a + v + b + w /\ SumFunction(g) = a + b
    BY <2>2, <2>4, <2>5, <2>6, <2>7, <2>8
  <2>10. a + v + b + w = (a + b) + (v + w)
    BY <2>7, <2>8
  <2> QED
    BY <2>7, <2>9, <2>10
<1>8. Counted(t) = 2 * Cardinality(Moves(n + 1))
  <2>1. IsFiniteSet(Moves(n)) /\ Cardinality(Moves(n)) \in Nat /\ n + 1 \notin Moves(n)
    <3>1. IsFiniteSet(1 .. n) /\ Moves(n) \subseteq 1 .. n /\ n + 1 \notin 1 .. n
      BY FS_Interval DEF Moves
    <3> QED
      BY <3>1, FS_Subset, FS_CardinalityType
  <2>2. 1 .. n + 1 = (1 .. n) \cup {n + 1}
    OBVIOUS
  <2>3. Counted(s) = 2 * Cardinality(Moves(n))
    BY <1>1 DEF HasSums
  <2>4. CASE e.op.type = "make_transfer"
    <3>1. Moves(n + 1) = Moves(n) \cup {n + 1}
      BY <2>2, <2>4 DEF Moves, e
    <3>2. Cardinality(Moves(n + 1)) = Cardinality(Moves(n)) + 1
      BY <2>1, <3>1, FS_AddElement
    <3>3. CountsOf(e.op) = 2
      BY <2>4 DEF CountsOf
    <3> QED
      BY <1>6, <2>1, <2>3, <3>2, <3>3
  <2>5. CASE e.op.type # "make_transfer"
    <3>1. Moves(n + 1) = Moves(n)
      BY <2>2, <2>5 DEF Moves, e
    <3>2. CountsOf(e.op) = 0
      BY <2>5 DEF CountsOf
    <3> QED
      BY <1>6, <2>1, <2>3, <3>1, <3>2
  <2> QED
    BY <2>4, <2>5
<1> QED
  BY <1>5, <1>6, <1>7, <1>8 DEF HasSums

LEMMA LogConserves ==
    ASSUME TypeOK, Legal(file), NEW n \in Nat, n <= Len(file), \A i \in 1 .. n : IsGood(file[i])
    PROVE  HasSums(AccountsAfter(LogOf(file, n)), n)
<1> DEFINE S == {k \in Nat : k <= n => HasSums(AccountsAfter(LogOf(file, k)), k)}
<1>0. Len(file) \in Nat
  BY Lengths
<1>1. 0 \in S
  BY NothingConserved
<1>2. ASSUME NEW k \in Nat, k \in S PROVE k + 1 \in S
  <2> SUFFICES ASSUME k + 1 <= n PROVE HasSums(AccountsAfter(LogOf(file, k + 1)), k + 1)
    OBVIOUS
  <2>1. k + 1 <= Len(file) /\ (\A i \in 1 .. k + 1 : IsGood(file[i])) /\ k <= n
    BY <1>0
  <2>2. HasSums(AccountsAfter(LogOf(file, k)), k)
    BY <1>2, <2>1
  <2> QED
    BY <2>1, <2>2, OneMoreConserved
<1>3. Nat \subseteq S
  <2> HIDE DEF S
  <2> QED
    BY <1>1, <1>2, NatInduct
<1> QED
  BY <1>3

\* Money moves and is neither made nor lost, in the accounts that are served and in
\* those that replay rebuilds: modulo 2^128 the accounts' debits less their credits are
\* those the logged accounts were opened with, and each transfer counts once on each
\* side, for no counter wraps (state.c:53-57, guard.c:79).
THEOREM ConservesMoney ==
    ASSUME LogFits
    PROVE  Spec => []Conserved
<1>1. IInv /\ LogInv => Conserved
  <2> SUFFICES ASSUME IInv, LogInv PROVE Conserved
    OBVIOUS
  <2>1. PICK n \in Nat : n = Applied
    BY DEF LogInv, Shown
  <2>2. TypeOK /\ Legal(file) /\ accts \in Seq(Account)
    BY DEF IInv, TypeOK, LogInv
  <2>3. n <= Len(file) /\ \A i \in 1 .. n : IsGood(file[i])
    BY <2>1, AppliedReadable
  <2>4. HasSums(AccountsAfter(LogOf(file, n)), n)
    BY <2>2, <2>3, LogConserves
  <2>5. AccountsAfter(LogOf(file, n)) = Untimed(accts)
    BY <2>1 DEF LogInv, Shown
  <2>6. /\ \E k \in Int : Balances(accts) = SumFunction([i \in 1 .. n |-> Opened(i)]) + k * Width
        /\ Counted(accts) = 2 * Cardinality(Moves(n))
    BY <2>2, <2>4, <2>5, SumsOfUntimed DEF HasSums
  <2>7. Wrap128(Balances(accts)) = Wrap128(SumFunction([i \in 1 .. n |-> Opened(i)]))
    <3> DEFINE f == [i \in 1 .. n |-> Opened(i)]
    <3>1. SumFunction(f) \in Int
      <4>1. \A i \in 1 .. n : f[i] \in Int
        <5>1. \A i \in 1 .. n : i \in 1 .. Len(file) /\ IsGood(file[i])
          BY <2>2, <2>3, Lengths
        <5> QED
          BY <2>2, <5>1, EntryAt
      <4>2. DOMAIN f = 1 .. n
        OBVIOUS
      <4> HIDE DEF f
      <4> QED
        BY <4>1, <4>2, FS_Interval, SumWithout DEF SumFunction
    <3>2. PICK k \in Int : Balances(accts) = SumFunction(f) + k * Width
      BY <2>6
    <3> HIDE DEF f
    <3>3. (SumFunction(f) + k * Width) % Width = SumFunction(f) % Width
      <4>1. Width \in Nat \ {0}
        BY WidthAssumption DEF Width
      <4> QED
        BY <3>1, <4>1, SameRemainder
    <3>4. Wrap128(Balances(accts)) = Wrap128(SumFunction(f))
      BY <3>2, <3>3 DEF Wrap128, Width
    <3> QED
      BY <3>4 DEF f
  <2>8. Transfers = Moves(n)
    BY <2>1 DEF Transfers, Moves
  <2> QED
    BY <2>1, <2>6, <2>7, <2>8 DEF Conserved, Balances, Counted
<1> QED
  BY <1>1, InvariantHolds, LogInduction, PTL

-----------------------------------------------------------------------------
(* The engine implements the durable ledger.                               *)

Prefix(slots) == {i \in DOMAIN slots : \A j \in 1 .. i : IsGood(slots[j])}
ReadLog(slots) == [i \in Prefix(slots) |-> slots[i].entry]

\* Slots can be read to the first that is not good.
LEMMA ReadsTo ==
    ASSUME NEW s \in Seq(Slot), NEW m \in Nat, m <= Len(s),
           \A i \in 1 .. m : IsGood(s[i]), m < Len(s) => ~IsGood(s[m + 1])
    PROVE  Prefix(s) = 1 .. m /\ ReadLog(s) = LogOf(s, m)
<1> DEFINE n == Len(s)
           Fine(i) == IsGood(s[i])
<1>0. /\ DOMAIN s = 1 .. n /\ n \in Nat /\ m <= n
      /\ \A i \in 1 .. m : Fine(i)
      /\ m < n => ~Fine(m + 1)
  BY LenProperties
<1>1. Prefix(s) = {i \in 1 .. n : \A j \in 1 .. i : Fine(j)}
  BY <1>0 DEF Prefix
<1> HIDE DEF n, Fine
<1>2. ASSUME NEW i \in 1 .. m PROVE i \in Prefix(s)
  BY <1>0, <1>1
<1>3. ASSUME NEW i \in Prefix(s) PROVE i \in 1 .. m
  <2>1. i \in 1 .. n /\ \A j \in 1 .. i : Fine(j)
    BY <1>1
  <2>2. SUFFICES ASSUME ~(i <= m) PROVE FALSE
    BY <1>0, <2>1
  <2>3. m < n /\ m + 1 \in 1 .. i
    BY <1>0, <2>1, <2>2
  <2> QED
    BY <1>0, <2>1, <2>3
<1>4. Prefix(s) = 1 .. m
  BY <1>2, <1>3
<1> QED
  BY <1>4 DEF ReadLog, LogOf

LEMMA ReadsSomewhere ==
    ASSUME NEW s \in Seq(Slot)
    PROVE  \E m \in Nat : /\ m <= Len(s) /\ \A i \in 1 .. m : IsGood(s[i])
                          /\ m < Len(s) => ~IsGood(s[m + 1])
<1> DEFINE n == Len(s)
           T == {i \in 1 .. n + 1 : i = n + 1 \/ ~IsGood(s[i])}
<1>1. n \in Nat
  BY LenProperties
<1> HIDE DEF n
<1>2. T \in SUBSET Nat /\ n + 1 \in T
  BY <1>1
<1>3. PICK x \in T : \A y \in T : x <= y
  <2> HIDE DEF T
  <2> QED
    BY <1>2, Least
<1>4. x - 1 \in Nat /\ x - 1 <= n /\ x \in 1 .. n + 1 /\ (x - 1) + 1 = x
  BY <1>1
<1>5. \A i \in 1 .. x - 1 : IsGood(s[i])
  <2> TAKE i \in 1 .. x - 1
  <2>1. i \in 1 .. n + 1 /\ i # n + 1 /\ ~(x <= i)
    BY <1>1, <1>4
  <2> QED
    BY <1>3, <2>1
<1>6. x - 1 < n => ~IsGood(s[x])
  BY <1>1, <1>4
<1> QED
  BY <1>4, <1>5, <1>6 DEF n

LEMMA Reads ==
    ReadableLog = ReadLog(file) /\ ReadableLog' = ReadLog(file')
BY DEF ReadableLog, Readable, ReadLog, Prefix

LEMMA AbstractGuard ==
    ASSUME NEW log, NEW op
    PROVE  Abstract!Guard(Abstract!AccountsAfter(log), op) <=> Guard(AccountsAfter(log), op)
<1>1. Abstract!AccountsAfter(log) = AccountsAfter(log)
  BY DEF Abstract!AccountsAfter, AccountsAfter, Abstract!Untimed, Untimed, Abstract!Apply, Apply,
     Abstract!NewAccount, NewAccount, Abstract!StateMakeTransfer, StateMakeTransfer,
     Abstract!StateUpdateAccount, StateUpdateAccount, Abstract!Wrap128, Wrap128,
     Abstract!Wrap64, Wrap64
<1>2. \A a : Abstract!Guard(a, op) <=> Guard(a, op)
  BY DEF Abstract!Guard, Guard, Abstract!GuardMakeTransfer, GuardMakeTransfer,
     Abstract!Exists, Exists, Abstract!Wrap128, Wrap128
<1> QED
  BY <1>1, <1>2

\* A file that shows the same slots as far as it can be read.
LEMMA SameReads ==
    ASSUME NEW s \in Seq(Slot), NEW t \in Seq(Slot), NEW m \in Nat,
           m <= Len(s), \A i \in 1 .. m : IsGood(s[i]), m < Len(s) => ~IsGood(s[m + 1]),
           m <= Len(t), \A i \in 1 .. m : t[i] = s[i], m < Len(t) => ~IsGood(t[m + 1])
    PROVE  ReadLog(t) = ReadLog(s)
<1>1. ReadLog(s) = LogOf(s, m)
  BY ReadsTo
<1>2. \A i \in 1 .. m : IsGood(t[i])
  OBVIOUS
<1>3. ReadLog(t) = LogOf(t, m)
  BY <1>2, ReadsTo
<1> QED
  BY <1>1, <1>3, SameLog

\* One more slot that can be read.
LEMMA OneMoreRead ==
    ASSUME NEW s \in Seq(Slot), NEW t \in Seq(Slot), \A i \in 1 .. Len(s) : IsGood(s[i]),
           Len(t) = Len(s) + 1, \A i \in 1 .. Len(s) : t[i] = s[i], IsGood(t[Len(t)])
    PROVE  /\ Len(ReadLog(s)) = Len(s) /\ ReadLog(s) = LogOf(s, Len(s))
           /\ ReadLog(t) = Append(ReadLog(s), t[Len(t)].entry)
<1> DEFINE n == Len(s)
<1>1. n \in Nat /\ Len(t) = n + 1 /\ n + 1 \in Nat
  BY LenProperties
<1> HIDE DEF n
<1>2. ReadLog(s) = LogOf(s, n)
  BY <1>1, ReadsTo DEF n
<1>3. \A i \in 1 .. n + 1 : IsGood(t[i])
  BY <1>1 DEF n
<1>4. ReadLog(t) = LogOf(t, n + 1)
  BY <1>1, <1>3, ReadsTo
<1>5. Len(LogOf(s, n)) = n
  BY <1>1, LogType
<1>6. LogOf(t, n + 1) = Append(LogOf(s, n), t[n + 1].entry)
  <2> DEFINE S == {t[i].entry : i \in 1 .. n + 1}
             x == LogOf(s, n)
             e == t[n + 1].entry
  <2>1. x \in Seq(S) /\ e \in S /\ Len(x) = n
    <3>1. \A i \in 1 .. n : i \in 1 .. n + 1 /\ s[i].entry = t[i].entry
      BY <1>1 DEF n
    <3>2. x \in [1 .. n -> S]
      BY <1>1, <3>1 DEF LogOf
    <3>3. e \in S
      BY <1>1
    <3> HIDE DEF x, S
    <3>4. x \in Seq(S)
      BY <1>1, <3>2
    <3> QED
      BY <1>5, <3>3, <3>4 DEF x
  <2>2. \A i \in 1 .. n : x[i] = t[i].entry
    BY <1>1, LogType DEF n
  <2> HIDE DEF x, e, S
  <2>3. /\ Append(x, e) \in Seq(S) /\ Len(Append(x, e)) = n + 1
        /\ \A i \in 1 .. n : Append(x, e)[i] = x[i]
        /\ Append(x, e)[n + 1] = e
    BY <2>1, AppendProperties
  <2>4. Append(x, e) = [i \in 1 .. n + 1 |-> Append(x, e)[i]]
    BY <2>3, LenProperties
  <2>5. \A i \in 1 .. n + 1 : Append(x, e)[i] = t[i].entry
    <3> TAKE i \in 1 .. n + 1
    <3>1. i \in 1 .. n \/ i = n + 1
      BY <1>1
    <3> QED
      BY <2>2, <2>3, <3>1 DEF e
  <2>6. Append(x, e) = [i \in 1 .. n + 1 |-> t[i].entry]
    BY <2>4, <2>5
  <2> QED
    BY <2>6 DEF LogOf, x, e
<1> QED
  BY <1>1, <1>2, <1>4, <1>5, <1>6 DEF n

-----------------------------------------------------------------------------
(* Every step is one of the durable ledger, or none.                       *)

LEMMA RecoveryImplements ==
    ASSUME IInv, IInv', LogInv, Recovery
    PROVE  UNCHANGED Abstract!vars
<1>1. SUFFICES ReadLog(file') = ReadLog(file) /\ acked' = acked
  BY Reads DEF Abstract!vars
<1>2. CASE file' = file
  BY <1>2 DEF Recovery, CreateFile, WriteHeader, OpenFile, OpenRefused, ReplayEntry,
     ReplayFails, ReplayTruncate, ReplayRefused, ReplayEnd, vars
<1>3. CASE ReplayTruncate
  <2>1. /\ pc = "replaying" /\ cursor < Len(file) /\ ~IsGood(file[cursor + 1])
        /\ file' = SubSeq(file, 1, cursor) /\ acked' = acked
    BY <1>3 DEF ReplayTruncate, AtSlot, Replaying, NextSlot
  <2>2. /\ file \in Seq(Slot) /\ file' \in Seq(Slot) /\ cursor \in Nat /\ Len(file) \in Nat
        /\ \A i \in 1 .. cursor : IsGood(file[i])
    BY <2>1, Lengths DEF IInv, TypeOK, ProcessInFile, ReadableTo
  <2>3. Len(file') = cursor /\ \A i \in 1 .. cursor : file'[i] = file[i]
    BY <2>1, <2>2, SubSeqProperties
  <2>4. cursor <= Len(file) /\ cursor <= Len(file') /\ ~(cursor < Len(file'))
    BY <2>1, <2>2, <2>3
  <2>5. PICK m, t : m = cursor /\ t = file'
    OBVIOUS
  <2>6. ReadLog(t) = ReadLog(file)
    BY <2>1, <2>2, <2>3, <2>4, <2>5, SameReads
  <2> QED
    BY <2>1, <2>5, <2>6
<1> QED
  BY <1>2, <1>3 DEF Recovery, CreateFile, WriteHeader, OpenFile, OpenRefused, ReplayEntry,
     ReplayFails, ReplayRefused, ReplayEnd, storage, vars

LEMMA ServiceImplements ==
    ASSUME IInv, IInv', LogInv, Service
    PROVE  [Abstract!Next]_(Abstract!vars)
<1>0. /\ TypeOK /\ file \in Seq(Slot) /\ file' \in Seq(Slot) /\ Len(file) \in Nat
      /\ DOMAIN file = 1 .. Len(file)
  BY Lengths DEF IInv, TypeOK
<1>1. ASSUME NEW id \in 0 .. MaxLog, NEW op \in Operations, WriteEntry(id, op)
      PROVE  Abstract!Commit(op, now) /\ now \in 0 .. MaxTime
  <2> DEFINE slot == Good(NewEntry(id, op))
  <2>1. /\ pc = "ready" /\ Guard(accts, op) /\ id = transactions
        /\ file' = SlotsAfterWrite(slot) /\ acked' = acked
    BY <1>1 DEF WriteEntry, Request, Accepted
  <2>2. /\ slot \in Slot /\ IsGood(slot) /\ op \in Operation
        /\ slot.entry = [id |-> id, timestamp |-> now, op |-> op]
    BY <1>0, EntryType, EngineAssumption DEF Good, NewEntry, IsGood
  <2> HIDE DEF slot
  <2>3. /\ \A i \in 1 .. Len(file) : IsGood(file[i])
        /\ cursor = Len(file) /\ id = Len(file) /\ Applied = Len(file)
    BY <2>1 DEF IInv, ProcessInFile, ReadableTo, Applied
  <2>4. /\ Len(file') = Len(file) + 1 /\ \A i \in 1 .. Len(file) : file'[i] = file[i]
        /\ file'[Len(file')] = slot
    BY <1>0, <2>1, <2>2, <2>3, WriteAppends
  <2>5. /\ Len(ReadLog(file)) = Len(file) /\ ReadLog(file) = LogOf(file, Len(file))
        /\ ReadLog(file') = Append(ReadLog(file), slot.entry)
    BY <1>0, <2>2, <2>3, <2>4, OneMoreRead
  <2>6. ReadableLog' = Append(ReadableLog, [id |-> Len(ReadableLog), timestamp |-> now,
                                            op |-> op])
    BY <2>2, <2>3, <2>5, Reads
  <2>7. Guard(AccountsAfter(ReadableLog), op)
    BY <1>0, <2>1, <2>2, <2>3, <2>5, Reads, GuardOfLog DEF LogInv
  <2>8. Abstract!Guard(Abstract!AccountsAfter(ReadableLog), op)
    BY <2>7, AbstractGuard
  <2> QED
    BY <1>0, <2>1, <2>6, <2>8 DEF Abstract!Commit, TypeOK
<1>2. ASSUME NEW id \in 0 .. MaxLog, NEW op \in Operations, WriteFails(id, op)
      PROVE  UNCHANGED Abstract!vars
  <2>1. pc = "ready" /\ file' = SlotsAfterWrite(Torn) /\ acked' = acked
    BY <1>2 DEF WriteFails, Request
  <2>2. Torn \in Slot /\ ~IsGood(Torn)
    BY DEF Slot, Torn, IsGood
  <2>3. (\A i \in 1 .. Len(file) : IsGood(file[i])) /\ cursor = Len(file)
    BY <2>1 DEF IInv, ProcessInFile, ReadableTo
  <2>4. /\ Len(file') = Len(file) + 1 /\ \A i \in 1 .. Len(file) : file'[i] = file[i]
        /\ file'[Len(file) + 1] = Torn
    BY <1>0, <2>1, <2>2, <2>3, WriteAppends
  <2>5. ReadLog(file') = ReadLog(file)
    BY <1>0, <2>2, <2>3, <2>4, SameReads
  <2> QED
    BY <2>1, <2>5, Reads DEF Abstract!vars
<1>3. CASE file' = file /\ acked' = acked
  BY <1>3, Reads DEF Abstract!vars
<1>4. CASE ApplyEntry
  <2>1. pc = "logged" /\ file' = file /\ acked' \in {acked, acked \cup {cur}}
    BY <1>4 DEF ApplyEntry, storage
  <2>2. CASE acked' = acked
    BY <1>3, <2>1, <2>2
  <2>3. CASE acked' = acked \cup {cur}
    <3>1. /\ \A i \in 1 .. Len(file) : IsGood(file[i])
          /\ Len(file) \in 1 .. Len(file) /\ file[Len(file)].entry = cur
      BY <1>0, <2>1 DEF IInv, ProcessInFile, ReadableTo, Good
    <3>2. ReadableLog = LogOf(file, Len(file))
      BY <1>0, <3>1, ReadsTo, Reads
    <3>3. DOMAIN ReadableLog = 1 .. Len(file) /\ ReadableLog[Len(file)] = cur
      BY <1>0, <3>1, <3>2 DEF LogOf
    <3>4. cur \in Abstract!Entries
      BY <3>1, <3>3 DEF Abstract!Entries
    <3>5. ReadableLog' = ReadableLog
      BY <2>1, Reads
    <3> QED
      BY <2>3, <3>4, <3>5 DEF Abstract!Acknowledge, Abstract!Next
  <2> QED
    BY <2>1, <2>2, <2>3
<1>5. Service => \/ \E id \in 0 .. MaxLog, op \in Operations :
                        WriteEntry(id, op) \/ WriteFails(id, op)
                 \/ ApplyEntry
                 \/ file' = file /\ acked' = acked
  BY DEF Service, Reject, SyncEntry, SyncFails, ApplyFails, storage, vars
<1>6. ASSUME NEW id \in 0 .. MaxLog, NEW op \in Operations,
             WriteEntry(id, op) \/ WriteFails(id, op)
      PROVE  [Abstract!Next]_(Abstract!vars)
  BY <1>1, <1>2, <1>6 DEF Abstract!Next
<1> QED
  BY <1>3, <1>4, <1>5, <1>6 DEF Abstract!vars

\* What a power loss leaves to read, could be read before.
LEMMA SurvivorsRead ==
    ASSUME IInv, LogInv, SlotsSurvive \/ file' = <<>>,
           NEW m \in Nat, m <= Len(file'), \A i \in 1 .. m : IsGood(file'[i])
    PROVE  m <= Len(file) /\ \A i \in 1 .. m : file'[i] = file[i]
<1>0. /\ Len(file) \in Nat /\ DOMAIN file = 1 .. Len(file)
      /\ Len(disk) \in Nat /\ DOMAIN disk = 1 .. Len(disk)
  BY Lengths DEF IInv
<1>1. SUFFICES \A i \in 1 .. m : i \in DOMAIN file /\ file'[i] = file[i]
  <2>1. CASE m = 0
    BY <1>0, <2>1
  <2>2. CASE m # 0
    <3>1. m \in 1 .. m
      BY <2>2
    <3>2. m \in 1 .. Len(file)
      BY <1>0, <1>1, <3>1
    <3> QED
      BY <1>0, <1>1, <3>2
  <2> QED
    BY <2>1, <2>2
<1>2. CASE file' = <<>>
  <2>1. m = 0
    BY <1>2
  <2> QED
    BY <2>1
<1>3. CASE file' = disk
  <2> TAKE i \in 1 .. m
  <2>1. i \in DOMAIN disk /\ \A j \in 1 .. i : j \in 1 .. m /\ IsGood(disk[j])
    BY <1>0, <1>3
  <2> QED
    BY <1>3, <2>1 DEF LogInv, DiskBehind
<1>4. ASSUME NEW n \in 0 .. Len(file),
             NEW damaged \in SUBSET (Unstable \cap (1 .. n)), NEW end \in {Bad, Torn},
             file' = [i \in 1 .. n |-> IF i \notin damaged THEN file[i]
                                       ELSE IF i = n THEN end ELSE Bad]
      PROVE  \A i \in 1 .. m : i \in DOMAIN file /\ file'[i] = file[i]
  <2>1. n \in Nat /\ Len(file') = n
    BY <1>0, <1>4
  <2>2. ~IsGood(Bad) /\ ~IsGood(end)
    BY DEF IsGood, Bad, Torn
  <2> TAKE i \in 1 .. m
  <2>3. i \in 1 .. n /\ i \in DOMAIN file
    BY <1>0, <2>1
  <2>4. file'[i] = IF i \notin damaged THEN file[i] ELSE IF i = n THEN end ELSE Bad
    BY <1>4, <2>3
  <2> QED
    BY <2>2, <2>3, <2>4
<1> QED
  BY <1>2, <1>3, <1>4 DEF SlotsSurvive

\* A power loss loses the end of the log, and nothing that was answered.
LEMMA PowerLossImplements ==
    ASSUME IInv, IInv', LogInv, PowerLoss
    PROVE  \E n \in 0 .. Len(ReadableLog) : Abstract!Lose(n)
<1>1. (SlotsSurvive \/ file' = <<>>) /\ acked' = acked
  BY DEF PowerLoss
<1>2. file \in Seq(Slot) /\ file' \in Seq(Slot) /\ Len(file) \in Nat /\ Len(file') \in Nat
  BY LenProperties DEF IInv, TypeOK
<1>3. PICK f : f = file'
  OBVIOUS
<1>4. PICK m \in Nat : /\ m <= Len(file) /\ \A i \in 1 .. m : IsGood(file[i])
                       /\ m < Len(file) => ~IsGood(file[m + 1])
  BY <1>2, ReadsSomewhere
<1>5. PICK n \in Nat : /\ n <= Len(f) /\ \A i \in 1 .. n : IsGood(f[i])
                       /\ n < Len(f) => ~IsGood(f[n + 1])
  BY <1>2, <1>3, ReadsSomewhere
<1>6. Prefix(file) = 1 .. m /\ ReadableLog = LogOf(file, m)
  BY <1>2, <1>4, ReadsTo, Reads
<1>7. Prefix(f) = 1 .. n /\ ReadableLog' = LogOf(f, n)
  BY <1>2, <1>3, <1>5, ReadsTo, Reads
<1>8. n <= Len(file) /\ \A i \in 1 .. n : f[i] = file[i]
  BY <1>1, <1>3, <1>5, SurvivorsRead
<1>9. n <= m
  <2> SUFFICES ASSUME ~(n <= m) PROVE FALSE
    OBVIOUS
  <2>1. m < Len(file) /\ m + 1 \in 1 .. n
    BY <1>2, <1>8
  <2> QED
    BY <1>4, <1>5, <1>8, <2>1
<1>10. /\ Len(ReadableLog) = m /\ n \in 0 .. Len(ReadableLog)
       /\ \A i \in 1 .. m : ReadableLog[i] = file[i].entry
  BY <1>6, <1>9, LogType
<1>11. ReadableLog' = SubSeq(ReadableLog, 1, n)
  <2>1. SubSeq(ReadableLog, 1, n) = [i \in 1 .. n |-> ReadableLog[i]]
    <3> DEFINE S == {file[i].entry : i \in 1 .. m}
               x == ReadableLog
    <3>1. x \in Seq(S)
      BY <1>6 DEF LogOf
    <3>2. Len(x) = m
      BY <1>10
    <3> HIDE DEF x
    <3>3. /\ DOMAIN SubSeq(x, 1, n) = 1 .. n
          /\ \A i \in 1 .. n : SubSeq(x, 1, n)[i] = x[i]
          /\ SubSeq(x, 1, n) \in Seq(S)
      BY <1>9, <3>1, <3>2, SubSeqProperties, LenProperties
    <3> QED
      BY <3>3 DEF x
  <2>2. \A i \in 1 .. n : ReadableLog[i] = f[i].entry
    BY <1>8, <1>9, <1>10
  <2> QED
    BY <1>7, <2>1, <2>2 DEF LogOf
<1>12. ASSUME NEW e \in acked PROVE \E i \in 1 .. n : ReadableLog[i] = e
  <2>1. e.id + 1 \in Nat /\ e.id + 1 \in 1 .. e.id + 1
    BY DEF IInv, TypeOK, Entry
  <2>2. /\ f[e.id + 1] = Good(e)
        /\ \A i \in 1 .. e.id + 1 : i \in DOMAIN f /\ IsGood(f[i])
    BY <1>1, <1>3 DEF IInv, AnsweredSettled, Settled
  <2>3. e.id + 1 \in Prefix(f)
    BY <2>1, <2>2 DEF Prefix
  <2>4. e.id + 1 \in 1 .. n /\ e.id + 1 \in 1 .. m
    BY <1>7, <1>9, <2>3
  <2>5. ReadableLog[e.id + 1] = e
    BY <1>8, <1>10, <2>2, <2>4 DEF Good
  <2> QED
    BY <2>4, <2>5
<1> QED
  BY <1>1, <1>10, <1>11, <1>12 DEF Abstract!Lose

\* Every step of the engine, in any state it can reach, is a commit after a guard that
\* passes on the log so far, an answer for a committed entry, the loss of an end nobody
\* was told of, or changes neither the log nor the answers: wal.c and let.c implement the
\* durable ledger, through every crash, failed call, recovery and power loss.
THEOREM Implements ==
    ASSUME LogFits
    PROVE  Spec => ImplementsDurableLedger
<1>1. Init => Abstract!Init
  <2> SUFFICES ASSUME Init PROVE Abstract!Init
    OBVIOUS
  <2>1. file = <<>> /\ acked = {} /\ <<>> \in Seq(Slot) /\ Len(<<>>) = 0
    BY DEF Init
  <2>2. ReadLog(<<>>) = LogOf(<<>>, 0)
    <3>1. 0 \in Nat /\ 0 <= Len(<<>>) /\ 1 .. 0 = {} /\ ~(0 < Len(<<>>))
      BY <2>1
    <3> QED
      BY <2>1, <3>1, ReadsTo
  <2>3. LogOf(<<>>, 0) = <<>>
    BY DEF LogOf
  <2> QED
    BY <2>1, <2>2, <2>3, Reads DEF Abstract!Init
<1>2. IInv /\ IInv' /\ LogInv /\ [Next]_vars => [Abstract!Next]_(Abstract!vars)
  <2> SUFFICES ASSUME IInv, IInv', LogInv, [Next]_vars
               PROVE  [Abstract!Next]_(Abstract!vars)
    OBVIOUS
  <2>1. CASE Recovery
    BY <2>1, RecoveryImplements
  <2>2. CASE Service
    BY <2>2, ServiceImplements
  <2>3. CASE PowerLoss
    BY <2>3, PowerLossImplements DEF Abstract!Next
  <2>4. (Crash \/ Tick \/ UNCHANGED vars) => file' = file /\ acked' = acked
    BY DEF Crash, Tick, storage, vars
  <2>5. CASE file' = file /\ acked' = acked
    BY <2>5, Reads DEF Abstract!vars
  <2> QED
    BY <2>1, <2>2, <2>3, <2>4, <2>5 DEF Next, Environment
<1> QED
  BY <1>1, <1>2, InvariantHolds, LogInduction, PTL DEF Spec, ImplementsDurableLedger, Abstract!Spec

=============================================================================
