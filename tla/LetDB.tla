-------------------------------- MODULE LetDB --------------------------------
(***************************************************************************)
(* The LetDB engine: the write-ahead log, the recovery that replays it at  *)
(* start and the request handler that logs an operation, applies it to the *)
(* account list and answers (let.c, storage/wal.c), over a file whose last *)
(* writes a power loss can undo.                                           *)
(*                                                                         *)
(* The file is a header and a sequence of slots, one per fixed-size entry. *)
(* A slot is an entry whose checksum matches, a full slot whose checksum   *)
(* does not, or (last) a slot cut short.  `header` and `file` are what the *)
(* operating system shows a process, `dheader` and `disk` what has reached *)
(* the device.  A process that dies loses its memory, a machine that loses *)
(* power also loses some of what was not synced.                           *)
(*                                                                         *)
(* One connection is served at a time and each request is handled to its   *)
(* end before the next is read, so requests do not interleave; what does   *)
(* interleave with every step is the clock, a crash and a power loss.      *)
(***************************************************************************)
EXTENDS Ledger, FiniteSets, Functions

CONSTANTS CapDefault,       \* LET_ACCOUNT_CAPACITY_DEFAULT
          AccountSize,      \* sizeof(let_account_t)
          AllocMax,         \* the most bytes malloc and realloc give
          Operations,       \* the operations clients ask for
          TruncateOnFail,   \* --truncate-on-fail
          MaxLog,           \* bound: entries the log may reach
          MaxFaults,        \* bound: failed system calls, crashes, power losses
          MaxTime           \* bound: last value of the clock

ASSUME EngineAssumption ==
    /\ Operations \subseteq Operation
    /\ TruncateOnFail \in BOOLEAN
    /\ MaxLog \in 0 .. U64Max
    /\ MaxFaults \in Nat
    /\ MaxTime \in Nat

\* No allocator gives an object of more than half of what a size_t can count
\* (PTRDIFF_MAX); the list a process starts with is given.
ASSUME MemoryAssumption ==
    /\ CapDefault \in Nat \ {0} /\ AccountSize \in Nat \ {0} /\ AllocMax \in Nat
    /\ 2 * AllocMax <= U64Max
    /\ AccountSize * CapDefault <= AllocMax

VARIABLES
    header,        \* the file header as a process sees it
    file,          \* the slots as a process sees them
    dheader,       \* the header on the device
    disk,          \* the slots on the device
    pc,            \* where the process is
    accts,         \* let.account_list, accounts and length
    capacity,      \* let.account_list->capacity
    transactions,  \* let.storage_wal.transactions
    cursor,        \* file offset of the descriptor, in slots
    cur,           \* the entry being written and applied
    acked,         \* history: the entries a client got an answer for
    now,           \* time(nullptr)
    faults         \* faults so far

storage == <<header, file, dheader, disk>>
memory == <<accts, capacity, transactions, cursor, cur>>
vars == <<header, file, dheader, disk, pc, accts, capacity, transactions,
          cursor, cur, acked, now, faults>>

-----------------------------------------------------------------------------
(* Slots and entries.                                                      *)

Entry == [id: Nat, timestamp: Nat, op: Operation]
NoEntry == [id |-> -1]

Good(e) == [state |-> "good", entry |-> e]
Bad == [state |-> "bad"]
Torn == [state |-> "torn"]
Slot == [state: {"good"}, entry: Entry] \cup {Bad, Torn}

IsGood(s) == s.state = "good"

Headers == {"absent", "partial", "ok"}
Pcs == {"down", "creating", "replaying", "ready", "written", "logged"}

\* What malloc and realloc are asked for: a product in 64 bits, which nothing checks.
Bytes(cap) == Wrap64(AccountSize * cap)

\* let_account_list_add: a full list doubles its capacity, unless twice the capacity does
\* not fit in 64 bits (CAPACITY_OVERFLOW) or realloc has no memory (OUT_OF_MEMORY).
NeedsGrowth(list, cap) == Len(list) >= cap
CapacityOverflows(list, cap) == NeedsGrowth(list, cap) /\ 2 * cap > U64Max
OutOfMemory(list, cap) == NeedsGrowth(list, cap) /\ Bytes(2 * cap) > AllocMax
HasRoom(list, cap) == ~CapacityOverflows(list, cap) /\ ~OutOfMemory(list, cap)
CapacityAfterAdd(list, cap) == IF NeedsGrowth(list, cap) THEN 2 * cap ELSE cap

\* A write of one slot at the descriptor's offset: it overwrites what is there,
\* and what it skips reads as zeros.
SlotsAfterWrite(slot) ==
    [i \in 1 .. (IF cursor < Len(file) THEN Len(file) ELSE cursor + 1) |->
        IF i = cursor + 1 THEN slot
        ELSE IF i <= Len(file) THEN file[i] ELSE Bad]

-----------------------------------------------------------------------------
TypeOK ==
    /\ header \in Headers /\ dheader \in Headers
    /\ file \in Seq(Slot) /\ disk \in Seq(Slot)
    /\ pc \in Pcs
    /\ accts \in Seq(Account)
    /\ capacity \in U64
    /\ transactions \in Nat /\ cursor \in Nat
    /\ cur \in Entry \cup {NoEntry}
    /\ (pc \in {"written", "logged"} <=> cur # NoEntry)
    /\ acked \in SUBSET Entry
    /\ now \in 0 .. MaxTime
    /\ faults \in 0 .. MaxFaults

\* A new machine: no storage file, no process.
Init ==
    /\ header = "absent" /\ dheader = "absent"
    /\ file = <<>> /\ disk = <<>>
    /\ pc = "down"
    /\ accts = <<>> /\ capacity = CapDefault
    /\ transactions = 0 /\ cursor = 0
    /\ cur = NoEntry
    /\ acked = {}
    /\ now = 0
    /\ faults = 0

-----------------------------------------------------------------------------
(* Memory: what a process starts with, and what is left when it ends.      *)

FreshMemory ==
    /\ accts' = <<>>
    /\ capacity' = CapDefault
    /\ transactions' = 0
    /\ cursor' = 0
    /\ cur' = NoEntry

Exit == pc' = "down" /\ FreshMemory

Fault == faults < MaxFaults /\ faults' = faults + 1

SeekEnd == cursor' = Len(file')

-----------------------------------------------------------------------------
(* Start: let_init, with let_storage_wal_init and let_storage_wal_replay.  *)

\* open(O_CREAT | O_EXCL) makes the file; its header is yet to be written.
CreateFile ==
    /\ pc = "down" /\ header = "absent"
    /\ header' = "partial"
    /\ pc' = "creating"
    /\ FreshMemory
    /\ UNCHANGED <<file, dheader, disk, acked, now, faults>>

\* Magic and version are both written: the replay of the empty log starts.
WriteHeader ==
    /\ pc = "creating"
    /\ header' = "ok"
    /\ pc' = "replaying"
    /\ UNCHANGED <<file, dheader, disk, acked, now, faults>> /\ UNCHANGED memory

\* Mutant: the replay reads on from the end of the file (wal.c:140).
OpenFile_NoSeekStart ==
    /\ pc = "down" /\ header = "ok"
    /\ pc' = "replaying"
    /\ accts' = <<>> /\ capacity' = CapDefault /\ transactions' = 0 /\ cur' = NoEntry
    /\ cursor' = Len(file)
    /\ UNCHANGED storage /\ UNCHANGED <<acked, now, faults>>

\* EEXIST, and the header of the file reads back: the replay starts after it.
OpenFile ==
    /\ pc = "down" /\ header = "ok"
    /\ pc' = "replaying"
    /\ FreshMemory
    /\ UNCHANGED storage /\ UNCHANGED <<acked, now, faults>>

\* EEXIST, and the header is short: READ_FAILED, the process exits.
OpenRefused ==
    /\ pc = "down" /\ header = "partial"
    /\ UNCHANGED vars

NextSlot == file[cursor + 1]
Replaying == pc = "replaying"
AtSlot == Replaying /\ cursor < Len(file)

\* Mutant: the list is read back without growing its capacity (account.c:68).
ReplayEntry_KeepsCapacity ==
    /\ AtSlot /\ IsGood(NextSlot)
    /\ accts' = Apply(accts, NextSlot.entry.op, NextSlot.entry.timestamp, now)
    /\ transactions' = transactions + 1
    /\ cursor' = cursor + 1
    /\ UNCHANGED storage /\ UNCHANGED <<pc, capacity, cur, acked, now, faults>>

\* Mutant: an account read back is stamped with the time of the start (wal.c:178-182).
ReplayEntry_StampsNow ==
    /\ AtSlot /\ IsGood(NextSlot)
    /\ LET e == NextSlot.entry
       IN  /\ e.op.type = "add_account" => HasRoom(accts, capacity)
           /\ accts' = Apply(accts, e.op, now, now)
           /\ capacity' = IF e.op.type = "add_account"
                          THEN CapacityAfterAdd(accts, capacity) ELSE capacity
    /\ transactions' = transactions + 1
    /\ cursor' = cursor + 1
    /\ UNCHANGED storage /\ UNCHANGED <<pc, cur, acked, now, faults>>

\* An entry whose checksum matches is applied, with no guard and whatever its id.
ReplayEntry ==
    /\ AtSlot /\ IsGood(NextSlot)
    /\ LET e == NextSlot.entry
       IN  /\ e.op.type = "add_account" => HasRoom(accts, capacity)
           /\ accts' = Apply(accts, e.op, e.timestamp, now)
           /\ capacity' = IF e.op.type = "add_account"
                          THEN CapacityAfterAdd(accts, capacity) ELSE capacity
    /\ transactions' = transactions + 1
    /\ cursor' = cursor + 1
    /\ UNCHANGED storage /\ UNCHANGED <<pc, cur, acked, now, faults>>

\* let_account_list_add returns an error, either one: let_init gives up.
ReplayFails ==
    /\ AtSlot /\ IsGood(NextSlot)
    /\ NextSlot.entry.op.type = "add_account" /\ ~HasRoom(accts, capacity)
    /\ Exit
    /\ UNCHANGED storage /\ UNCHANGED <<acked, now, faults>>

\* Mutant: no seek after the truncation (wal.c:251).
ReplayTruncate_NoSeekEnd ==
    /\ AtSlot /\ ~IsGood(NextSlot)
    /\ TruncateOnFail
    /\ file' = SubSeq(file, 1, cursor)
    /\ cursor' = cursor + 1
    /\ pc' = "ready"
    /\ UNCHANGED <<header, dheader, disk, accts, capacity, transactions, cur,
                   acked, now, faults>>

\* Mutant: a slot cut short stops the start (wal.c:229 without wal.c:234-236).
ReplayTruncate_NotTorn ==
    /\ AtSlot /\ NextSlot = Bad
    /\ TruncateOnFail
    /\ file' = SubSeq(file, 1, cursor)
    /\ SeekEnd
    /\ pc' = "ready"
    /\ UNCHANGED <<header, dheader, disk, accts, capacity, transactions, cur,
                   acked, now, faults>>

\* Mutant: the option is not looked at (wal.c:155).
ReplayTruncate_Always ==
    /\ AtSlot /\ ~IsGood(NextSlot)
    /\ file' = SubSeq(file, 1, cursor)
    /\ SeekEnd
    /\ pc' = "ready"
    /\ UNCHANGED <<header, dheader, disk, accts, capacity, transactions, cur,
                   acked, now, faults>>

\* A checksum mismatch (the slot is already read, so the descriptor is past it)
\* or a short read: cut the file at file_offset, then seek to its end.
ReplayTruncate ==
    /\ AtSlot /\ ~IsGood(NextSlot)
    /\ TruncateOnFail
    /\ file' = SubSeq(file, 1, cursor)
    /\ SeekEnd
    /\ pc' = "ready"
    /\ UNCHANGED <<header, dheader, disk, accts, capacity, transactions, cur,
                   acked, now, faults>>

\* The same without --truncate-on-fail: the process exits.
ReplayRefused ==
    /\ AtSlot /\ ~IsGood(NextSlot)
    /\ ~TruncateOnFail
    /\ Exit
    /\ UNCHANGED storage /\ UNCHANGED <<acked, now, faults>>

\* read returns 0: seek to the end; the network server is initialised.
ReplayEnd ==
    /\ Replaying /\ cursor >= Len(file)
    /\ UNCHANGED storage
    /\ SeekEnd
    /\ pc' = "ready"
    /\ UNCHANGED <<accts, capacity, transactions, cur, acked, now, faults>>

-----------------------------------------------------------------------------
(* A logged request: let_request's ADD_ACCOUNT, MAKE_TRANSFER and          *)
(* UPDATE_ACCOUNT with let_storage_wal_write.  MAGIC, GET_ACCOUNT,         *)
(* COUNT_DATABASE and CLOSE change nothing here.                           *)

\* Mutant: the nonce check is dropped (wal.c:258).
Accepted_NoNonce(id, op) == Guard(accts, op)

\* Mutant: the entry is logged before the guard has passed it (let.c:234, 290).
Accepted_NoGuard(id, op) == id = transactions

\* The guard first, then the nonce check of let_storage_wal_write.
Accepted(id, op) == Guard(accts, op) /\ id = transactions

Request(id, op) ==
    /\ pc = "ready"
    /\ transactions < MaxLog
    /\ Accepted(id, op)

NewEntry(id, op) == [id |-> id, timestamp |-> now, op |-> op]

\* The whole slot is written to the file.
WriteEntry(id, op) ==
    /\ Request(id, op)
    /\ cur' = NewEntry(id, op)
    /\ file' = SlotsAfterWrite(Good(NewEntry(id, op)))
    /\ cursor' = cursor + 1
    /\ pc' = "written"
    /\ UNCHANGED <<header, dheader, disk, accts, capacity, transactions, acked,
                   now, faults>>

\* A short write (or a process killed in it): WRITE_FAILED is fatal.
WriteFails(id, op) ==
    /\ Request(id, op)
    /\ Fault
    /\ file' = SlotsAfterWrite(Torn)
    /\ Exit
    /\ UNCHANGED <<header, dheader, disk, acked, now>>

\* The entry is refused: nothing is written, the client gets an error.
Reject(id, op) ==
    /\ pc = "ready"
    /\ ~Accepted(id, op)
    /\ UNCHANGED vars

\* Mutant: no fsync (wal.c:275).
SyncEntry_NoFsync ==
    /\ pc = "written"
    /\ transactions' = transactions + 1
    /\ pc' = "logged"
    /\ UNCHANGED storage /\ UNCHANGED <<accts, capacity, cursor, cur, acked, now, faults>>

\* fsync, then the sequence number moves on.
SyncEntry ==
    /\ pc = "written"
    /\ disk' = file /\ dheader' = header
    /\ transactions' = transactions + 1
    /\ pc' = "logged"
    /\ UNCHANGED <<header, file, accts, capacity, cursor, cur, acked, now, faults>>

\* SYNC_FAILED is fatal: the entry stays in the file, of unknown durability.
SyncFails ==
    /\ pc = "written"
    /\ Fault
    /\ Exit
    /\ UNCHANGED storage /\ UNCHANGED <<acked, now>>

Unapplied == cur.op.type = "add_account" /\ ~HasRoom(accts, capacity)

\* The state machine runs and the answer is sent.  Whether it reaches the client
\* makes no difference to the engine.  (A crash between the two is one before.)
ApplyEntry ==
    /\ pc = "logged" /\ ~Unapplied
    /\ accts' = Apply(accts, cur.op, cur.timestamp, now)
    /\ capacity' = IF cur.op.type = "add_account"
                   THEN CapacityAfterAdd(accts, capacity) ELSE capacity
    /\ acked' \in {acked, acked \cup {cur}}
    /\ cur' = NoEntry
    /\ pc' = "ready"
    /\ UNCHANGED storage /\ UNCHANGED <<transactions, cursor, now, faults>>

\* The entry is logged but has no effect.  CAPACITY_OVERFLOW would be answered as a
\* rejection; OUT_OF_MEMORY is fatal.
ApplyFails ==
    /\ pc = "logged" /\ Unapplied
    /\ IF CapacityOverflows(accts, capacity)
       THEN /\ cur' = NoEntry /\ pc' = "ready"
            /\ UNCHANGED <<accts, capacity, transactions, cursor>>
       ELSE Exit
    /\ UNCHANGED storage /\ UNCHANGED <<acked, now, faults>>

-----------------------------------------------------------------------------
(* The environment.                                                        *)

\* The process ends: a signal, or a fatal error anywhere its effect on storage is
\* none (time(), open, read, lseek, ftruncate, the header's writes, and malloc or
\* realloc before `AllocMax`).
Crash ==
    /\ pc # "down"
    /\ Fault
    /\ Exit
    /\ UNCHANGED storage /\ UNCHANGED <<acked, now>>

\* Slot i is on the device, with all before it, as the process sees it.
Stable(i) == i <= Len(disk) /\ \A j \in 1 .. i : file[j] = disk[j]
Unstable == {i \in 1 .. Len(file) : ~Stable(i)}

\* Of what was not synced, each slot is kept or damaged and the end may be lost;
\* or a truncation not yet synced is undone.
SlotsSurvive ==
    \/ \E n \in 0 .. Len(file) :
        /\ (n + 1) .. Len(file) \subseteq Unstable
        /\ \E damaged \in SUBSET (Unstable \cap (1 .. n)), end \in {Bad, Torn} :
            file' = [i \in 1 .. n |-> IF i \notin damaged THEN file[i]
                                      ELSE IF i = n THEN end ELSE Bad]
    \/ file' = disk

PowerLoss ==
    /\ Fault
    /\ Exit
    /\ IF dheader = "ok"
       THEN header' = "ok" /\ SlotsSurvive
       ELSE /\ header' \in {dheader, header}
                 \cup (IF header = "absent" THEN {} ELSE {"partial"})
            /\ IF header' = "ok" THEN SlotsSurvive ELSE file' = <<>>
    /\ dheader' = header' /\ disk' = file'
    /\ UNCHANGED <<acked, now>>

Tick ==
    /\ now < MaxTime
    /\ now' = now + 1
    /\ UNCHANGED storage /\ UNCHANGED memory /\ UNCHANGED <<pc, acked, faults>>

-----------------------------------------------------------------------------
Recovery ==
    \/ CreateFile \/ WriteHeader \/ OpenFile \/ OpenRefused
    \/ ReplayEntry \/ ReplayFails \/ ReplayTruncate \/ ReplayRefused
    \/ ReplayEnd

Service ==
    \/ \E id \in 0 .. MaxLog, op \in Operations :
            WriteEntry(id, op) \/ WriteFails(id, op) \/ Reject(id, op)
    \/ SyncEntry \/ SyncFails \/ ApplyEntry \/ ApplyFails

Environment == Crash \/ PowerLoss \/ Tick

Next == Recovery \/ Service \/ Environment

Spec == Init /\ [][Next]_vars

-----------------------------------------------------------------------------
(* What the engine promises.                                               *)

\* An operation a client got an answer for is on the device and in the file, in
\* its place, through every crash, power loss and recovery (wal.c:266-280: write,
\* then fsync, then answer; wal.c:249: the writes after a recovery append).
Durable ==
    \A e \in acked :
        /\ e.id + 1 \in DOMAIN disk /\ disk[e.id + 1] = Good(e)
        /\ e.id + 1 \in DOMAIN file /\ file[e.id + 1] = Good(e)

\* The sequence number of an entry is its place in the file, so a client that
\* reads `transactions` names the next entry (wal.c:258, which compares an id to
\* a counter that only replay, which checks no id, rebuilds).
InSequence ==
    \A i \in DOMAIN file : IsGood(file[i]) => file[i].entry.id = i - 1

\* A process that serves has a readable file, writes at its end, and counts its
\* entries, whatever the last process and the device left (wal.c:149-252).
ServesWholeFile ==
    pc = "ready" =>
        /\ \A i \in DOMAIN file : IsGood(file[i])
        /\ cursor = Len(file)
        /\ transactions = Len(file)

\* Replay applies entries with no guard and indexes accounts with no bounds check
\* (wal.c:175-225, state.c:50-51): every entry it can reach passes, in the state
\* replay has rebuilt, the guard it passed when it was logged.
ReplayMeetsGuard ==
    AtSlot /\ IsGood(NextSlot) => Guard(accts, NextSlot.entry.op)

\* The list is never written past its allocation, when it is served and when it is
\* read back from its smallest capacity: the product of account.c:61 does not wrap,
\* since memory runs out before it could.  For the same reason no entry that is logged
\* is rejected for the capacity, and replayed later all the same (account.c:50-71,
\* let.c:212-222).
WithinCapacity ==
    /\ AccountSize * Len(accts) <= Bytes(capacity)
    /\ pc = "logged" /\ Unapplied => OutOfMemory(accts, capacity)

\* An account a client was told of is never what a start runs out of memory for: it
\* reads it back with the memory that was there when it was opened (account.c:54-64).
AnsweredFits ==
    AtSlot /\ IsGood(NextSlot) /\ NextSlot.entry.op.type = "add_account"
        /\ NextSlot.entry \in acked => HasRoom(accts, capacity)

\* How many of the file's entries the memory must show.
Applied == IF pc \in {"written", "logged"} THEN cursor - 1 ELSE cursor

\* The accounts served are those the log stands for, before and after any restart:
\* nothing is applied twice, skipped or applied out of order (let.c:191-318).
StateIsLog ==
    /\ \A i \in 1 .. Applied : i \in DOMAIN file /\ IsGood(file[i])
    /\ Untimed(accts) = AccountsAfter([i \in 1 .. Applied |-> file[i].entry])

\* Money moves and is neither made nor lost: modulo 2^128 the accounts' debits less
\* their credits are those the logged accounts were opened with, and each
\* transfer counts once on each side (state.c:53-57).
Opened(i) == IF file[i].entry.op.type = "add_account"
             THEN file[i].entry.op.debits - file[i].entry.op.credits ELSE 0
Transfers == {i \in 1 .. Applied : file[i].entry.op.type = "make_transfer"}
Conserved ==
    /\ Wrap128(SumFunction([i \in DOMAIN accts |-> accts[i].debits - accts[i].credits]))
         = Wrap128(SumFunction([i \in 1 .. Applied |-> Opened(i)]))
    /\ SumFunction([i \in DOMAIN accts |-> accts[i].transactions])
         = 2 * Cardinality(Transfers)

\* Whether a transfer is served or replayed, an account that may not be in debt
\* never pays more than it has: its credits do not wrap and stay within its
\* debits (guard.c:65-76, which replay does not run).
PaysFromBalance ==
    [][\A i \in DOMAIN accts \cap DOMAIN accts' :
        accts'[i].credits # accts[i].credits /\ "debt" \notin accts[i].flags
            => /\ accts'[i].credits > accts[i].credits
               /\ accts'[i].debits >= accts'[i].credits]_vars

\* The system restarts the process (README.md: restart unless-stopped) and the
\* process runs: every step of a start is eventually taken.
StartStep == CreateFile \/ WriteHeader \/ OpenFile \/ ReplayEntry \/ ReplayTruncate
                \/ ReplayRefused \/ ReplayEnd \/ ReplayFails
HandlerStep == SyncEntry \/ ApplyEntry \/ ApplyFails
FairSpec == Spec /\ WF_vars(StartStep) /\ WF_vars(HandlerStep)

\* With --truncate-on-fail, whatever crashes and power losses left in the slots, a
\* file whose header is on the device is served again (wal.c:153-246).
RecoversWithHeader == dheader = "ok" ~> pc = "ready"

\* The same of every start: what OVERVIEW.md and wal.h say of recovery.
RecoversAlways == pc = "down" ~> pc = "ready"

=============================================================================
