------------------------------- MODULE BitRot -------------------------------
(***************************************************************************)
(* LetDB on a device that damages a slot at rest, which is what the        *)
(* checksum of every entry is for (wal.c:153-171), and under a kernel that *)
(* drops the pages a failed fsync could not write: they read as written,   *)
(* no later fsync writes them, and when they leave the cache the device    *)
(* has the old slot (wal.c:275).  Damage is one more fault, within the     *)
(* bound of LetDB; the page of the header is not dropped.                  *)
(***************************************************************************)
EXTENDS LetDB

\* A slot that was dropped, with what the device has instead.
Lost(s) == [state |-> "lost", device |-> s]
Dropped == {i \in DOMAIN disk : disk[i].state = "lost"}

OnDevice(i) == IF i \notin DOMAIN disk THEN Bad
               ELSE IF i \in Dropped THEN disk[i].device ELSE disk[i]
Dirty == {i \in DOMAIN file \ Dropped : i \notin DOMAIN disk \/ disk[i] # file[i]}

Rot(i) ==
    /\ pc = "down" /\ Fault
    /\ IsGood(file[i]) /\ i \notin Dropped
    /\ file' = [file EXCEPT ![i] = Bad]
    /\ disk' = [j \in DOMAIN disk |-> IF j = i THEN Bad ELSE disk[j]]
    /\ UNCHANGED <<header, dheader, pc, acked, now>> /\ UNCHANGED memory

\* fsync writes the header and fails, and the kernel gives up the slots it had to write.
SyncDrops ==
    /\ pc = "written"
    /\ Fault /\ Exit
    /\ disk' = [i \in DOMAIN file |-> IF i \in Dirty THEN Lost(OnDevice(i)) ELSE disk[i]]
    /\ dheader' = header
    /\ UNCHANGED <<header, file, acked, now>>

\* Mutant: the client is answered when its entry is logged, before it is applied
\* (let.c:207-224).
SyncLeavesDropped_Answers ==
    /\ pc = "written"
    /\ disk' = [i \in DOMAIN file |-> IF i \in Dropped THEN disk[i] ELSE file[i]]
    /\ dheader' = header
    /\ transactions' = transactions + 1
    /\ pc' = "logged"
    /\ acked' = acked \cup {cur}
    /\ UNCHANGED <<header, file, accts, capacity, cursor, cur, now, faults>>

\* fsync succeeds, and writes what has not been dropped.
SyncLeavesDropped ==
    /\ pc = "written"
    /\ disk' = [i \in DOMAIN file |-> IF i \in Dropped THEN disk[i] ELSE file[i]]
    /\ dheader' = header
    /\ transactions' = transactions + 1
    /\ pc' = "logged"
    /\ UNCHANGED <<header, file, accts, capacity, cursor, cur, acked, now, faults>>

\* A dropped page leaves the cache.  (Only a start reads the file.)
Evict(i) ==
    /\ pc = "down"
    /\ file' = [file EXCEPT ![i] = disk[i].device]
    /\ disk' = [disk EXCEPT ![i] = disk[i].device]
    /\ UNCHANGED <<header, dheader, pc, acked, now, faults>> /\ UNCHANGED memory

\* Power is lost with dropped pages: the device has the old slots, and of what waits
\* to be written all, some or nothing.
PowerLossDropped ==
    /\ Dropped # {}
    /\ Fault /\ Exit
    /\ \E n \in Len(disk) .. Len(file), written \in SUBSET Dirty :
        file' = [i \in 1 .. n |-> IF i \in Dropped \/ i \in Dirty \ written
                                  THEN OnDevice(i) ELSE file[i]]
    /\ disk' = file'
    /\ UNCHANGED <<header, dheader, acked, now>>

RotNext ==
    \/ Recovery \/ Crash \/ Tick \/ SyncFails \/ ApplyEntry \/ ApplyFails
    \/ \E id \in 0 .. MaxLog, op \in Operations :
            WriteEntry(id, op) \/ WriteFails(id, op) \/ Reject(id, op)
    \/ SyncDrops \/ SyncLeavesDropped
    \/ Dropped = {} /\ PowerLoss
    \/ PowerLossDropped
    \/ \E i \in Dropped : Evict(i)
    \/ \E i \in DOMAIN file : Rot(i)

RotSpec == Init /\ [][RotNext]_vars

\* Without --truncate-on-fail a process that starts serves every operation ever
\* answered: a slot that is damaged, or that a failed fsync has left out below entries
\* answered since, is never skipped over or cut off (wal.c:153-171, 266-280).
StartsWhole ==
    [][pc = "replaying" /\ pc' = "ready"
        => \A e \in acked : e.id + 1 \in DOMAIN file' /\ file'[e.id + 1] = Good(e)]_vars

\* Whenever a process starts, and however late, it has the accounts the log opened, in
\* its order, each opened at the time the log has for it and not that of the start
\* (wal.c:178-190).  When an account was last changed is not read back: a transfer takes
\* the clock of the start (state.c:45).  Of that time this says only that it lies between
\* the opening and now; that it is another after a restart is ReplayClock's.
OpensAccount(k) == file[k].entry.op.type = "add_account"
Openings(k) == {j \in 1 .. k : OpensAccount(j)}
OpenedWhenLogged ==
    \A i \in DOMAIN accts :
        /\ \E k \in 1 .. Applied :
            /\ OpensAccount(k) /\ Cardinality(Openings(k)) = i
            /\ accts[i].created_at = file[k].entry.timestamp
        /\ accts[i].updated_at \in accts[i].created_at .. now

=============================================================================
