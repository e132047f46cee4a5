# LetDX: models, model checking and proofs

LetDX is a ledger service of two programs. **LetDB** (C) keeps accounts in memory
and a write-ahead log on disk, and serves one TCP connection at a time. **LetDD**
(Go) is an HTTP front end; its handlers share one TCP client of LetDB. This
directory holds TLA+ modules of both, the TLC configurations that check them, and
theorems about them with TLAPS proofs. `PROJECT.json` maps every definition to the
source lines it translates.

## Inventory

| Part | State | Operations | What makes it correct |
|---|---|---|---|
| Accounts, guard, state machine (`account.c`, `guard.c`, `state.c`) | `account_list`: accounts, length, capacity | add account, make transfer, update account, each behind its guard | no account without the debt flag overpays; counters and sums keep their width; money is conserved; the list stays inside the bytes it was given, which an unchecked product asks for |
| Write-ahead log (`storage/wal.c`) | the file (10-byte header, fixed-size slots), the descriptor's offset, `transactions` | create, open, replay, truncate, write, fsync | an answered operation is never lost; entries are in sequence; a start replays exactly what was logged; recovery ends in service |
| Request handler (`let.c`: `let_init`, `let_request`) | the singleton `let` | start; guard, log, sync, apply, answer | memory is what the log says; replay meets no entry its guard would refuse |
| Server loop, sockets, signals (`let.c`: `let_run`, `let_close`; `network/server.c`, `main.c`) | `accepting`, `executing`, `error`, the accepted connection | accept, read a line, act on the error, write, close; SIGTERM/SIGINT | no connection left open; a signal stops the process |
| Error table (`error.c`, `error.h`) | none | error -> code; error -> none, reject, ignore, close or fatal | a code stands for one error; no connection goes on in the middle of a line or a response |
| Request decoder (`network/request`) | none between lines | line -> request | exact values and widths; accepts the grammar, names the cause of a refusal |
| Response encoder (`network/response`) | none between responses | response -> line | LetDD reads every response, with its values |
| TCP client (`LetDD/tcp/client.go`) | mutex, connection, `transactions` | `Communicate`: lock, try, connect and handshake, send, receive, finish | a reply reaches its own call; a success is committed; one call is one entry; every call returns |
| Supervisor (`LetDD/supervisor`) | `CurrentTry` | `Try`, `Reset`, backoff | attempts are bounded; delays grow to the maximum |
| Codecs (`LetDD/tcp/request.go`, `response.go`, `LetDD/uint128`) | none | request -> line; line -> response; 128-bit numbers and decimal text | LetDB reads what was asked |
| HTTP server (`LetDD/http`) | token, permissions, rate limiter | authorization, one handler per route, context timeout | one `Communicate` per request, within the permissions; the client is told what LetDB answered |
| Configuration and main (`LetDD/config`, `LetDD/main.go`) | the options | parsing | |
| Command line, logging, CRC (`cli.c`, `log.c`, `crc.c`) | the options | parsing, printing, checksum | |

**How they interact.** A handler calls `Communicate` with the request's context.
`Communicate` takes the client's mutex and loops under the supervisor: connect (the
handshake `#` returns the number of logged operations, which becomes the next
sequence number), send one line, read one line. The server accepts one connection,
reads and answers its lines one by one until it ends, then accepts the next from
the listen queue. A logged request runs guard, sequence check, write, fsync, state
machine, answer, in that order and without interruption by other requests.

**What is hard.** Crashes and power losses between any two of those steps, and what
a file system keeps of them; a recovery that truncates and is itself interrupted;
replay without guards; a list that cannot grow behind a log that has; responses lost after a commit, and the retry; a sequence
number that is cached per connection; a context that ends at any moment; a server
that serves one connection while others wait; a leaked connection; signal handlers
that set flags the loop sets too; lines and responses cut short; a kernel that drops
what it could not write; integers at their limits. `hazards` in
`PROJECT.json` has each with its line and the properties that would notice.

## Modules

| Module | Models | Lines of the code |
|---|---|---|
| `Ledger` | operators: accounts, guards, state machine, `AccountsAfter` (what a replay of a log yields) | `account.c`, `guard.c`, `state.c`, `let.c` 178-324, `wal.c` 148-225 |
| `Accounts` | the accounts as a state machine of its own, for narrow integers and long histories | the same, without storage and allocation |
| `LetDB` | the engine: file and device, start, replay, requests, the growth of the account list, failing calls, crashes, power losses | `wal.c`, `let.c` 22-73, 178-324, `account.c` 31-72 |
| `DurableLedger` | the promise: a log of legal operations that never loses an answered one | abstract |
| `LetDBRefinement` | `LetDB` implements `DurableLedger` | refinement mapping |
| `BitRot` | `LetDB` with a device that damages a slot at rest and a kernel that drops the pages of a failed `fsync` | the reason for `wal.c` 152-171, 269-280 |
| `ReplayClock` | `LetDB` with the accounts that were last served beside it | `state.c` 41-63 |
| `LetDX` | daemons (client, supervisor, contexts), connections, server; the log as the sequence of committed calls | `client.go`, `supervisor.go`, `let.c` 75-161, `server.c` |
| `LetRun` | the server loop byte by byte, its flags and the signals | `let.c` 75-166, `server.c` 66-202, `main.c` 38-54 |
| `Errors` | operators: every error, its code and its action | `error.h` 21-122, `error.c` 47-294 |
| `Decoder` | the request decoder as a machine over bytes, and what a line means without one | `decoder.c` 33-321 |
| `Codec` | operators: the lines LetDD writes, the responses LetDB encodes, and LetDD's reading of them | `tcp/request.go`, `uint128.go`, `encoder.c`, `tcp/response.go` |
| `Supervisor` | `Try` with its backoff, and `Reset` | `supervisor.go` |
| `Gateway` | one HTTP request through authorization, binding, attempts, handshake, text, decoder, answer and back | `LetDD/http`, `client.go`, with `Codec`, `Decoder`, `Errors` and `Supervisor` |
| `Induction`, `LedgerLemmas` | lemmas: induction over numbers, recursion, sums, remainders and folds; the operators of `Ledger` | |
| `Accounts_proof`, `LetDB_proof`, `BitRot_proof`, `LetRun_proof`, `LetDX_proof`, `Gateway_proof` | theorems; `LetDB_proof` has those of `LetDBRefinement` too, `Gateway_proof` those of `Decoder`, `Codec`, `Errors` and `Supervisor` | |
| `MC...` | small instances for TLC | |

`LetDB` and `LetDX` compose through the log: `LetDB` shows that an answered
operation is durable and that the sequence check gives every entry its place;
`LetDX` takes the log as a sequence that changes as that of `DurableLedger` does, and
looks at what several clients and a network make of it. A request that is handled to its
answer is `DurableLedger!Commit` with the `fsync` behind it (`Handle`); a process that
dies after the write and before the `fsync` has made the first step only
(`CrashBeforeSync`): its entry is read and counted by the next start, is made durable by
the next `fsync` (`synced`), and may until then be taken back by a loss of power
(`PowerLoss`), which is `DurableLedger!Lose`. `LetRun` has the server's loop of `LetDX`
in full, down to bytes, flags and signals, for any clients. `Gateway` has what one request of `LetDX` says, and leaves
to `LetDX` and `LetDB` what its answer depends on: an attempt may be lost at any
point, and an answer is any the code can give to the command.

**Correspondence in `LetDB`.** `pc` is where the process is: `down`, `creating`
(between `open(O_EXCL)` and the end of the header), `replaying`, `ready` (waiting
for a request), `written` (after `write`), `logged` (after `fsync`). `header` and
`file` are what the kernel shows a process, `dheader` and `disk` what is on the
device. `acked` is history: the entries whose answer was sent. Slots are good
(checksum matches), bad (a full slot whose checksum does not match) or torn (cut
short). `capacity` and the bytes it stands for (`Bytes`, a product in 64 bits) are what
`account.c` 31-72 asks `malloc` and `realloc` for, and `AllocMax` what they give: beyond it a
request that opens an account is logged and ends the process (`OUT_OF_MEMORY` is fatal), and
a start that meets its entry fails (`ApplyFails`, `ReplayFails`). A file with damaged slots
is cut at the first, as `wal.c` 152-171 and 227-243 do, and the descriptor is moved to the end (`wal.c` 251).

**Correspondence in `LetDX`.** `step[d]` is the line of `Communicate` the call that
holds the mutex of daemon `d` has reached; `tries`, `conn`, `counter`, `failed`,
`reply` are the variables of that name or `supervisor.CurrentTry`,
`client.connection`, `client.transactions`, `err`, `response`. A connection has a
queue in each direction and a flag for each end that is open. Of `log`, the calls whose
entries are in the file, the first `synced` are on the device.

**Correspondence in `LetRun`.** `pc` is the line of `let_run`; `accepting`,
`executing` and `error` are the members of `let`. A system call is two steps,
entering it and waiting in it, since a signal that arrives before the first is not
seen by the second. `index` is `read_buffer_index`; `unsent` counts the bytes of
the response `send` has left. `midline`, `cut`, `signalled` and `late` are history.

**Correspondence in `BitRot`.** A page the kernel drops after a failed `fsync` is a
slot `Lost` on the device: processes still read the entry from the page cache, later
calls of `fsync` succeed without it, and the page may be evicted or lost with the
power, which leaves a hole. A hole of zeros does not match its checksum (the CRC
starts from all ones).

**Correspondence in `Gateway`.** `stage` is where the request is: `arriving`,
`routed` (authorized), `bound` (in the loop of `Communicate`), `greeting` and
`greeted` (handshake), `connected`, `sent`, `answered`, `replied`, or `failed` when
`Communicate` returned an error (`Abort`, a 500): after its attempts, or because the
context had ended by the time a response was read (`client.go` 89-91). `typing` is for a
line that comes from no LetDD. `config` is the part of the configuration that decides,
`call` the request as its handler holds it, `line` what the decoder has not read.
Numbers are sequences of digits in
base `Base`, so that every width, 8, 16, 64 and 128 bits, 18-digit chunks and
hexadecimal nibbles, shrinks with it. A response is given as its fields.

## Runs

| Run | Checks | Instance and why it is enough |
|---|---|---|
| `engine` | `TypeOK`, `Durable`, `InSequence`, `ServesWholeFile`, `ReplayMeetsGuard`, `StateIsLog`, `Conserved`, `PaysFromBalance`, `ImplementsDurableLedger`, `RecoversWithHeader` | 4 entries, 2 faults, 8 operations (two accounts, transfers both ways, a freeze, a change of flags), capacity from 1 so that it doubles twice; 161,096 states (accounts of one byte, and memory for all of them). Two faults give a torn write, a truncating recovery, and a power loss that undoes the truncation. `MaxTime` is 0: the clock matters to no property here. |
| `accounts` | `TypeOK`, `PaysFromBalance`, `CountersGrow` | integers of two bits, every amount, three accounts opened at the limit of their debits or owing, freezes: each sum and each counter reaches its limit, the two of a transfer at different times; 158,028 states |
| `bit_rot` | `StartsWhole`, `WithinCapacity`, `AnsweredFits`, `OpenedWhenLogged` | no truncation, 3 entries, 3 faults (damage, a failed `fsync` and what follows it are three), clock up to 1, and memory for two accounts (an account is two bytes, `AllocMax` 7, sizes below 16), so that the third is logged and not applied; 179,572 states |
| `clients` | `TypeOK`, `SuccessIsCommitted`, `CommitsBounded`, `CounterNotAhead`, `OnceWithoutFaults` | one daemon, three calls (one a read), two attempts each, a listen queue of two, two faults, read timeout; 1,805,554 states. Three calls let a stale reply of the first meet the third; two attempts are one retry; two faults are a crash before the `fsync` and the power loss that takes back an entry the handshake in between has counted. |
| `returns` | `EveryCallReturns` | two daemons with a call each, one fault, read timeout, fairness; 227,794 states |
| `signals` | `TypeOK`, `OneMoreAtMost`, `WholeLines`, `WholeResponses`, `StopsWithClients` | a buffer of 3 bytes and responses of 2: a line may end before the buffer, at its end and beyond, a response may be cut once; one error for each action the loop distinguishes, beside those of the sockets; no other bound but the history counter `late`, which stops at 2; 44,120 states |
| `decoder` | `TypeOK`, `DecodesExactly`, `RefusesForCause`, `RequestSurvives`, `AnswerSurvives`, `PermissionsHold`, `BackoffHolds` | base 5, integers of 4 and 8 bits; every typed line of up to 7 bytes after each of the 7 commands; ids, amounts and counts at 0, at each limit, one above and one below 0, flag lists with repetitions and unknown names; 7 attempts, so that the product wraps to below 0 and then to 0, with the minimum below and above the maximum; 1,301,791 states |

In base 5 a maximum of 15 is `30` and one of 255 is `2010`: neither is all nines, so
that both overflow checks of the decoder bite at the last digit, and a chunk of two
digits has leading zeros to keep. The buffers are no bound: the longest line LetDD
writes has 105 bytes and the longest response 74, of 128. (The encoder checks the
capacity for the digits of integers only, not for the kind, the spaces and the
newline; the run gives it the smallest capacity that suffices, which `CapacityAssumption` asks for.)

The engine's run was also made with three faults (301,759 states, about three
minutes), with the same result.

The remaining runs are disagreements between the code and what the repository says
of it. TLC finds a shortest behaviour for each:

| Run | Property | What happens |
|---|---|---|
| `retry` | `AtMostOnce` | The connection is lost after the commit and before the response; the client reconnects, takes the new count as its sequence number and sends the request again: two entries for one `POST`. |
| `stale_counter` | `CounterInStep` | The context ends after the response was read: `Communicate` returns before it counts the transaction and keeps the connection, whose next numbered request is refused. |
| `starved` | `EveryCallReturns` | With the default read timeout (0) the server stays with one idle connection; another client waits in its handshake for ever, holding the mutex. |
| `header_crash` | `RecoversAlways` | A crash before the header is complete leaves a file no start accepts. |
| `replay_clock` | `RecoveryIsDeterministic` | A transfer is applied at one time and, after a crash, replayed at another: `updated_at` is the clock's, not the entry's (`state.c` 45), although `docs/OVERVIEW.md` 30-31 has requests applied deterministically at runtime and in recovery. |

Deadlock is checked in every run but `starved`, where a system that stops is the
subject. `LetDX`, `LetRun` and `Gateway` end in an explicit stuttering step when every call
has returned, the process has exited or the client has its reply.

### Seen while modelling

No run refutes a sentence of the repository with these, but a maintainer should know
of them:

- *Recovery after a failed `fsync`.* `let_request` treats it as fatal. The next start
  reads the entry from the page cache and serves it. With `--truncate-on-fail`, if the
  kernel had dropped the page, entries answered since lie behind a hole after a power
  loss and are cut with it: `StartsWhole` fails in `BitRot` with `TruncateOnFail =
  TRUE` even without damage at rest. Without the option the start is refused, which
  is what the run `bit_rot` shows.
- *A list that cannot grow.* `let_request` logs the request before it knows that there is
  memory for the account. If there is none the process exits, and every start fails at
  the same entry, until there is more memory: `--truncate-on-fail` does not help. The entry was never
  answered (`AnsweredFits`). The check of `account.c:57` decides nothing: at 64 bytes an
  account the product of `account.c:61` would wrap at a capacity of 2^58, before twice a
  capacity leaves 64 bits; but no allocator gives the half of that, which is what keeps the
  product from wrapping where `realloc` succeeds (`WithinCapacity`).
- *An answer that is not told.* `Communicate` looks at its context once more after it has
  read the response (`client.go:89-91`). If it has ended the HTTP client gets a 500,
  whatever the response was, a success included. `AnswerSurvives` is about the answers
  that are told, and excepts this; `stale_counter` shows what else comes of it.
- *A signal in `send`* leaves half a response, and `let.executing` is set again
  (`let.c:145`), so that the connection goes on: `WholeResponses` excepts it.
- *Receiving.* The guard checks the sums of the sender only (`guard.c:66-76`), and
  `state.c:54` adds to the recipient's debits modulo 2^128. An account without
  `CAN_DEBT` that receives beyond that ends with debits below its credits, though
  `account.h:31` gives only that flag a negative balance.
- *Backoff.* After some forty attempts the delay falls back to the minimum and stays.
- *Negative amounts* in a JSON body pass `uint128.Parse`, which compares with the
  largest value only: `-5` is sent as 2^65 - 5. `RequestSurvives` excepts them.
- *Options.* `ParseRateLimiter` reads the burst of three parts only
  (`parser.go:40`), though its format allows four; `ParseSupervisor` accepts two parts
  and then reads a third (`parser.go:88`), which panics. `main.go:57` goes on when
  `Collect` fails, with what was read up to then, which is neither token nor
  permissions.
- *Permissions* are asked only where a token is configured (`http/server.go:43`);
  `docs/LETDD.md:11` says they strictly gate each method. `PermissionsHold` says what holds.

### Fairness

- `LetDB!FairSpec`: the process is restarted (the root README runs it with
  `restart: unless-stopped`) and runs: weak fairness of the steps of a start and of
  a request under way. No fairness of requests, crashes, power losses or the clock.
- `LetDX!FairSpec`: weak fairness of each daemon's step (Go schedules every
  goroutine; a dial either succeeds, fails or is refused), of the server's step
  and restart, of a read timeout that is set, of the finalizer that closes a
  connection nobody holds, and of the end of each context (`http/server.go` 53).
  None of faults.
- `LetRun!BusySpec`: weak fairness of the loop (not of failures and timeouts), of
  some client connecting and of a served client leaving. Without the last two
  `StopsWithClients` fails: a signal delivered between the test of a flag and the
  system call waits for a client. (A signal that interrupts `accept` leaves the loop
  with `error` set, so that the process exits with the status of a failure:
  `server.c` 79-81, `let.c` 88-90, `main.c` 90.)

### Assumptions about the environment

- `fsync` persists the file's contents and, for a new file, its name. Without it,
  any slot may be lost or damaged, or the file may be as it last was on the device.
  A truncation that was not synced may be undone, which gives back exactly what the
  device had. What is left out is a device that keeps an entry written after such a
  truncation and not the truncation: the old tail would then stand behind the new entry,
  with sequence numbers that fit and operations the guard never passed there. Only a
  later `fsync`, which persists both, is relied on; none separates the two
  (`wal.c` 160-171, 251).
- In `LetDB`, a failed `fsync` is fatal and a later one persists what is then visible;
  `BitRot` has the kernels that drop the pages of a failed one.
- `malloc` and `realloc` give no more than half of what a size counts (`PTRDIFF_MAX`; the
  code runs with 64 bits), and the memory for the list a process starts with is there
  (`MemoryAssumption`). A start has the memory the process before it had.
- A slot that was not written as a whole does not match its checksum: collisions of
  CRC-32C are left out.
- The clock does not go backwards.
- TCP delivers in order or not at all; a connection may break for one end only.

## Theorems

TLAPS checks these for every value of the constants that meets the named
assumptions (`WidthAssumption`, `MemoryAssumption`, `EngineAssumption`,
`AccountsAssumption`, `DecoderAssumption`, `CodecAssumption`, `CapacityAssumption`,
`SupervisorAssumption`, `GatewayAssumption`, `ErrorsAssumption`, `CodesFit`,
`LetRunAssumption`, `LetDXAssumption`): any width of the integers, any base, any set
of operations, any bounds, with and without truncation, any lengths of buffer and
response, any daemons and calls, attempts, backlog and faults, any bodies, flags and
durations. The code meets them: `CodecAssumption` says that a width is a whole number
of bytes and that an amount has two halves of an id's width, `CapacityAssumption` that
a response fits its buffer (the longest has 72 bytes before its newline, of 128),
`CodesFit` that a module has fewer than a thousand errors and that the codes of six
modules fit 16 bits, and `GatewayAssumption` that three flags fit a byte. Two hypotheses
stand in the theorems that need them:

- `LogFits` (`AccountSize * (2 * MaxLog) <= AllocMax`): memory has room for a list of
  every account the log may open, with its capacity doubled. Without it an entry that
  was logged may find no memory, and the process ends: `LetDB` has that case, and `bit_rot`
  runs into it.
- `~TruncateOnFail`: with the option `StartsWhole` does not hold (see *Recovery after a
  failed `fsync`*).

| Theorem | Module |
|---|---|
| `TypeCorrect`: `Spec => []TypeOK` | `LetDB_proof`, `Accounts_proof`, `LetRun_proof`, `LetDX_proof`, `Gateway_proof` (of `Decoder`) |
| `AnsweredIsDurable`: `Spec => []Durable` | `LetDB_proof` |
| `EntriesInSequence`: `Spec => []InSequence` | `LetDB_proof` |
| `ServesWhole`: `Spec => []ServesWholeFile` | `LetDB_proof` |
| `ServesTheLog`: `LogFits`, `Spec => []StateIsLog` | `LetDB_proof` |
| `ReplayTheorem`: `LogFits`, `Spec => []ReplayMeetsGuard` | `LetDB_proof` |
| `PaysTheorem`: `LogFits`, `Spec => PaysFromBalance` | `LetDB_proof` |
| `ConservesMoney`: `LogFits`, `Spec => []Conserved` | `LetDB_proof` |
| `Implements`: `LogFits`, `Spec => ImplementsDurableLedger` | `LetDB_proof` |
| `ListStaysWithin`: `RotSpec => []WithinCapacity` | `BitRot_proof` |
| `AccountsOpenAsLogged`: `RotSpec => []OpenedWhenLogged` | `BitRot_proof` |
| `NothingAnsweredIsSkipped`: `~TruncateOnFail`, `RotSpec => StartsWhole` | `BitRot_proof` |
| `NeverOverdrawn`: `Spec => PaysFromBalance` | `Accounts_proof` |
| `CountersNeverWrap`: `Spec => CountersGrow` | `Accounts_proof` |
| `AcceptsOneMore`: `Spec => []OneMoreAtMost` | `LetRun_proof` |
| `LinesAreWhole`: `Spec => []WholeLines` | `LetRun_proof` |
| `ResponsesAreWhole`: `Spec => []WholeResponses` | `LetRun_proof` |
| `SuccessTheorem`: `Spec => []SuccessIsCommitted` | `LetDX_proof` |
| `CommitsTheorem`: `Spec => []CommitsBounded` | `LetDX_proof` |
| `CounterTheorem`: `Spec => []CounterNotAhead` | `LetDX_proof` |
| `OnceTheorem`: `Spec => []OnceWithoutFaults` | `LetDX_proof` |
| `DecoderExact`: `Spec => [](DecodesExactly /\ RefusesForCause)` | `Gateway_proof` (of `Decoder`) |
| `GatewayDecodesExactly`: `GatewaySpec => []DecodesExactly` | `Gateway_proof` |
| `GatewayRefusesForCause`: `GatewaySpec => []RefusesForCause` | `Gateway_proof` |
| `GatewayRequestSurvives`: `GatewaySpec => []RequestSurvives` | `Gateway_proof` |
| `GatewayAnswerSurvives`: `GatewaySpec => []AnswerSurvives` | `Gateway_proof` |
| `GatewayTypeCorrect`: `GatewaySpec => []TypeOK` | `Gateway_proof` |
| `TokensBound`: `GatewaySpec => []PermissionsHold` | `Gateway_proof` |
| `DelaysBound`: `GatewaySpec => []BackoffHolds` | `Gateway_proof` |

**Argument for the engine.** `Durable` is not inductive: an answered entry in its
slot says nothing of what a recovery will cut. `IInv` adds:

- `HeaderFirst`: no slot is on file or device before its header is, and the device
  is never ahead of the file there;
- `Sequenced(file)` and `Sequenced(disk)`: every readable entry has its place as
  its sequence number, on both sides, since a power loss may show either;
- `ProcessInFile`: what the process believes (its offset, its count) is true of a
  readable beginning of the file, at each `pc`; the entry under way is the last;
- `AnsweredSettled`: every slot up to that of an answered entry is readable and the
  same on file and device. That is what keeps a truncating recovery from
  cutting it and a power loss from damaging it.

`RecoveryIInv`, `ServiceIInv` and `EnvironmentIInv` show that each action preserves
it; `SurvivorsIInv` is the power loss. `IInv` was first checked by TLC as an invariant.

**Argument for the log.** What the accounts are is a fold over the log, and no
invariant about one file is enough: a power loss may bring back what the device has.
On top of `IInv`, `LogInv` says

- `Legal(file)` and `Legal(disk)`: every entry that can be reached, on either side,
  passes the guard after those before it;
- `DiskBehind`: what can be read of the device is the beginning of what can be read of
  the file, so that nothing legal becomes illegal when one stands in for the other;
- `Shown`: the accounts in memory are those of the first `Applied` entries, stamps of
  `updated_at` aside, and no more than they.

`AccountsAfter` is a recursive function. `Induction` has induction with a set in the
place of a predicate (`NatInduct`), from the well-foundedness of finite sets, which the
library has without an operator; with it `ListsExist` and `ListsAgree` show that the
recursion has a solution, and one only, and `AccountsAfterOne` is the unfolding the
steps use. `UntimedGuard` and `UntimedApply` say that neither guards nor operations look
at `updated_at`, which a replay stamps anew. `ReplayTheorem` is then `Legal(file)`
where the replay stands, `PaysTheorem` the lemma `ApplyPays` of the guard that let the
operation in, and `ServesTheLog` is `Shown`.

`ConservesMoney` is about sums over the accounts on one side and over the log on the
other. With `Shown` it is a fact about logs, and is proved by induction over their
length (`LogConserves`): an entry that is legal where it stands adds to both sides what
it opens an account with (`AddConserves`), or adds the amount to the debits of one
account and the credits of another, up to a multiple of 2^128, and one to the counters
of both (`TransferConserves`), which the guard keeps from wrapping. A sum is a fold that takes
its terms out of a set in an order nobody chose; `Induction` shows that any term may be
taken out first (`SumWithout`), and from there what a change of one or of two terms does to
it (`SumChanged`).

`Implements` goes step by step over the readable beginning of the file (`Reads`):
`WriteEntry` is `Commit`, its guard being `Legal` at the new place; `ApplyEntry` is
`Acknowledge`, or a stutter; a power loss is `Lose`, and by `AnsweredSettled` loses
nothing that was answered; all the rest, failed writes and recoveries that truncate
included, leaves the readable beginning as it was. `LogInv` was first checked by TLC
on `MCLetDBRefinement`.

**Argument for a damaged device.** Little of `IInv` is left when slots rot: an answered
entry may be damaged, and a later one stay. `RotIInv` keeps

- `RotType`, with the slots that were dropped, and `RoomInList`: the list is within a
  capacity that is never 0 and that memory has given, so that twice the capacity and the
  bytes of it are sizes (`SizesGrow`);
- `ProcessReads`: how far the process has come; all it has passed is readable;
- `Dated`: no entry on either side is from the future, so that the time an
  account was opened is never after the clock that stamps its changes;
- `ListsOpened`: there are as many accounts as entries that open one among those applied;
  one that finds no memory ends the process.

For `StartsWhole`, `AnsweredSynced` adds that up to every answered entry each slot of
the device is the one of the file or was dropped (`Synced`): damage at rest strikes
both sides alike and shows, and a start that meets it, or a hole, is refused without
`--truncate-on-fail`. TLC checked `RotIInv` first with and without truncation (5,864,439
states with), `AnsweredSynced` without.

**Argument for the accounts.** `TypeOK` and, for each operation, what it does to an
account both states have (`AddKeeps`, `UpdateKeeps`, `TransferStep`); the guard then
bounds every sum a transfer makes. The lemmas about `Ledger` are in `LedgerLemmas`.

**Argument for the loop.** None of the three properties is inductive. `IInv` adds:

- `BufferInv`: the index is below the length of the buffer while a line is read;
- `AcceptInv`: after a signal `accepting` is down, and the connection a signal came
  too late for is the last, since only the test of the flag leads back to `accept`;
- `LineInv`: within a line the loop reads on, or has an error whose action is not to
  go on, or is on its way to close;
- `ResponseInv`: the same with part of a response unsent, unless there was a signal.

`ConnectionEnds` says what the last two rest on: the table gives `close` or `ignore`
to each error that ends the reading or the writing half way, and, by `NamesApart`,
none of them is taken for an error of another module.

**Argument for the decoder.** `TypeOK` is inductive: the one step that changes an
argument has passed the checks of its width (`DigitType`), and the argument it
changes is one of the request's (`CurrentType`). In `Gateway` the decoder makes the same
steps, or is new.

`DecodesExactly` compares the machine, which reads a line from the left and multiplies,
with a meaning that counts digits from the right. `ReadWell` says what the machine knows
half way:

- `ArgumentsRead`: every field up to the one it is in has the value of its argument, and
  every one after it is empty with an argument of 0;
- `FieldsCounted`: the field it is in is the one after the spaces it has seen, and at the
  end of the line all are complete;
- `ErrorsCaused`: an error was caused by the last byte, in the field the machine was in.

The lemma that carries it is `ValueMore`: a digit more at the end of a field multiplies
the value of the field by the base and adds the digit, since each place before it moves
up by one; spaces and underscores change no value (`ValueSame`). `FitsExactly` shows that
the two overflow checks of `parse_u128`, a division and a subtraction, refuse neither
less nor more than what exceeds the width. `MeaningHolds` reads both properties off
`ReadWell`, `DecoderExact` states them of `Decoder` and the next two of `Gateway`.

**Argument for the gateway.** `PermissionsHold` speaks of what the decoder has read,
`Authorize` of a request that is text only much later. `Allowed` follows it: from
`routed` on the route is one that was permitted; up to `connected` the decoder is new,
so that what it reads next is what is sent next; while it reads, it takes no other
command (`CommandStays`); and the command it has is the handshake's or the route's. An
attempt that is lost, a handshake that fails and a response that cannot be read all
lead back through `NewDecoder`.

`BackoffHolds` is inductive with the types. What it needs is arithmetic (`BackoffType`):
the powers of two are a recursive function, solved as `AccountsAfter` is
(`PowerIs`), positive and increasing; a sum that fits is not changed by `Wrap`, and a
product that fits has a factor that fits and a shift below the width; any other wraps
to some integer, which the two clamps put between the limits.

`RequestSurvives` and `AnswerSurvives` follow a request and its answer as text. The
algorithms come first, each against what it is read as:

- `EncodeReads`: the text of a request has one field for each number, with its value,
  whether it was written digit by digit (`TextShows`) or in chunks with zeros between
  them (`StringShows`, `PaddedShows`);
- `FlagsSet` and `FlagsShown`: a list of names, with repetitions, becomes the sum of the bits
  of the set of its names, and a byte the names of its bits;
- `AmountIs`: an amount that is not below 0 goes through its two halves unchanged;
- `ResponseRead`: an integer whose leading zero bytes were skipped is read as what it was
  (`IntegerRead`), in no more digits than its width has, so that no response is cut off;
- `CodeNamesOne`: two errors with one code are one error.

`Survival` then says where a request is, stage by stage: `Bound`, that a call holds
numbers and flags as its route takes them; `Sent`, that the bytes the decoder has read
and those to come are together the text of the call (`Carries`); `Answered`, that an
answer is one the text of a response can carry, until it is replied or lost. The step that
needs more is the end of the reading: a decoder that stops early would leave bytes. By
`ReadWell` an error or a byte too many has its cause in what was read, and the
beginning of a text without fault has none (`CarriedOn`, from `LongerLine`: a longer
line has more spaces and no smaller values). So the line is read to its end, and
`CarriedOver` is `DecodesExactly` there. An attempt that is lost, at any stage, starts
again from `Bound`. TLC checked `ReadWell` and `Survival` as invariants as well, on the
instance of the run `decoder`.

**Argument for the clients.** No property of `LetDX` is inductive: what a client
takes for its answer, and what the server may still commit, is on connections that
others hold, or nobody. `IInv` adds:

- `CallInv`: what the variables of a client say of its call at each step, and that
  the response it is about to hand on answers that call;
- `ChanInv`: one request at most is under way on any connection, leaked ones
  included, the server can still read it, and its number is not beyond the log. A power
  loss, which shortens the log, leaves none, since the server dies with it;
- `ConnInv`: no two clients hold one connection, and what is under way on the one a
  client holds (`Waiting`) is the request it waits for or its response, and its counter is not beyond
  the log once the handshake on it is over; outside of
  `handshake` and `receive` nothing is (`Quiet`). That is why no late response meets
  the next call;
- `CountInv`: a success that was told has its entry in the log, among those on the device,
  which no power loss takes back;
- `SentInv`: of each call, what is committed and what waits to be read (`Sent`)
  together are no more than the attempts that may have sent it, and none before the
  first. `Sent` never grows but when an attempt sends, since reading a request moves
  it from one side to the other;
- `FaultFree`: before the first fault an attempt that failed has sent nothing.

Frame lemmas keep the proof to one case an action: `ClientKeeps` and `OwnStep` for
what the step of one daemon leaves to the others, `ServerKeeps` for a step of the
server, `ClosedKeeps` for the end of a connection. TLC checked `IInv` as an
invariant first, on `MCLetDX` and with two daemons, three calls and one fault.

**Only model-checked.** `AnsweredFits`, and `RecoversWithHeader`, `EveryCallReturns` and `StopsWithClients`:
these three are liveness under fairness, out of the prover's reach. The runs that expect a
violation are TLC's. Every other invariant, every action property of a passing run, and
the refinement, is a theorem above. Recursion and folds are within reach because
`Induction` turns both into one statement about functions (`Recursion`, `SumsExist`,
`LeftFoldsExist`), where the induction is over a set and not over an operator.

## Not modelled

- The echo library: comparing the key, the store of the rate limiter (`Gateway` lets
  it admit or refuse any transfer), the limit of the body, parsing JSON and URLs
  beyond their numbers and flags, the graceful stop.
- The splitting of a response at its spaces, and the wording of replies.
- The CRC polynomial: a slot matches or does not.
- The strings of the options (`cli.c`, `config/parser.go`): the options that matter
  are constants or initial states. Logging.
- The length of a backoff as time: in `LetDX` a retry may come at once or after the
  context has ended, in `Gateway` the delay is a number nobody waits for.
- What `updated_at` should be after a replay: the state machine stamps it from the clock, during
  replay too (`Ledger!Apply` has the time of the apply as an argument); no response
  and no guard shows it. `OpenedWhenLogged` is about the time an account was opened,
  which is in the log, `StateIsLog` leaves `updated_at` out, and `replay_clock` shows it.

## Plan

Done: every module above, and a theorem for each property of the passing runs but those under
*Only model-checked*. What could follow:

1. The splitting of a response at its spaces, which `Codec` leaves out, with
   `AnswerSurvives` over whole lines.
2. A refinement of `DurableLedger` by `LetDX` with the log of `LetDB` in the place of
   its own, so that a lost answer and a lost entry meet in one module.
3. The strings of the options (`cli.c`, `config/parser.go`) as pure operators, against
   the formats their help texts give.
