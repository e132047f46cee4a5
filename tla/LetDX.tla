-------------------------------- MODULE LetDX --------------------------------
(***************************************************************************)
(* LetDD daemons in front of one LetDB server: HTTP handlers call          *)
(* Communicate, which holds the client's mutex, retries under the          *)
(* supervisor, connects and takes the sequence number from the handshake,  *)
(* and sends one request at a time; the server accepts one connection at a *)
(* time and answers its requests in order (LetDD/tcp/client.go,            *)
(* LetDD/supervisor/supervisor.go, let_run in LetDB/src/let.c,             *)
(* LetDB/src/network/server.c).                                            *)
(*                                                                         *)
(* What an operation does to the accounts is left to LetDB; here the log   *)
(* is the sequence of the calls whose entries are in its file, of which    *)
(* the first are on the device.  A connection is two queues and, for each  *)
(* end, whether it is still open.                                          *)
(***************************************************************************)
EXTENDS Integers, Sequences, FiniteSets

CONSTANTS Daemons,      \* LetDD processes, each with one client
          Calls,        \* calls of Communicate, one per HTTP request
          CallerOf,     \* the daemon of each call
          ReadCalls,    \* the calls that are GET /accounts/:id
          CancelAfter,  \* --supervisor: attempts for one call
          Backlog,      \* connections the listening socket queues
          ReadTimeout,  \* --read-timeout is not 0
          MaxFaults     \* bound: crashes and broken connections

NoCall == "no call"

ASSUME LetDXAssumption ==
    /\ NoCall \notin Calls
    /\ CallerOf \in [Calls -> Daemons]
    /\ ReadCalls \subseteq Calls
    /\ CancelAfter \in Nat \ {0} /\ Backlog \in Nat \ {0}
    /\ ReadTimeout \in BOOLEAN /\ MaxFaults \in Nat

VARIABLES
    \* HTTP handlers
    context,    \* context[c]: "live" or "done" (deadline, or client gone)
    result,     \* result[c]: what Communicate returned, "none" before
    \* the client of each daemon
    holder,     \* holder[d]: the call that holds the mutex
    step,       \* step[d]: where that call is
    tries,      \* supervisor.CurrentTry
    failed,     \* failed[d]: err of the last attempt is not nil
    reply,      \* reply[d]: the response of the last attempt
    conn,       \* conn[d]: the connection, 0 for nil
    counter,    \* client.transactions
    \* the network
    chans,      \* chans[k]: connection k
    backlog,    \* connections to accept
    \* the server
    up,         \* the server process runs
    serving,    \* the accepted connection, 0 for none
    answer,     \* the response about to be written
    log,        \* the calls whose entries are in the file
    synced,     \* how many of them are on the device
    faults      \* faults so far

handlers == <<context, result>>
client == <<holder, step, tries, failed, reply, conn, counter>>
server == <<up, serving, answer, log, synced>>
vars == <<context, result, holder, step, tries, failed, reply, conn, counter,
          chans, backlog, up, serving, answer, log, synced, faults>>

Nothing == [kind |-> "nothing"]

Kinds == {"LEN", "OKE", "ERR", "ACC"}
Reply == [kind: Kinds, call: Calls \cup {NoCall}, count: Nat]
Msg == [kind: {"count", "get", "wal"}, call: Calls \cup {NoCall}, id: Nat]
Chan == [req: Seq(Msg), resp: Seq(Reply), client: BOOLEAN, server: BOOLEAN]
Steps == {"idle", "try", "connect", "handshake", "send", "receive", "finish"}

TypeOK ==
    /\ context \in [Calls -> {"live", "done"}]
    /\ result \in [Calls -> {"none", "OKE", "ERR", "ACC", "aborted", "failed"}]
    /\ holder \in [Daemons -> Calls \cup {NoCall}]
    /\ step \in [Daemons -> Steps]
    /\ tries \in [Daemons -> 0 .. CancelAfter]
    /\ failed \in [Daemons -> BOOLEAN]
    /\ reply \in [Daemons -> Reply \cup {Nothing}]
    /\ conn \in [Daemons -> 0 .. Len(chans)]
    /\ counter \in [Daemons -> Nat]
    /\ chans \in Seq(Chan)
    /\ backlog \in Seq(1 .. Len(chans))
    /\ up \in BOOLEAN /\ serving \in 0 .. Len(chans)
    /\ answer \in Reply \cup {Nothing}
    /\ log \in Seq(Calls) /\ synced \in 0 .. Len(log)
    /\ faults \in 0 .. MaxFaults
    /\ \A d \in Daemons : step[d] = "idle" <=> holder[d] = NoCall
    /\ serving # 0 => up

Init ==
    /\ context = [c \in Calls |-> "live"]
    /\ result = [c \in Calls |-> "none"]
    /\ holder = [d \in Daemons |-> NoCall]
    /\ step = [d \in Daemons |-> "idle"]
    /\ tries = [d \in Daemons |-> 0]
    /\ failed = [d \in Daemons |-> FALSE]
    /\ reply = [d \in Daemons |-> Nothing]
    /\ conn = [d \in Daemons |-> 0]
    /\ counter = [d \in Daemons |-> 0]
    /\ chans = <<>> /\ backlog = <<>>
    /\ up = TRUE /\ serving = 0 /\ answer = Nothing
    /\ log = <<>> /\ synced = 0
    /\ faults = 0

-----------------------------------------------------------------------------
(* The client.                                                             *)

Goto(d, s) == step' = [step EXCEPT ![d] = s]
At(d, s) == step[d] = s
ContextDone(d) == context[holder[d]] = "done"
Writes(d) == holder[d] \notin ReadCalls

\* The mutex is taken, in any order, by a handler that has called Communicate.
Lock(d, c) ==
    /\ holder[d] = NoCall
    /\ CallerOf[c] = d /\ result[c] = "none"
    /\ holder' = [holder EXCEPT ![d] = c]
    /\ failed' = [failed EXCEPT ![d] = FALSE]
    /\ reply' = [reply EXCEPT ![d] = Nothing]
    /\ Goto(d, "try")
    /\ UNCHANGED handlers
    /\ UNCHANGED <<tries, conn, counter, chans, backlog, faults>> /\ UNCHANGED server

\* Mutant: a retry is not counted (supervisor.go:64).
TryAgain_NotCounted(d) ==
    /\ At(d, "try")
    /\ ~ContextDone(d)
    /\ tries[d] < CancelAfter
    /\ tries' = [tries EXCEPT ![d] = 1]
    /\ Goto(d, "connect")
    /\ UNCHANGED handlers
    /\ UNCHANGED <<holder, failed, reply, conn, counter, chans, backlog, faults>>
    /\ UNCHANGED server

\* Mutant: one attempt too many (supervisor.go:44).
TryAgain_OneMore(d) ==
    /\ At(d, "try")
    /\ ~ContextDone(d)
    /\ tries[d] <= CancelAfter
    /\ tries' = [tries EXCEPT ![d] = @ + 1]
    /\ Goto(d, "connect")
    /\ UNCHANGED handlers
    /\ UNCHANGED <<holder, failed, reply, conn, counter, chans, backlog, faults>>
    /\ UNCHANGED server

\* supervisor.Try says yes, at once or after the backoff.  (If the context ends
\* with the backoff the dial fails at once: the call is aborted either way.)
TryAgain(d) ==
    /\ At(d, "try")
    /\ ~ContextDone(d)
    /\ tries[d] < CancelAfter
    /\ tries' = [tries EXCEPT ![d] = @ + 1]
    /\ Goto(d, "connect")
    /\ UNCHANGED handlers
    /\ UNCHANGED <<holder, failed, reply, conn, counter, chans, backlog, faults>>
    /\ UNCHANGED server

\* supervisor.Try says no: before, or in, the backoff.
GiveUp(d) ==
    /\ At(d, "try")
    /\ ContextDone(d) \/ tries[d] >= CancelAfter
    /\ Goto(d, "finish")
    /\ UNCHANGED handlers
    /\ UNCHANGED <<holder, tries, failed, reply, conn, counter, chans, backlog, faults>>
    /\ UNCHANGED server

\* The socket of the client, if it has one, is closed with what it has not read.
CloseConnection(d) ==
    chans' = IF conn[d] = 0 THEN chans
             ELSE [chans EXCEPT ![conn[d]].client = FALSE, ![conn[d]].resp = <<>>]

\* Mutant: the connection is not closed (client.go:75, 80).
AttemptFails_KeepsOpen(d) ==
    /\ failed' = [failed EXCEPT ![d] = TRUE]
    /\ Goto(d, "try")
    /\ UNCHANGED <<conn, chans>>

\* The error path of every step of an attempt: close what is open, try again.
AttemptFails(d) ==
    /\ failed' = [failed EXCEPT ![d] = TRUE]
    /\ conn' = [conn EXCEPT ![d] = 0]
    /\ CloseConnection(d)
    /\ Goto(d, "try")

KeepConnection(d) ==
    /\ At(d, "connect") /\ conn[d] # 0
    /\ Goto(d, "send")
    /\ UNCHANGED handlers
    /\ UNCHANGED <<holder, tries, failed, reply, conn, counter, chans, backlog, faults>>
    /\ UNCHANGED server

\* The dial succeeds once the listening socket has room.
Dial(d, sent) ==
    /\ At(d, "connect") /\ conn[d] = 0
    /\ up /\ Len(backlog) < Backlog
    /\ chans' = Append(chans, [req |-> sent, resp |-> <<>>,
                               client |-> TRUE, server |-> TRUE])
    /\ backlog' = Append(backlog, Len(chans) + 1)

\* The connection is kept and the handshake sent.
Connect(d) ==
    /\ Dial(d, <<[kind |-> "count", call |-> NoCall, id |-> 0]>>)
    /\ ~ContextDone(d)
    /\ conn' = [conn EXCEPT ![d] = Len(chans) + 1]
    /\ Goto(d, "handshake")
    /\ UNCHANGED handlers
    /\ UNCHANGED <<holder, tries, failed, reply, counter, faults>> /\ UNCHANGED server

\* The context ended after the dial: connect returns, and the connection is
\* neither kept nor closed (client.go:123).
ConnectLeaks(d) ==
    /\ Dial(d, <<>>)
    /\ ContextDone(d)
    /\ failed' = [failed EXCEPT ![d] = TRUE]
    /\ Goto(d, "try")
    /\ UNCHANGED handlers
    /\ UNCHANGED <<holder, tries, reply, conn, counter, faults>> /\ UNCHANGED server

\* Refused, or the context ends first.
ConnectFails(d) ==
    /\ At(d, "connect") /\ conn[d] = 0
    /\ ~up \/ ContextDone(d)
    /\ AttemptFails(d)
    /\ UNCHANGED handlers
    /\ UNCHANGED <<holder, tries, reply, counter, backlog, faults>> /\ UNCHANGED server

Chan_(d) == chans[conn[d]]

\* Mutant: a count behind the client's own is not taken (client.go:151).
Synchronize_KeepsLarger(d) ==
    /\ At(d, "handshake") /\ Chan_(d).resp # <<>>
    /\ LET r == Head(Chan_(d).resp)
       IN  /\ r.kind = "LEN"
           /\ counter' = IF r.count > counter[d]
                         THEN [counter EXCEPT ![d] = r.count] ELSE counter
    /\ chans' = [chans EXCEPT ![conn[d]].resp = Tail(@)]
    /\ Goto(d, "send")
    /\ UNCHANGED handlers
    /\ UNCHANGED <<holder, tries, failed, reply, conn, backlog, faults>>
    /\ UNCHANGED server

\* The handshake's answer sets the counter.
Synchronize(d) ==
    /\ At(d, "handshake") /\ Chan_(d).resp # <<>>
    /\ LET r == Head(Chan_(d).resp)
       IN  r.kind = "LEN" /\ counter' = [counter EXCEPT ![d] = r.count]
    /\ chans' = [chans EXCEPT ![conn[d]].resp = Tail(@)]
    /\ Goto(d, "send")
    /\ UNCHANGED handlers
    /\ UNCHANGED <<holder, tries, failed, reply, conn, backlog, faults>>
    /\ UNCHANGED server

SendRequest(d) ==
    /\ At(d, "send")
    /\ LET m == [kind |-> IF Writes(d) THEN "wal" ELSE "get", call |-> holder[d],
                 id |-> IF Writes(d) THEN counter[d] ELSE 0]
       IN  chans' = IF Chan_(d).server THEN [chans EXCEPT ![conn[d]].req = Append(@, m)]
                                       ELSE chans
    /\ Goto(d, "receive")
    /\ UNCHANGED handlers
    /\ UNCHANGED <<holder, tries, failed, reply, conn, counter, backlog, faults>>
    /\ UNCHANGED server

\* The other end is gone: seen by the write, or by the read that gets no answer.
ConnectionLost(d) ==
    /\ step[d] \in {"handshake", "send", "receive"}
    /\ ~Chan_(d).server
    /\ Chan_(d).resp = <<>>
    /\ AttemptFails(d)
    /\ UNCHANGED handlers
    /\ UNCHANGED <<holder, tries, reply, counter, backlog, faults>> /\ UNCHANGED server

\* The network breaks and only the client sees it: what it has sent is still read.
ConnectionBreaks(d) ==
    /\ step[d] \in {"handshake", "send", "receive"}
    /\ Chan_(d).server
    /\ faults < MaxFaults /\ faults' = faults + 1
    /\ AttemptFails(d)
    /\ UNCHANGED handlers
    /\ UNCHANGED <<holder, tries, reply, counter, backlog>> /\ UNCHANGED server

\* ReadBytes has no deadline and looks at no context.
ReceiveResponse(d) ==
    /\ At(d, "receive") /\ Chan_(d).resp # <<>>
    /\ reply' = [reply EXCEPT ![d] = Head(Chan_(d).resp)]
    /\ failed' = [failed EXCEPT ![d] = FALSE]
    /\ chans' = [chans EXCEPT ![conn[d]].resp = Tail(@)]
    /\ Goto(d, "finish")
    /\ UNCHANGED handlers
    /\ UNCHANGED <<holder, tries, conn, counter, backlog, faults>> /\ UNCHANGED server

\* After the loop: the context first, then the error, then the counter.
Outcome(d) ==
    IF ContextDone(d) THEN "aborted" ELSE IF failed[d] THEN "failed" ELSE reply[d].kind

Finish(d) ==
    /\ At(d, "finish")
    /\ tries' = [tries EXCEPT ![d] = 0]
    /\ result' = [result EXCEPT ![holder[d]] = Outcome(d)]
    /\ counter' = IF Writes(d) /\ Outcome(d) = "OKE"
                  THEN [counter EXCEPT ![d] = @ + 1] ELSE counter
    /\ holder' = [holder EXCEPT ![d] = NoCall]
    /\ Goto(d, "idle")
    /\ UNCHANGED <<context, failed, reply, conn, chans, backlog, faults>>
    /\ UNCHANGED server

\* The daemon dies, in a call or between calls, and is started again: a new
\* client.  Its sockets are closed for it.
DaemonRestarts(d) ==
    /\ faults < MaxFaults /\ faults' = faults + 1
    /\ result' = [c \in Calls |-> IF c = holder[d] THEN "aborted" ELSE result[c]]
    /\ holder' = [holder EXCEPT ![d] = NoCall]
    /\ tries' = [tries EXCEPT ![d] = 0]
    /\ failed' = [failed EXCEPT ![d] = FALSE]
    /\ reply' = [reply EXCEPT ![d] = Nothing]
    /\ counter' = [counter EXCEPT ![d] = 0]
    /\ conn' = [conn EXCEPT ![d] = 0]
    /\ CloseConnection(d)
    /\ Goto(d, "idle")
    /\ UNCHANGED <<context, backlog>> /\ UNCHANGED server

\* The Go runtime finalizes a connection no client holds.
CollectLeaked(k) ==
    /\ chans[k].client /\ \A d \in Daemons : conn[d] # k
    /\ chans' = [chans EXCEPT ![k].client = FALSE]
    /\ UNCHANGED handlers /\ UNCHANGED client
    /\ UNCHANGED <<backlog, faults>> /\ UNCHANGED server

-----------------------------------------------------------------------------
(* The server: let_run.                                                    *)

Accept ==
    /\ up /\ serving = 0 /\ backlog # <<>>
    /\ serving' = Head(backlog) /\ backlog' = Tail(backlog)
    /\ UNCHANGED handlers /\ UNCHANGED client
    /\ UNCHANGED <<chans, up, answer, log, synced, faults>>

\* A logged request is committed if its id is next and the guard passes it.
Answer(m, commits) ==
    [kind |-> CASE m.kind = "count" -> "LEN"
                [] m.kind = "get" -> "ACC"
                [] m.kind = "wal" -> IF commits THEN "OKE" ELSE "ERR",
     call |-> m.call,
     count |-> IF m.kind = "count" THEN Len(log) ELSE 0]

\* One request is read and handled to its commit.
Handle ==
    /\ serving # 0 /\ answer = Nothing
    /\ chans[serving].req # <<>>
    /\ LET m == Head(chans[serving].req)
       IN  \E commits \in IF m.kind = "wal" /\ m.id = Len(log) THEN BOOLEAN ELSE {FALSE} :
            /\ answer' = Answer(m, commits)
            /\ log' = IF commits THEN Append(log, m.call) ELSE log
            /\ synced' = IF commits THEN Len(log') ELSE synced
    /\ chans' = [chans EXCEPT ![serving].req = Tail(@)]
    /\ UNCHANGED handlers /\ UNCHANGED client
    /\ UNCHANGED <<backlog, up, serving, faults>>

\* The response is written, to a client that may be gone.
Respond ==
    /\ serving # 0 /\ answer # Nothing
    /\ chans' = IF chans[serving].client
                THEN [chans EXCEPT ![serving].resp = Append(@, answer)] ELSE chans
    /\ answer' = Nothing
    /\ UNCHANGED handlers /\ UNCHANGED client
    /\ UNCHANGED <<backlog, up, serving, log, synced, faults>>

CloseServing ==
    /\ chans' = [chans EXCEPT ![serving].server = FALSE, ![serving].req = <<>>]
    /\ serving' = 0

\* The client has closed and everything it sent is read (CLIENT_CLOSED).
ReadEnd ==
    /\ serving # 0 /\ answer = Nothing
    /\ chans[serving].req = <<>> /\ ~chans[serving].client
    /\ CloseServing
    /\ UNCHANGED handlers /\ UNCHANGED client
    /\ UNCHANGED <<backlog, up, answer, log, synced, faults>>

\* Mutant: the read timeout counts on while a request is handled.
IdleTimeout_WhileAnswering ==
    /\ ReadTimeout
    /\ serving # 0
    /\ CloseServing
    /\ answer' = Nothing
    /\ UNCHANGED handlers /\ UNCHANGED client
    /\ UNCHANGED <<backlog, up, log, synced, faults>>

\* Mutant: a read that times out is tried again (let.c:126).
IdleTimeout_TriesAgain ==
    /\ ReadTimeout
    /\ serving # 0 /\ answer = Nothing
    /\ chans[serving].req = <<>>
    /\ UNCHANGED vars

\* SO_RCVTIMEO passes with nothing to read (READ_TIMEOUT).
IdleTimeout ==
    /\ ReadTimeout
    /\ serving # 0 /\ answer = Nothing
    /\ chans[serving].req = <<>>
    /\ CloseServing
    /\ UNCHANGED handlers /\ UNCHANGED client
    /\ UNCHANGED <<backlog, up, answer, log, synced, faults>>

\* A read or write that fails, or a write that times out, closes the connection;
\* what was about to be read or written is lost.
DropConnection ==
    /\ serving # 0
    /\ faults < MaxFaults /\ faults' = faults + 1
    /\ CloseServing
    /\ answer' = Nothing
    /\ UNCHANGED handlers /\ UNCHANGED client
    /\ UNCHANGED <<backlog, up, log, synced>>

\* The process dies, and every connection with it.
ServerDies ==
    /\ faults < MaxFaults /\ faults' = faults + 1
    /\ up' = FALSE /\ serving' = 0 /\ answer' = Nothing /\ backlog' = <<>>
    /\ chans' = [k \in DOMAIN chans |-> [chans[k] EXCEPT !.server = FALSE, !.req = <<>>]]
    /\ UNCHANGED handlers /\ UNCHANGED client

\* The file keeps what was written to it.
ServerCrash == up /\ ServerDies /\ UNCHANGED <<log, synced>>

\* Between the write of an entry and its fsync, or because the fsync fails: the
\* entry is in the file, unanswered, and only perhaps on the device.
CrashBeforeSync ==
    /\ serving # 0 /\ answer = Nothing
    /\ chans[serving].req # <<>>
    /\ LET m == Head(chans[serving].req)
       IN  /\ m.kind = "wal" /\ m.id = Len(log)
           /\ log' = Append(log, m.call)
    /\ ServerDies
    /\ UNCHANGED synced

\* The machine dies: of what was not synced any first part may be left (PowerLoss
\* of LetDB), though a server started since may have counted all of it.
PowerLoss ==
    /\ \E n \in synced .. Len(log) : log' = SubSeq(log, 1, n) /\ synced' = n
    /\ ServerDies

\* The log is read back to its end, whatever of it is on the device.
ServerStart ==
    /\ ~up
    /\ up' = TRUE
    /\ UNCHANGED handlers /\ UNCHANGED client
    /\ UNCHANGED <<chans, backlog, serving, answer, log, synced, faults>>

\* --context-timeout passes, or the HTTP client leaves.
ContextEnds(c) ==
    /\ context[c] = "live" /\ result[c] = "none"
    /\ context' = [context EXCEPT ![c] = "done"]
    /\ UNCHANGED result /\ UNCHANGED client
    /\ UNCHANGED <<chans, backlog, faults>> /\ UNCHANGED server

-----------------------------------------------------------------------------
ClientStep(d) ==
    \/ \E c \in Calls : Lock(d, c)
    \/ TryAgain(d) \/ GiveUp(d)
    \/ KeepConnection(d) \/ Connect(d) \/ ConnectFails(d) \/ ConnectLeaks(d)
    \/ Synchronize(d) \/ SendRequest(d) \/ ReceiveResponse(d) \/ ConnectionLost(d)
    \/ Finish(d)

ServerStep == Accept \/ Handle \/ Respond \/ ReadEnd \/ ServerStart

Next ==
    \/ \E d \in Daemons : ClientStep(d)
    \/ ServerStep \/ IdleTimeout
    \/ \E d \in Daemons : ConnectionBreaks(d) \/ DaemonRestarts(d)
    \/ DropConnection \/ ServerCrash \/ CrashBeforeSync \/ PowerLoss
    \/ \E k \in DOMAIN chans : CollectLeaked(k)
    \/ \E c \in Calls : ContextEnds(c)
    \/ (\A c \in Calls : result[c] # "none") /\ UNCHANGED vars

Spec == Init /\ [][Next]_vars

\* Go schedules every goroutine and the server runs and is restarted (README.md:
\* restart unless-stopped); the deadline of every request passes, the collector
\* runs, and a read timeout, if there is one, expires.
FairSpec ==
    /\ Spec
    /\ \A d \in Daemons : WF_vars(ClientStep(d))
    /\ WF_vars(ServerStep)
    /\ WF_vars(IdleTimeout)
    /\ WF_vars(\E k \in DOMAIN chans : CollectLeaked(k))
    /\ \A c \in Calls : WF_vars(ContextEnds(c))

-----------------------------------------------------------------------------
Copies(c) == Cardinality({i \in DOMAIN log : log[i] = c})

\* A response reaches the call it answers, and a success says what it says: no
\* response left over from an attempt given up is ever taken for another call's
\* (client.go:79-84, which closes on every error but not when the context ends).
SuccessIsCommitted ==
    /\ \A d \in Daemons :
        At(d, "finish") /\ ~failed[d] /\ reply[d] # Nothing => reply[d].call = holder[d]
    /\ \A c \in Calls : result[c] = "OKE" => Copies(c) > 0

\* However the attempts of a call overlap crashes, broken connections and
\* reconnections, each attempt commits at most once (client.go:62-85, wal.c:258).
CommitsBounded ==
    /\ \A c \in Calls : Copies(c) <= CancelAfter
    /\ \A d \in Daemons : holder[d] # NoCall => Copies(holder[d]) <= tries[d]

\* A power loss may take back entries that a handshake has counted, and a client's
\* counter is then ahead of the log; but the connection is gone with the server, and
\* the next handshake takes the counter back.  So on a connection that stands no
\* request is ever ahead: one refused for its id is behind (client.go:98-100,
\* 149-151, wal.c:258-280).
CounterNotAhead ==
    /\ \A d \in Daemons :
        conn[d] # 0 /\ Chan_(d).server /\ ~At(d, "handshake") => counter[d] <= Len(log)
    /\ \A k \in DOMAIN chans : \A i \in DOMAIN chans[k].req :
        chans[k].req[i].kind = "wal" => chans[k].req[i].id <= Len(log)

\* POST /transfers executes a transfer (LETDD.md:29): one call, one entry.
AtMostOnce == \A c \in Calls : Copies(c) <= 1

\* Until the first fault that holds: contexts end and idle connections are closed
\* at any moment, but the server gives up a connection only between requests, so
\* that a retry repeats nothing (client.go:62-85, server.c:112-129).
OnceWithoutFaults == faults = 0 => AtMostOnce

\* Between calls the counter of the only daemon is the server's, as long as its
\* connection stands.
CounterInStep ==
    \A d \in Daemons :
        At(d, "idle") /\ conn[d] # 0 /\ Chan_(d).server => counter[d] = Len(log)

\* Every call returns, though the server serves one connection at a time and reads
\* it to its end (client.go:170-177, let.c:98).
EveryCallReturns == \A c \in Calls : <>(result[c] # "none")

=============================================================================
