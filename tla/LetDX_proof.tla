----------------------------- MODULE LetDX_proof -----------------------------
(***************************************************************************)
(* Theorems of LetDX, for any daemons, calls, attempts, backlog and faults.*)
(***************************************************************************)
EXTENDS LetDX, SequenceTheorems, FiniteSetTheorems, TLAPS

\* The calls whose entries no power loss takes back.
Synced == {log[i] : i \in 1 .. synced}

Answering(k) == serving = k /\ answer # Nothing

\* Nothing is on its way on the connection, in either direction.
Quiet(k) == chans[k].req = <<>> /\ chans[k].resp = <<>> /\ ~Answering(k)

\* r is a response to the request that daemon d waits for.
Answers(r, d) ==
    /\ r.kind \in {"OKE", "ERR", "ACC"} /\ r.call = holder[d]
    /\ r.kind = "OKE" => holder[d] \in Synced /\ counter[d] < synced

Greets(r) == r.kind = "LEN" /\ r.count <= Len(log)

\* What the variables of a client say of its call.
Calling(d) ==
    /\ holder[d] # NoCall => CallerOf[holder[d]] = d /\ result[holder[d]] = "none"
    /\ step[d] = "idle" => tries[d] = 0
    /\ step[d] \in {"connect", "handshake", "send", "receive"} => tries[d] > 0
    /\ step[d] = "try" /\ tries[d] > 0 => failed[d]
    /\ step[d] \notin {"idle", "finish"} => reply[d] = Nothing
    /\ step[d] = "finish" /\ ~failed[d] =>
         IF reply[d] = Nothing THEN ContextDone(d) ELSE Answers(reply[d], d)

CallInv == \A d \in Daemons : Calling(d)

\* One request at most is under way on a connection, whoever is left to wait for it.
OneRequest(k) ==
    chans[k].req # <<>> =>
        /\ Len(chans[k].req) = 1 /\ chans[k].server /\ ~Answering(k)
        /\ chans[k].req[1].kind = "wal" =>
             chans[k].req[1].call \in Calls /\ chans[k].req[1].id <= Len(log)

ChanInv ==
    /\ \A k \in DOMAIN chans : OneRequest(k)
    /\ answer # Nothing => serving # 0 /\ chans[serving].server

\* What is under way on the connection a client holds is what the client waits for.
Waiting(d) ==
    LET ch == chans[conn[d]]
    IN  /\ ch.client
        /\ Len(ch.resp) <= 1
        /\ ch.resp # <<>> => ch.req = <<>> /\ ~Answering(conn[d])
        /\ ch.server /\ step[d] # "handshake" => counter[d] <= Len(log)
        /\ step[d] \notin {"handshake", "receive"} => Quiet(conn[d])
        /\ step[d] = "handshake" =>
             /\ ch.req # <<>> => ch.req[1].kind = "count"
             /\ Answering(conn[d]) => Greets(answer)
             /\ ch.server /\ ch.resp # <<>> => Greets(ch.resp[1])
        /\ step[d] = "receive" =>
             /\ ch.req # <<>> =>
                  /\ ch.req[1].kind \in {"get", "wal"} /\ ch.req[1].call = holder[d]
                  /\ ch.req[1].kind = "wal" => ch.req[1].id = counter[d]
             /\ Answering(conn[d]) => Answers(answer, d)
             /\ ch.resp # <<>> => Answers(ch.resp[1], d)

Connected(d) ==
    /\ step[d] \in {"handshake", "send", "receive"} => conn[d] # 0
    /\ conn[d] # 0 => Waiting(d)

ConnInv ==
    /\ \A d \in Daemons : Connected(d)
    /\ \A d, e \in Daemons : conn[d] = conn[e] /\ conn[d] # 0 => d = e

CountInv == \A c \in Calls : result[c] = "OKE" => c \in Synced

\* The connections on which a request of the call waits to be read.
Pending(c) == {k \in DOMAIN chans : chans[k].req # <<>> /\ chans[k].req[1].call = c}

\* How often a call has been, or may yet be, committed by what was sent so far.
Sent == [c \in Calls |-> Copies(c) + Cardinality(Pending(c))]

\* The attempts that may have sent the request.
Attempts(d) ==
    IF step[d] \in {"connect", "handshake", "send"} THEN tries[d] - 1 ELSE tries[d]

\* c has called Communicate and waits for the mutex.
Fresh(c) == result[c] = "none" /\ holder[CallerOf[c]] # c

SentInv ==
    \A c \in Calls :
        /\ Sent[c] <= CancelAfter
        /\ Fresh(c) => Sent[c] = 0
        /\ \A d \in Daemons : holder[d] = c => Sent[c] <= Attempts(d)

Unsent(d) ==
    \/ step[d] \in {"try", "connect", "handshake", "send"}
    \/ step[d] = "receive" /\ Quiet(conn[d])

\* Without faults an attempt that failed has sent nothing.
FaultFree ==
    faults = 0 =>
        /\ \A c \in Calls : Sent[c] <= 1
        /\ \A d \in Daemons : Unsent(d) => Sent[holder[d]] = 0

IInv == TypeOK /\ CallInv /\ ChanInv /\ ConnInv /\ CountInv /\ SentInv /\ FaultFree

-----------------------------------------------------------------------------
(* What a step does to one connection.                                     *)

\* Connection k becomes ch and the others stay.
Becomes(k, ch) ==
    /\ ch \in Chan /\ chans' \in Seq(Chan) /\ Len(chans') = Len(chans)
    /\ chans'[k] = ch
    /\ \A j \in DOMAIN chans : j # k => chans'[j] = chans[j]

LEMMA ChanType ==
    ASSUME TypeOK, NEW k \in 1 .. Len(chans)
    PROVE  /\ chans[k] \in Chan
           /\ chans[k].req \in Seq(Msg) /\ chans[k].resp \in Seq(Reply)
           /\ chans[k].client \in BOOLEAN /\ chans[k].server \in BOOLEAN
<1>1. chans[k] \in Chan
  BY ElementOfSeq DEF TypeOK
<1> QED
  BY <1>1 DEF Chan

LEMMA Update ==
    ASSUME TypeOK, NEW k \in 1 .. Len(chans), NEW ch \in Chan,
           chans' = [chans EXCEPT ![k] = ch]
    PROVE  Becomes(k, ch)
BY ExceptSeq DEF TypeOK, Becomes

LEMMA ResponseTaken ==
    ASSUME TypeOK, NEW k \in 1 .. Len(chans), chans[k].resp # <<>>,
           chans' = [chans EXCEPT ![k].resp = Tail(@)]
    PROVE  Becomes(k, [chans[k] EXCEPT !.resp = Tail(@)])
<1>1. chans' = [chans EXCEPT ![k] = [chans[k] EXCEPT !.resp = Tail(@)]]
  OBVIOUS
<1>2. [chans[k] EXCEPT !.resp = Tail(@)] \in Chan
  BY ChanType, HeadTailProperties DEF Chan
<1> QED
  BY <1>1, <1>2, Update

LEMMA RequestTaken ==
    ASSUME TypeOK, NEW k \in 1 .. Len(chans), chans[k].req # <<>>,
           chans' = [chans EXCEPT ![k].req = Tail(@)]
    PROVE  Becomes(k, [chans[k] EXCEPT !.req = Tail(@)])
<1>1. chans' = [chans EXCEPT ![k] = [chans[k] EXCEPT !.req = Tail(@)]]
  OBVIOUS
<1>2. [chans[k] EXCEPT !.req = Tail(@)] \in Chan
  BY ChanType, HeadTailProperties DEF Chan
<1> QED
  BY <1>1, <1>2, Update

LEMMA RequestSent ==
    ASSUME TypeOK, NEW k \in 1 .. Len(chans), NEW m \in Msg,
           chans' = [chans EXCEPT ![k].req = Append(@, m)]
    PROVE  Becomes(k, [chans[k] EXCEPT !.req = Append(@, m)])
<1>1. chans' = [chans EXCEPT ![k] = [chans[k] EXCEPT !.req = Append(@, m)]]
  OBVIOUS
<1>2. Append(chans[k].req, m) \in Seq(Msg)
  BY ChanType, AppendProperties
<1>3. [chans[k] EXCEPT !.req = Append(@, m)] \in Chan
  BY <1>2, ChanType DEF Chan
<1> QED
  BY <1>1, <1>3, Update

LEMMA ResponseSent ==
    ASSUME TypeOK, NEW k \in 1 .. Len(chans), NEW r \in Reply,
           chans' = [chans EXCEPT ![k].resp = Append(@, r)]
    PROVE  Becomes(k, [chans[k] EXCEPT !.resp = Append(@, r)])
<1>1. chans' = [chans EXCEPT ![k] = [chans[k] EXCEPT !.resp = Append(@, r)]]
  OBVIOUS
<1>2. Append(chans[k].resp, r) \in Seq(Reply)
  BY ChanType, AppendProperties
<1>3. [chans[k] EXCEPT !.resp = Append(@, r)] \in Chan
  BY <1>2, ChanType DEF Chan
<1> QED
  BY <1>1, <1>3, Update

LEMMA ClientCloses ==
    ASSUME TypeOK, NEW k \in 1 .. Len(chans),
           chans' = [chans EXCEPT ![k].client = FALSE, ![k].resp = <<>>]
    PROVE  Becomes(k, [chans[k] EXCEPT !.client = FALSE, !.resp = <<>>])
<1>1. chans' = [chans EXCEPT ![k] = [chans[k] EXCEPT !.client = FALSE, !.resp = <<>>]]
  BY DEF TypeOK
<1>2. <<>> \in Seq(Reply)
  BY EmptySeq
<1>3. [chans[k] EXCEPT !.client = FALSE] \in Chan
  BY ChanType DEF Chan
<1>4. [chans[k] EXCEPT !.client = FALSE, !.resp = <<>>] \in Chan
  BY <1>2, <1>3, ChanType DEF Chan
<1> QED
  BY <1>1, <1>4, Update

LEMMA ServerCloses ==
    ASSUME TypeOK, NEW k \in 1 .. Len(chans),
           chans' = [chans EXCEPT ![k].server = FALSE, ![k].req = <<>>]
    PROVE  Becomes(k, [chans[k] EXCEPT !.server = FALSE, !.req = <<>>])
<1>1. chans' = [chans EXCEPT ![k] = [chans[k] EXCEPT !.server = FALSE, !.req = <<>>]]
  BY DEF TypeOK
<1>2. <<>> \in Seq(Msg)
  BY EmptySeq
<1>3. [chans[k] EXCEPT !.server = FALSE] \in Chan
  BY ChanType DEF Chan
<1>4. [chans[k] EXCEPT !.server = FALSE, !.req = <<>>] \in Chan
  BY <1>2, <1>3, ChanType DEF Chan
<1> QED
  BY <1>1, <1>4, Update

-----------------------------------------------------------------------------
(* How a step changes what was sent.                                       *)

LEMMA Finite ==
    ASSUME TypeOK, NEW c
    PROVE  /\ IsFiniteSet({i \in DOMAIN log : log[i] = c})
           /\ IsFiniteSet(Pending(c))
           /\ Copies(c) \in Nat /\ Cardinality(Pending(c)) \in Nat
<1>1. Len(log) \in Nat /\ DOMAIN log = 1 .. Len(log)
  BY LenProperties DEF TypeOK
<1>2. Len(chans) \in Nat /\ DOMAIN chans = 1 .. Len(chans)
  BY LenProperties DEF TypeOK
<1>3. IsFiniteSet(1 .. Len(log)) /\ IsFiniteSet(1 .. Len(chans))
  BY <1>1, <1>2, FS_Interval
<1>4. IsFiniteSet({i \in DOMAIN log : log[i] = c})
  BY <1>1, <1>3, FS_Subset
<1>5. IsFiniteSet(Pending(c))
  BY <1>2, <1>3, FS_Subset DEF Pending
<1> QED
  BY <1>4, <1>5, FS_CardinalityType DEF Copies

LEMMA SentType == TypeOK => Sent \in [Calls -> Nat]
<1> SUFFICES ASSUME TypeOK, NEW c \in Calls
             PROVE  Copies(c) + Cardinality(Pending(c)) \in Nat
  BY DEF Sent
<1>1. Copies(c) \in Nat /\ Cardinality(Pending(c)) \in Nat
  BY Finite
<1> QED
  BY <1>1

\* Every request of a call that waits now has waited before.
NoNewRequest(c) ==
    \A k \in DOMAIN chans' :
        chans'[k].req # <<>> /\ chans'[k].req[1].call = c =>
            k \in DOMAIN chans /\ chans'[k].req = chans[k].req

LEMMA PendingKept ==
    ASSUME TypeOK, NEW c, NoNewRequest(c)
    PROVE  IsFiniteSet(Pending(c)') /\ Cardinality(Pending(c)') <= Cardinality(Pending(c))
<1>1. Pending(c)' \subseteq Pending(c)
  BY DEF Pending, NoNewRequest
<1> QED
  BY <1>1, Finite, FS_Subset

LEMMA SentKept ==
    ASSUME TypeOK, TypeOK', log' = log, NEW c \in Calls, NoNewRequest(c)
    PROVE  Sent'[c] <= Sent[c]
<1>1. Copies(c)' = Copies(c)
  BY DEF Copies
<1>2. Cardinality(Pending(c)') \in Nat
  BY PendingKept, FS_CardinalityType
<1>3. Sent'[c] = Copies(c) + Cardinality(Pending(c)')
  BY <1>1 DEF Sent
<1>4. Sent[c] = Copies(c) + Cardinality(Pending(c))
  BY DEF Sent
<1>5. Copies(c) \in Nat /\ Cardinality(Pending(c)) \in Nat
  BY Finite
<1> QED
  BY <1>2, <1>3, <1>4, <1>5, PendingKept

LEMMA SentMore ==
    ASSUME TypeOK, TypeOK', log' = log, NEW c \in Calls, NEW k,
           \A j \in DOMAIN chans' : j # k /\ chans'[j].req # <<>> =>
               j \in DOMAIN chans /\ chans'[j].req = chans[j].req
    PROVE  Sent'[c] <= Sent[c] + 1
<1>1. Copies(c)' = Copies(c)
  BY DEF Copies
<1>2. Pending(c)' \subseteq Pending(c) \cup {k}
  BY DEF Pending
<1>8. Copies(c) \in Nat /\ Cardinality(Pending(c)) \in Nat /\ IsFiniteSet(Pending(c))
  BY Finite
<1>3. /\ IsFiniteSet(Pending(c) \cup {k})
      /\ Cardinality(Pending(c) \cup {k}) <= Cardinality(Pending(c)) + 1
  <2>1. Cardinality(Pending(c) \cup {k}) =
          IF k \in Pending(c) THEN Cardinality(Pending(c)) ELSE Cardinality(Pending(c)) + 1
    BY <1>8, FS_AddElement
  <2> QED
    BY <2>1, <1>8, FS_AddElement
<1>4. /\ IsFiniteSet(Pending(c)')
      /\ Cardinality(Pending(c)') <= Cardinality(Pending(c) \cup {k})
  BY <1>2, <1>3, FS_Subset
<1>5. Cardinality(Pending(c)') \in Nat /\ Cardinality(Pending(c) \cup {k}) \in Nat
  BY <1>3, <1>4, FS_CardinalityType
<1>6. Sent'[c] = Copies(c) + Cardinality(Pending(c)')
  BY <1>1 DEF Sent
<1>7. Sent[c] = Copies(c) + Cardinality(Pending(c))
  BY DEF Sent
<1> QED
  BY <1>3, <1>4, <1>5, <1>6, <1>7, <1>8

\* The request that is committed does not wait any more.
LEMMA SentCommitted ==
    ASSUME TypeOK, TypeOK', NEW c \in Calls, NEW b \in Calls, log' = Append(log, b),
           NoNewRequest(c),
           b = c => \E k \in Pending(c) : k \notin Pending(c)'
    PROVE  Sent'[c] <= Sent[c]
<1> DEFINE E == {i \in DOMAIN log : log[i] = c}
           F == {i \in DOMAIN log' : log'[i] = c}
<1>1. Len(log) \in Nat /\ DOMAIN log = 1 .. Len(log) /\ DOMAIN log' = 1 .. Len(log) + 1
  BY LenProperties, AppendProperties DEF TypeOK
<1>2. \A i \in 1 .. Len(log) : log'[i] = log[i]
  BY AppendProperties DEF TypeOK
<1>3. log'[Len(log) + 1] = b
  BY AppendProperties DEF TypeOK
<1>4. IsFiniteSet(E) /\ Cardinality(E) \in Nat
  BY Finite, FS_CardinalityType
<1>6. Pending(c)' \subseteq Pending(c)
  BY DEF Pending, NoNewRequest
<1>7. Sent'[c] = Cardinality(F) + Cardinality(Pending(c)')
  BY DEF Sent, Copies
<1>8. Sent[c] = Cardinality(E) + Cardinality(Pending(c))
  BY DEF Sent, Copies
<1>9. IsFiniteSet(Pending(c)') /\ Cardinality(Pending(c)') \in Nat
  BY <1>6, Finite, FS_Subset, FS_CardinalityType
<1> HIDE DEF E, F
<1>12. IsFiniteSet(Pending(c)) /\ Cardinality(Pending(c)) \in Nat
  BY Finite
<1>10. CASE b # c
  <2>1. F = E
    BY <1>1, <1>2, <1>3, <1>10 DEF E, F
  <2> QED
    BY <2>1, <1>4, <1>7, <1>8, <1>9, <1>12, PendingKept
<1>11. CASE b = c
  <2>1. F = E \cup {Len(log) + 1} /\ Len(log) + 1 \notin E
    BY <1>1, <1>2, <1>3, <1>11 DEF E, F
  <2>2. Cardinality(F) = Cardinality(E) + 1
    BY <2>1, <1>4, FS_AddElement
  <2>3. PICK k \in Pending(c) : k \notin Pending(c)'
    BY <1>11
  <2>4. Pending(c)' \subseteq Pending(c) \ {k}
    BY <1>6, <2>3
  <2>5. /\ IsFiniteSet(Pending(c) \ {k})
        /\ Cardinality(Pending(c) \ {k}) = Cardinality(Pending(c)) - 1
    BY <2>3, Finite, FS_RemoveElement
  <2>6. Cardinality(Pending(c)') <= Cardinality(Pending(c)) - 1
    BY <2>4, <2>5, FS_Subset
  <2> QED
    BY <2>2, <2>6, <1>4, <1>7, <1>8, <1>9, <1>12
<1> QED
  BY <1>10, <1>11

-----------------------------------------------------------------------------
(* Typing.                                                                 *)

LEMMA OutcomeType ==
    ASSUME IInv, NEW d \in Daemons, At(d, "finish")
    PROVE  /\ Outcome(d) \in {"OKE", "ERR", "ACC", "aborted", "failed"}
           /\ holder[d] \in Calls
           /\ Outcome(d) = "OKE" => holder[d] \in Synced /\ counter[d] < synced
BY LetDXAssumption DEF IInv, TypeOK, CallInv, Calling, Outcome, At, Answers

LEMMA ClientTyping ==
    ASSUME IInv, NEW d \in Daemons
    PROVE  /\ \A c \in Calls : Lock(d, c) => TypeOK'
           /\ TryAgain(d) => TypeOK'
           /\ GiveUp(d) => TypeOK'
           /\ KeepConnection(d) => TypeOK'
           /\ Finish(d) => TypeOK'
<1> USE LetDXAssumption DEF IInv, TypeOK, Steps, Goto, At, handlers, server
<1>1. ASSUME NEW c \in Calls, Lock(d, c)  PROVE TypeOK'
  BY <1>1 DEF Lock
<1>2. ASSUME TryAgain(d)  PROVE TypeOK'
  BY <1>2 DEF TryAgain
<1>3. ASSUME GiveUp(d)  PROVE TypeOK'
  BY <1>3 DEF GiveUp
<1>4. ASSUME KeepConnection(d)  PROVE TypeOK'
  BY <1>4 DEF KeepConnection
<1>5. ASSUME Finish(d)  PROVE TypeOK'
  <2>1. result' \in [Calls -> {"none", "OKE", "ERR", "ACC", "aborted", "failed"}]
    BY <1>5, OutcomeType DEF Finish
  <2>2. counter' \in [Daemons -> Nat]
    BY <1>5 DEF Finish
  <2>3. tries' \in [Daemons -> 0 .. CancelAfter]
    BY <1>5 DEF Finish
  <2> QED
    BY <1>5, <2>1, <2>2, <2>3 DEF Finish
<1> QED
  BY <1>1, <1>2, <1>3, <1>4, <1>5

\* The client's end is closed, or there is none.
LEMMA ClosingType ==
    ASSUME TypeOK, NEW d \in Daemons, CloseConnection(d)
    PROVE  /\ chans' \in Seq(Chan) /\ Len(chans') = Len(chans)
           /\ conn[d] # 0 =>
                Becomes(conn[d], [chans[conn[d]] EXCEPT !.client = FALSE, !.resp = <<>>])
<1>1. CASE conn[d] = 0
  BY <1>1 DEF CloseConnection, TypeOK
<1>2. CASE conn[d] # 0
  <2>1. conn[d] \in 1 .. Len(chans)
    BY <1>2, LenProperties DEF TypeOK
  <2>2. chans' = [chans EXCEPT ![conn[d]].client = FALSE, ![conn[d]].resp = <<>>]
    BY <1>2 DEF CloseConnection
  <2> QED
    BY <1>2, <2>1, <2>2, ClientCloses DEF Becomes
<1> QED
  BY <1>1, <1>2

LEMMA FailTyping ==
    ASSUME IInv, NEW d \in Daemons
    PROVE  /\ ConnectFails(d) => TypeOK'
           /\ ConnectionLost(d) => TypeOK'
           /\ ConnectionBreaks(d) => TypeOK'
           /\ DaemonRestarts(d) => TypeOK'
<1> USE LetDXAssumption DEF IInv, Steps, Goto, At, handlers, server
<1>0. Len(chans) \in Nat
  BY LenProperties DEF TypeOK
<1>1. ASSUME ConnectFails(d)  PROVE TypeOK'
  <2>1. chans' \in Seq(Chan) /\ Len(chans') = Len(chans)
    BY <1>1, ClosingType DEF ConnectFails, AttemptFails
  <2>2. conn' \in [Daemons -> 0 .. Len(chans)]
    BY <1>0, <1>1 DEF ConnectFails, AttemptFails, TypeOK
  <2> QED
    BY <1>1, <2>1, <2>2 DEF ConnectFails, AttemptFails, TypeOK
<1>2. ASSUME ConnectionLost(d)  PROVE TypeOK'
  <2>1. chans' \in Seq(Chan) /\ Len(chans') = Len(chans)
    BY <1>2, ClosingType DEF ConnectionLost, AttemptFails
  <2>2. conn' \in [Daemons -> 0 .. Len(chans)]
    BY <1>0, <1>2 DEF ConnectionLost, AttemptFails, TypeOK
  <2> QED
    BY <1>2, <2>1, <2>2 DEF ConnectionLost, AttemptFails, TypeOK
<1>3. ASSUME ConnectionBreaks(d)  PROVE TypeOK'
  <2>1. chans' \in Seq(Chan) /\ Len(chans') = Len(chans)
    BY <1>3, ClosingType DEF ConnectionBreaks, AttemptFails
  <2>2. conn' \in [Daemons -> 0 .. Len(chans)]
    BY <1>0, <1>3 DEF ConnectionBreaks, AttemptFails, TypeOK
  <2> QED
    BY <1>3, <2>1, <2>2 DEF ConnectionBreaks, AttemptFails, TypeOK
<1>4. ASSUME DaemonRestarts(d)  PROVE TypeOK'
  <2>1. chans' \in Seq(Chan) /\ Len(chans') = Len(chans)
    BY <1>4, ClosingType DEF DaemonRestarts
  <2>2. conn' \in [Daemons -> 0 .. Len(chans)]
    BY <1>0, <1>4 DEF DaemonRestarts, TypeOK
  <2> QED
    BY <1>4, <2>1, <2>2 DEF DaemonRestarts, TypeOK
<1> QED
  BY <1>1, <1>2, <1>3, <1>4

\* A channel is opened with nothing on it but what is sent.
LEMMA DialType ==
    ASSUME TypeOK, NEW d \in Daemons, NEW sent \in Seq(Msg), Dial(d, sent)
    PROVE  /\ chans' \in Seq(Chan) /\ Len(chans') = Len(chans) + 1
           /\ \A k \in 1 .. Len(chans) : chans'[k] = chans[k]
           /\ chans'[Len(chans) + 1] =
                [req |-> sent, resp |-> <<>>, client |-> TRUE, server |-> TRUE]
           /\ backlog' \in Seq(1 .. Len(chans'))
<1> DEFINE new == [req |-> sent, resp |-> <<>>, client |-> TRUE, server |-> TRUE]
<1>1. new \in Chan
  BY EmptySeq DEF Chan
<1>2. chans' = Append(chans, new)
  BY DEF Dial
<1>3. Len(chans) \in Nat
  BY LenProperties DEF TypeOK
<1>4. backlog \in Seq(1 .. Len(chans) + 1)
  BY <1>3, SeqMonotonic DEF TypeOK
<1>5. backlog' \in Seq(1 .. Len(chans) + 1)
  BY <1>3, <1>4, AppendProperties DEF Dial
<1> HIDE DEF new
<1> USE DEF TypeOK
<1>6. /\ chans' \in Seq(Chan) /\ Len(chans') = Len(chans) + 1
      /\ \A k \in 1 .. Len(chans) : chans'[k] = chans[k]
      /\ chans'[Len(chans) + 1] = new
  BY <1>1, <1>2, AppendProperties
<1> QED
  BY <1>5, <1>6 DEF new

LEMMA ConnectTyping ==
    ASSUME IInv, NEW d \in Daemons
    PROVE  /\ Connect(d) => TypeOK'
           /\ ConnectLeaks(d) => TypeOK'
<1> USE LetDXAssumption DEF IInv, Steps, Goto, At, handlers, server
<1>0. Len(chans) \in Nat
  BY LenProperties DEF TypeOK
<1>1. ASSUME Connect(d)  PROVE TypeOK'
  <2>1. <<[kind |-> "count", call |-> NoCall, id |-> 0]>> \in Seq(Msg)
    BY DEF Msg
  <2>2. /\ chans' \in Seq(Chan) /\ Len(chans') = Len(chans) + 1
        /\ backlog' \in Seq(1 .. Len(chans'))
    BY <1>1, <2>1, DialType DEF Connect
  <2>3. conn' \in [Daemons -> 0 .. Len(chans')]
    BY <1>0, <1>1, <2>2 DEF Connect, TypeOK
  <2>4. serving \in 0 .. Len(chans')
    BY <1>0, <2>2 DEF TypeOK
  <2>5. (\A e \in Daemons : step[e] = "idle" <=> holder[e] = NoCall)'
    BY <1>1 DEF Connect, Dial, TypeOK
  <2> QED
    BY <1>0, <1>1, <2>2, <2>3, <2>4, <2>5 DEF Connect, TypeOK
<1>2. ASSUME ConnectLeaks(d)  PROVE TypeOK'
  <2>1. <<>> \in Seq(Msg)
    BY EmptySeq
  <2>2. /\ chans' \in Seq(Chan) /\ Len(chans') = Len(chans) + 1
        /\ backlog' \in Seq(1 .. Len(chans'))
    BY <1>2, <2>1, DialType DEF ConnectLeaks
  <2>3. conn' \in [Daemons -> 0 .. Len(chans')]
    BY <1>0, <1>2, <2>2 DEF ConnectLeaks, TypeOK
  <2>4. serving \in 0 .. Len(chans')
    BY <1>0, <2>2 DEF TypeOK
  <2>5. (\A e \in Daemons : step[e] = "idle" <=> holder[e] = NoCall)'
    BY <1>2 DEF ConnectLeaks, Dial, TypeOK
  <2> QED
    BY <1>0, <1>2, <2>2, <2>3, <2>4, <2>5 DEF ConnectLeaks, TypeOK
<1> QED
  BY <1>1, <1>2

LEMMA Holds ==
    ASSUME IInv, NEW d \in Daemons, step[d] \in {"handshake", "send", "receive"}
    PROVE  conn[d] \in 1 .. Len(chans) /\ conn[d] # 0 /\ holder[d] \in Calls
BY LenProperties DEF IInv, TypeOK, ConnInv, Connected

LEMMA ExchangeTyping ==
    ASSUME IInv, NEW d \in Daemons
    PROVE  /\ Synchronize(d) => TypeOK'
           /\ SendRequest(d) => TypeOK'
           /\ ReceiveResponse(d) => TypeOK'
<1> USE LetDXAssumption DEF IInv, Steps, Goto, At, handlers, server
<1>1. ASSUME Synchronize(d)  PROVE TypeOK'
  <2>1. conn[d] \in 1 .. Len(chans)
    BY <1>1, Holds DEF Synchronize
  <2>2. Becomes(conn[d], [chans[conn[d]] EXCEPT !.resp = Tail(@)])
    BY <1>1, <2>1, ResponseTaken DEF Synchronize, Chan_
  <2>3. Head(chans[conn[d]].resp) \in Reply
    BY <1>1, <2>1, ChanType, HeadTailProperties DEF Synchronize, Chan_
  <2>4. Head(chans[conn[d]].resp).count \in Nat
    BY <2>3 DEF Reply
  <2>5. counter' \in [Daemons -> Nat]
    BY <1>1, <2>4 DEF Synchronize, Chan_, TypeOK
  <2> QED
    BY <1>1, <2>2, <2>5 DEF Synchronize, Becomes, TypeOK
<1>2. ASSUME SendRequest(d)  PROVE TypeOK'
  <2> DEFINE m == [kind |-> IF Writes(d) THEN "wal" ELSE "get", call |-> holder[d],
                   id |-> IF Writes(d) THEN counter[d] ELSE 0]
  <2>1. conn[d] \in 1 .. Len(chans) /\ holder[d] \in Calls
    BY <1>2, Holds DEF SendRequest
  <2>2. m \in Msg
    BY <2>1 DEF Msg, TypeOK
  <2>3. chans' = IF Chan_(d).server THEN [chans EXCEPT ![conn[d]].req = Append(@, m)]
                                    ELSE chans
    BY <1>2 DEF SendRequest
  <2> HIDE DEF m
  <2>4. chans' \in Seq(Chan) /\ Len(chans') = Len(chans)
    BY <2>1, <2>2, <2>3, RequestSent DEF Becomes, TypeOK
  <2> QED
    BY <1>2, <2>4 DEF SendRequest, TypeOK
<1>3. ASSUME ReceiveResponse(d)  PROVE TypeOK'
  <2>1. conn[d] \in 1 .. Len(chans)
    BY <1>3, Holds DEF ReceiveResponse
  <2>2. Becomes(conn[d], [chans[conn[d]] EXCEPT !.resp = Tail(@)])
    BY <1>3, <2>1, ResponseTaken DEF ReceiveResponse, Chan_
  <2>3. Head(chans[conn[d]].resp) \in Reply
    BY <1>3, <2>1, ChanType, HeadTailProperties DEF ReceiveResponse, Chan_
  <2>4. reply' \in [Daemons -> Reply \cup {Nothing}]
    BY <1>3, <2>3 DEF ReceiveResponse, Chan_, TypeOK
  <2> QED
    BY <1>3, <2>2, <2>4 DEF ReceiveResponse, Becomes, TypeOK
<1> QED
  BY <1>1, <1>2, <1>3

LEMMA ServerTyping ==
    ASSUME IInv
    PROVE  /\ Accept => TypeOK'
           /\ Handle => TypeOK'
           /\ Respond => TypeOK'
           /\ ServerStart => TypeOK'
<1> USE DEF IInv, handlers, client
<1>0. Len(chans) \in Nat
  BY LenProperties DEF TypeOK
<1>1. ASSUME Accept  PROVE TypeOK'
  <2>1. Head(backlog) \in 1 .. Len(chans) /\ Tail(backlog) \in Seq(1 .. Len(chans))
    BY <1>1, HeadTailProperties DEF Accept, TypeOK
  <2> QED
    BY <1>0, <1>1, <2>1 DEF Accept, TypeOK
<1>2. ASSUME Handle  PROVE TypeOK'
  <2> DEFINE m == Head(chans[serving].req)
  <2>1. serving \in 1 .. Len(chans)
    BY <1>0, <1>2 DEF Handle, TypeOK
  <2>2. m \in Msg /\ m = chans[serving].req[1]
    BY <1>2, <2>1, ChanType, HeadTailProperties DEF Handle
  <2>3. m.kind = "wal" => m.call \in Calls
    BY <1>0, <1>2, <2>1, <2>2 DEF ChanInv, OneRequest, Handle, TypeOK
  <2>4. PICK commits \in IF m.kind = "wal" /\ m.id = Len(log) THEN BOOLEAN ELSE {FALSE} :
            /\ answer' = Answer(m, commits)
            /\ log' = IF commits THEN Append(log, m.call) ELSE log
            /\ synced' = IF commits THEN Len(log') ELSE synced
    BY <1>2 DEF Handle
  <2> HIDE DEF m
  <2>5. Len(log) \in Nat
    BY LenProperties DEF TypeOK
  <2>6. answer' \in Reply
    BY <2>2, <2>4, <2>5 DEF Answer, Msg, Reply, Kinds
  <2>7. log' \in Seq(Calls)
    BY <2>3, <2>4, AppendProperties DEF TypeOK
  <2>8. chans' \in Seq(Chan) /\ Len(chans') = Len(chans)
    BY <1>2, <2>1, RequestTaken DEF Handle, Becomes
  <2>9. synced' \in 0 .. Len(log')
    <3>1. Len(log') \in Nat
      BY <2>7, LenProperties
    <3> QED
      BY <2>4, <3>1 DEF TypeOK
  <2> QED
    BY <1>2, <2>6, <2>7, <2>8, <2>9 DEF Handle, TypeOK
<1>3. ASSUME Respond  PROVE TypeOK'
  <2>1. serving \in 1 .. Len(chans) /\ answer \in Reply
    BY <1>0, <1>3 DEF Respond, TypeOK
  <2>2. chans' = IF chans[serving].client
                 THEN [chans EXCEPT ![serving].resp = Append(@, answer)] ELSE chans
    BY <1>3 DEF Respond
  <2>3. chans' \in Seq(Chan) /\ Len(chans') = Len(chans)
    BY <2>1, <2>2, ResponseSent DEF Becomes, TypeOK
  <2> QED
    BY <1>3, <2>3 DEF Respond, TypeOK
<1>4. ASSUME ServerStart  PROVE TypeOK'
  BY <1>4 DEF ServerStart, TypeOK
<1> QED
  BY <1>1, <1>2, <1>3, <1>4

LEMMA CloseServingType ==
    ASSUME TypeOK, serving # 0, CloseServing
    PROVE  /\ serving \in 1 .. Len(chans) /\ chans' \in Seq(Chan) /\ Len(chans') = Len(chans)
           /\ Becomes(serving, [chans[serving] EXCEPT !.server = FALSE, !.req = <<>>])
<1>1. serving \in 1 .. Len(chans)
  BY LenProperties DEF TypeOK
<1> QED
  BY <1>1, ServerCloses DEF CloseServing, Becomes

LEMMA SameInterval ==
    ASSUME NEW m \in Nat, NEW n \in Nat, 1 .. m = 1 .. n
    PROVE  m = n
<1>1. (n > 0 => n \in 1 .. n) /\ (m > 0 => m \in 1 .. m)
  OBVIOUS
<1>2. (n > 0 => n \in 1 .. m) /\ (m > 0 => m \in 1 .. n)
  BY <1>1
<1> QED
  BY <1>2

LEMMA CrashType ==
    ASSUME TypeOK,
           chans' = [k \in DOMAIN chans |-> [chans[k] EXCEPT !.server = FALSE, !.req = <<>>]]
    PROVE  /\ chans' \in Seq(Chan) /\ Len(chans') = Len(chans)
           /\ \A k \in 1 .. Len(chans) :
                chans'[k] = [chans[k] EXCEPT !.server = FALSE, !.req = <<>>]
<1>1. Len(chans) \in Nat /\ DOMAIN chans = 1 .. Len(chans)
  BY LenProperties DEF TypeOK
<1>2. <<>> \in Seq(Msg)
  BY EmptySeq
<1>3. \A k \in 1 .. Len(chans) : [chans[k] EXCEPT !.server = FALSE, !.req = <<>>] \in Chan
  BY <1>2, ChanType DEF Chan
<1>4. chans' \in [1 .. Len(chans) -> Chan]
  BY <1>1, <1>3
<1>5. chans' \in Seq(Chan)
  <2>1. \A n \in Nat : \A f \in [1 .. n -> Chan] : f \in Seq(Chan)
    BY SeqDef
  <2> QED
    BY <1>1, <1>4, <2>1
<1>6. DOMAIN chans' = 1 .. Len(chans)
  BY <1>1
<1>7. Len(chans') = Len(chans)
  <2>1. DOMAIN chans' = 1 .. Len(chans') /\ Len(chans') \in Nat
    BY <1>5, LenProperties
  <2> QED
    BY <1>1, <1>6, <2>1, SameInterval
<1> QED
  BY <1>1, <1>5, <1>7

LEMMA CloseTyping ==
    ASSUME IInv
    PROVE  /\ ReadEnd => TypeOK'
           /\ IdleTimeout => TypeOK'
           /\ DropConnection => TypeOK'
           /\ ServerCrash => TypeOK'
           /\ CrashBeforeSync => TypeOK'
           /\ PowerLoss => TypeOK'
<1> USE LetDXAssumption DEF IInv, handlers, client
<1>1. ASSUME ReadEnd  PROVE TypeOK'
  <2>1. serving' = 0 /\ chans' \in Seq(Chan) /\ Len(chans') = Len(chans)
    BY <1>1, CloseServingType DEF ReadEnd, CloseServing
  <2> QED
    BY <1>1, <2>1, LenProperties DEF ReadEnd, TypeOK
<1>2. ASSUME IdleTimeout  PROVE TypeOK'
  <2>1. serving' = 0 /\ chans' \in Seq(Chan) /\ Len(chans') = Len(chans)
    BY <1>2, CloseServingType DEF IdleTimeout, CloseServing
  <2> QED
    BY <1>2, <2>1, LenProperties DEF IdleTimeout, TypeOK
<1>3. ASSUME DropConnection  PROVE TypeOK'
  <2>1. serving' = 0 /\ chans' \in Seq(Chan) /\ Len(chans') = Len(chans)
    BY <1>3, CloseServingType DEF DropConnection, CloseServing
  <2> QED
    BY <1>3, <2>1, LenProperties DEF DropConnection, TypeOK
<1>4. ASSUME ServerDies, log' \in Seq(Calls), synced' \in 0 .. Len(log')  PROVE TypeOK'
  <2>1. chans' \in Seq(Chan) /\ Len(chans') = Len(chans)
    BY <1>4, CrashType DEF ServerDies
  <2>2. backlog' \in Seq(1 .. Len(chans))
    BY <1>4, EmptySeq DEF ServerDies
  <2>3. /\ faults < MaxFaults /\ faults' = faults + 1
        /\ serving' = 0 /\ up' = FALSE /\ answer' = Nothing
        /\ UNCHANGED handlers /\ UNCHANGED client
    BY <1>4 DEF ServerDies
  <2>4. Len(chans) \in Nat
    BY LenProperties DEF TypeOK
  <2>5. faults' \in 0 .. MaxFaults
    BY <2>3 DEF TypeOK
  <2>6. chans' \in Seq(Chan) /\ backlog' \in Seq(1 .. Len(chans'))
        /\ conn' \in [Daemons -> 0 .. Len(chans')]
    BY <2>1, <2>2, <2>3 DEF TypeOK
  <2>7. (\A e \in Daemons : step[e] = "idle" <=> holder[e] = NoCall)'
    BY <2>3 DEF TypeOK
  <2>8. up' \in BOOLEAN /\ serving' \in 0 .. Len(chans') /\ (serving' # 0 => up')
    <3>1. up' \in BOOLEAN
      BY <2>3
    <3>2. serving' = 0 /\ Len(chans') \in Nat
      BY <2>1, <2>3, <2>4
    <3> QED
      BY <3>1, <3>2
  <2>9. /\ context' = context /\ result' = result /\ holder' = holder /\ step' = step
        /\ tries' = tries /\ failed' = failed /\ reply' = reply /\ counter' = counter
        /\ answer' \in Reply \cup {Nothing}
    BY <2>3
  <2> QED
    BY <1>4, <2>5, <2>6, <2>7, <2>8, <2>9 DEF TypeOK
<1>0. Len(log) \in Nat
  BY LenProperties DEF TypeOK
<1>5. ASSUME ServerCrash  PROVE TypeOK'
  <2>1. ServerDies /\ log' = log /\ synced' = synced
    BY <1>5 DEF ServerCrash
  <2> QED
    BY <1>4, <2>1 DEF TypeOK
<1>6. ASSUME CrashBeforeSync  PROVE TypeOK'
  <2> DEFINE m == Head(chans[serving].req)
  <2>1. /\ ServerDies /\ synced' = synced /\ log' = Append(log, m.call)
        /\ chans[serving].req # <<>> /\ serving \in 1 .. Len(chans) /\ m.kind = "wal"
    BY <1>6, LenProperties DEF CrashBeforeSync, TypeOK
  <2>2. m = chans[serving].req[1]
    BY <2>1, ChanType, HeadTailProperties
  <2> HIDE DEF m
  <2>3. serving \in DOMAIN chans
    BY <2>1, LenProperties DEF TypeOK
  <2>4. m.call \in Calls
    BY <2>1, <2>2, <2>3 DEF ChanInv, OneRequest
  <2>5. log' \in Seq(Calls) /\ Len(log') = Len(log) + 1
    BY <2>1, <2>4, AppendProperties DEF TypeOK
  <2>6. synced' \in 0 .. Len(log')
    BY <1>0, <2>1, <2>5 DEF TypeOK
  <2> QED
    BY <1>4, <2>1, <2>5, <2>6
<1>7. ASSUME PowerLoss  PROVE TypeOK'
  <2>1. PICK n \in synced .. Len(log) : log' = SubSeq(log, 1, n) /\ synced' = n
    BY <1>7 DEF PowerLoss
  <2>2. synced \in 0 .. Len(log) /\ log \in Seq(Calls)
    BY DEF TypeOK
  <2>3. n \in 0 .. Len(log)
    BY <1>0, <2>1, <2>2
  <2>4. log' \in Seq(Calls) /\ Len(log') = n
    BY <1>0, <2>1, <2>2, <2>3, SubSeqProperties
  <2> QED
    BY <1>4, <1>7, <2>1, <2>3, <2>4 DEF PowerLoss
<1> QED
  BY <1>1, <1>2, <1>3, <1>5, <1>6, <1>7

LEMMA CollectType ==
    ASSUME TypeOK, NEW k \in DOMAIN chans, CollectLeaked(k)
    PROVE  Becomes(k, [chans[k] EXCEPT !.client = FALSE])
<1>1. k \in 1 .. Len(chans)
  BY LenProperties DEF TypeOK
<1>2. chans' = [chans EXCEPT ![k] = [chans[k] EXCEPT !.client = FALSE]]
  BY DEF CollectLeaked
<1>3. [chans[k] EXCEPT !.client = FALSE] \in Chan
  BY <1>1, ChanType DEF Chan
<1> QED
  BY <1>1, <1>2, <1>3, Update

LEMMA EnvironmentTyping ==
    ASSUME IInv
    PROVE  /\ \A k \in DOMAIN chans : CollectLeaked(k) => TypeOK'
           /\ \A c \in Calls : ContextEnds(c) => TypeOK'
<1> USE DEF IInv, handlers, client, server
<1>1. ASSUME NEW k \in DOMAIN chans, CollectLeaked(k)  PROVE TypeOK'
  <2>1. chans' \in Seq(Chan) /\ Len(chans') = Len(chans)
    BY <1>1, CollectType DEF Becomes
  <2> QED
    BY <1>1, <2>1 DEF CollectLeaked, TypeOK
<1>2. ASSUME NEW c \in Calls, ContextEnds(c)  PROVE TypeOK'
  BY <1>2 DEF ContextEnds, TypeOK
<1> QED
  BY <1>1, <1>2

\* Every step keeps the types.
LEMMA Typing == IInv /\ [Next]_vars => TypeOK'
<1> SUFFICES ASSUME IInv, [Next]_vars  PROVE TypeOK'
  OBVIOUS
<1>0. UNCHANGED vars => TypeOK'
  BY DEF IInv, TypeOK, vars
<1>1. ASSUME NEW d \in Daemons, ClientStep(d)  PROVE TypeOK'
  BY <1>1, ClientTyping, FailTyping, ConnectTyping, ExchangeTyping DEF ClientStep
<1>2. ServerStep \/ IdleTimeout \/ DropConnection => TypeOK'
  BY ServerTyping, CloseTyping DEF ServerStep
<1>4. ServerCrash \/ CrashBeforeSync \/ PowerLoss => TypeOK'
  BY ServerTyping, CloseTyping DEF ServerStep
<1>3. ASSUME NEW d \in Daemons, ConnectionBreaks(d) \/ DaemonRestarts(d)  PROVE TypeOK'
  BY <1>3, FailTyping
<1> QED
  BY <1>0, <1>1, <1>2, <1>3, <1>4, EnvironmentTyping DEF Next

-----------------------------------------------------------------------------
(* What a step leaves alone.                                               *)

LogGrows == synced <= synced' /\ Synced \subseteq Synced'

\* The step does not touch the call that daemon d makes.
SameCall(d) ==
    /\ holder'[d] = holder[d] /\ step'[d] = step[d] /\ tries'[d] = tries[d]
    /\ failed'[d] = failed[d] /\ reply'[d] = reply[d] /\ counter'[d] = counter[d]
    /\ conn'[d] = conn[d]
    /\ holder[d] # NoCall =>
         /\ result'[holder[d]] = result[holder[d]]
         /\ context[holder[d]] = "done" => context'[holder[d]] = "done"

\* Nothing comes to connection k.
Stays(k) ==
    /\ chans'[k].client = chans[k].client /\ chans'[k].resp = chans[k].resp
    /\ \/ chans'[k].req = <<>>
       \/ chans'[k].req = chans[k].req /\ chans'[k].server = chans[k].server
    /\ chans'[k].server => chans[k].server /\ Len(log) <= Len(log')
    /\ serving' = k /\ answer' # Nothing =>
         Answering(k) /\ answer' = answer /\ Len(log) <= Len(log')

LEMMA AnswersKept ==
    ASSUME TypeOK, TypeOK', LogGrows, NEW d \in Daemons,
           holder'[d] = holder[d], counter'[d] = counter[d], NEW r
    PROVE  Answers(r, d) => Answers(r, d)'
<1>1. synced \in Nat /\ synced' \in Nat /\ counter[d] \in Nat
  BY LenProperties DEF TypeOK
<1> QED
  BY <1>1 DEF Answers, LogGrows

LEMMA CallingKept ==
    ASSUME IInv, TypeOK', LogGrows, NEW d \in Daemons, SameCall(d)
    PROVE  Calling(d)'
<1>1. Calling(d) /\ TypeOK
  BY DEF IInv, CallInv
<1>2. \A r : Answers(r, d) => Answers(r, d)'
  BY <1>1, AnswersKept DEF SameCall
<1>3. step[d] = "finish" => holder[d] # NoCall
  BY <1>1 DEF TypeOK
<1>4. /\ holder'[d] # NoCall => CallerOf[holder'[d]] = d /\ result'[holder'[d]] = "none"
      /\ step'[d] = "idle" => tries'[d] = 0
      /\ step'[d] \in {"connect", "handshake", "send", "receive"} => tries'[d] > 0
      /\ step'[d] = "try" /\ tries'[d] > 0 => failed'[d]
      /\ step'[d] \notin {"idle", "finish"} => reply'[d] = Nothing
  BY <1>1 DEF Calling, SameCall
<1>5. step'[d] = "finish" /\ ~failed'[d] =>
        IF reply'[d] = Nothing THEN ContextDone(d)' ELSE Answers(reply[d], d)'
  <2>1. reply'[d] = reply[d]
    BY DEF SameCall
  <2> QED
    BY <1>1, <1>2, <1>3, <2>1 DEF Calling, SameCall, ContextDone
<1> QED
  BY <1>4, <1>5 DEF Calling

LEMMA ConnectedKept ==
    ASSUME IInv, TypeOK', LogGrows, NEW d \in Daemons, SameCall(d),
           conn[d] # 0 => Stays(conn[d])
    PROVE  Connected(d)'
<1>1. Connected(d) /\ TypeOK
  BY DEF IInv, ConnInv
<1>2. SUFFICES ASSUME conn[d] # 0  PROVE Waiting(d)'
  BY <1>1 DEF Connected, SameCall
<1>3. conn'[d] = conn[d] /\ Waiting(d) /\ Stays(conn[d])
  BY <1>1, <1>2 DEF Connected, SameCall
<1>4. \A r : Answers(r, d) => Answers(r, d)'
  BY <1>1, AnswersKept DEF SameCall
<1>0. Len(log) \in Nat /\ Len(log') \in Nat /\ counter[d] \in Nat
  BY <1>1, LenProperties DEF TypeOK
<1>5. Len(log) <= Len(log') => \A r \in Reply : Greets(r) => Greets(r)'
  BY <1>0 DEF Greets, Reply
<1> DEFINE k == conn[d]
<1>6. k \in 1 .. Len(chans)
  <2>1. conn[d] \in 0 .. Len(chans) /\ Len(chans) \in Nat
    BY <1>1, LenProperties DEF TypeOK
  <2> QED
    BY <1>2, <2>1
<1>7. /\ Answering(k) => answer \in Reply
      /\ chans[k].resp # <<>> => chans[k].resp[1] \in Reply
  <2>1. chans[k].resp \in Seq(Reply)
    BY <1>1, <1>6, ChanType
  <2>2. chans[k].resp # <<>> => chans[k].resp[1] \in Reply
    BY <2>1, HeadTailProperties
  <2> QED
    BY <1>1, <2>2 DEF Answering, TypeOK
<1>11. Answering(k)' => Answering(k) /\ answer' = answer /\ Len(log) <= Len(log')
  BY <1>3 DEF Stays, Answering
<1>12. chans'[k].server => chans[k].server /\ Len(log) <= Len(log')
  BY <1>3 DEF Stays
<1>13. chans'[k].server /\ step'[d] # "handshake" => counter'[d] <= Len(log')
  BY <1>0, <1>3, <1>12 DEF Waiting, SameCall
<1>8. /\ chans'[k].client /\ Len(chans'[k].resp) <= 1
      /\ chans'[k].resp # <<>> => chans'[k].req = <<>> /\ ~Answering(k)'
      /\ step'[d] \notin {"handshake", "receive"} =>
           chans'[k].req = <<>> /\ chans'[k].resp = <<>> /\ ~Answering(k)'
  BY <1>3, <1>11 DEF Waiting, Quiet, Stays, SameCall
<1>9. step'[d] = "handshake" =>
        /\ chans'[k].req # <<>> => chans'[k].req[1].kind = "count"
        /\ Answering(k)' => Greets(answer)'
        /\ chans'[k].server /\ chans'[k].resp # <<>> => Greets(chans[k].resp[1])'
  BY <1>3, <1>5, <1>7, <1>11, <1>12 DEF Waiting, Stays, SameCall
<1>10. step'[d] = "receive" =>
         /\ chans'[k].req # <<>> =>
              /\ chans'[k].req[1].kind \in {"get", "wal"} /\ chans'[k].req[1].call = holder'[d]
              /\ chans'[k].req[1].kind = "wal" => chans'[k].req[1].id = counter'[d]
         /\ Answering(k)' => Answers(answer, d)'
         /\ chans'[k].resp # <<>> => Answers(chans[k].resp[1], d)'
  BY <1>3, <1>4, <1>11 DEF Waiting, Stays, SameCall
<1> QED
  BY <1>3, <1>8, <1>9, <1>10, <1>13 DEF Waiting, Quiet

LEMMA OneRequestKept ==
    ASSUME IInv, TypeOK', NEW k \in DOMAIN chans, Stays(k)
    PROVE  OneRequest(k)'
<1>1. /\ Len(log) \in Nat /\ Len(log') \in Nat /\ k \in 1 .. Len(chans)
      /\ chans[k].req \in Seq(Msg) /\ OneRequest(k)
  BY LenProperties, ChanType DEF IInv, TypeOK, ChanInv
<1>2. CASE chans'[k].req = <<>>
  BY <1>2 DEF OneRequest
<1>3. CASE chans'[k].req # <<>>
  <2>1. chans'[k].req = chans[k].req /\ chans'[k].server = chans[k].server
    BY <1>3 DEF Stays
  <2>2. Len(chans[k].req) = 1 /\ chans[k].server /\ ~Answering(k)
    BY <1>1, <1>3, <2>1 DEF OneRequest
  <2>3. Len(log) <= Len(log') /\ ~Answering(k)'
    BY <2>1, <2>2 DEF Stays, Answering
  <2>4. chans[k].req[1].id \in Nat
    <3>1. 1 \in 1 .. Len(chans[k].req)
      BY <2>2
    <3>2. chans[k].req[1] \in Msg
      BY <1>1, <3>1, ElementOfSeq
    <3> QED
      BY <3>2 DEF Msg
  <2>5. chans[k].req[1].kind = "wal" =>
          chans[k].req[1].call \in Calls /\ chans[k].req[1].id <= Len(log')
    BY <1>1, <1>3, <2>1, <2>3, <2>4 DEF OneRequest
  <2> QED
    BY <2>1, <2>2, <2>3, <2>5 DEF OneRequest
<1> QED
  BY <1>2, <1>3

\* A step of daemon d: the others, their connections and the server stay.
ClientFrame(d) ==
    /\ \A e \in Daemons : e # d => SameCall(e)
    /\ DOMAIN chans \subseteq DOMAIN chans'
    /\ \A k \in DOMAIN chans : k # conn[d] => chans'[k] = chans[k]
    /\ serving' = serving /\ answer' = answer /\ log' = log /\ synced' = synced

\* What is left to show of such a step.
LEMMA ClientKeeps ==
    ASSUME IInv, TypeOK', NEW d \in Daemons, ClientFrame(d),
           Calling(d)', Connected(d)',
           conn'[d] \in {0, conn[d], Len(chans) + 1},
           \A k \in DOMAIN chans' : k = conn[d] \/ k \notin DOMAIN chans => OneRequest(k)',
           answer # Nothing => chans'[serving].server,
           \A c \in Calls : result'[c] = "OKE" => c \in Synced
    PROVE  CallInv' /\ ChanInv' /\ ConnInv' /\ CountInv'
<1> USE DEF IInv
<1>1. /\ LogGrows /\ Synced' = Synced /\ Len(log) \in Nat
      /\ Len(chans) \in Nat /\ DOMAIN chans = 1 .. Len(chans)
  <2>1. /\ synced \in Nat /\ Len(log) \in Nat
        /\ Len(chans) \in Nat /\ DOMAIN chans = 1 .. Len(chans)
    BY LenProperties DEF TypeOK
  <2> QED
    BY <2>1 DEF ClientFrame, LogGrows, Synced
<1>2. ASSUME NEW k \in DOMAIN chans, k # conn[d]  PROVE Stays(k)
  BY <1>1, <1>2 DEF ClientFrame, Stays, Answering
<1>3. ASSUME NEW e \in Daemons, e # d, conn[e] # 0
      PROVE  conn[e] \in DOMAIN chans /\ conn[e] # conn[d]
  <2>1. conn[e] \in 0 .. Len(chans)
    BY DEF TypeOK
  <2>2. conn[e] # conn[d]
    BY <1>3 DEF ConnInv
  <2> QED
    BY <1>1, <1>3, <2>1, <2>2
<1>4. CallInv'
  BY <1>1, CallingKept DEF CallInv, ClientFrame
<1>5. ChanInv'
  <2>1. ASSUME NEW k \in DOMAIN chans'  PROVE OneRequest(k)'
    BY <2>1, <1>2, OneRequestKept
  <2> QED
    BY <2>1 DEF ChanInv, ClientFrame
<1>6. ConnInv'
  <2>1. ASSUME NEW e \in Daemons  PROVE Connected(e)'
    BY <2>1, <1>1, <1>2, <1>3, ConnectedKept DEF ClientFrame
  <2>2. ASSUME NEW e \in Daemons, e # d  PROVE conn'[e] = 0 \/ conn'[e] # conn'[d]
    BY <2>2, <1>1, <1>3 DEF ClientFrame, SameCall, TypeOK
  <2>3. ASSUME NEW e \in Daemons, NEW f \in Daemons, conn'[e] = conn'[f], conn'[e] # 0, e # f
        PROVE  FALSE
    BY <2>2, <2>3 DEF ClientFrame, SameCall, ConnInv
  <2> QED
    BY <2>1, <2>3 DEF ConnInv
<1>7. CountInv'
  BY <1>1 DEF CountInv
<1> QED
  BY <1>4, <1>5, <1>6, <1>7

\* The steps of a client that change nothing but what is its own.
LEMMA CallsDiffer ==
    ASSUME IInv, NEW d \in Daemons, NEW e \in Daemons, e # d, holder[e] # NoCall
    PROVE  holder[e] # holder[d] /\ holder[e] \in Calls
<1>1. holder[e] \in Calls
  BY DEF IInv, TypeOK
<1>2. CallerOf[holder[e]] = e /\ (holder[d] # NoCall => CallerOf[holder[d]] = d)
  BY DEF IInv, CallInv, Calling
<1> QED
  BY <1>1, <1>2

\* While no daemon counts a call as sent that was not, what was sent is kept.
LEMMA SentInvKept ==
    ASSUME IInv, TypeOK', CallInv', Sent' \in [Calls -> Nat],
           \A c \in Calls : Sent'[c] <= Sent[c],
           \A c \in Calls : Fresh(c)' => Fresh(c),
           \A d \in Daemons : holder'[d] # NoCall =>
               \/ holder'[d] = holder[d] /\ Attempts(d) <= Attempts(d)'
               \/ Fresh(holder'[d])
    PROVE  SentInv'
<1> USE DEF IInv
<1>1. Sent \in [Calls -> Nat] /\ CancelAfter \in Nat
  BY SentType, LetDXAssumption
<1>2. ASSUME NEW c \in Calls  PROVE Sent'[c] <= CancelAfter /\ (Fresh(c)' => Sent'[c] = 0)
  BY <1>1 DEF SentInv
<1>3. ASSUME NEW c \in Calls, NEW d \in Daemons, holder'[d] = c  PROVE Sent'[c] <= Attempts(d)'
  <2>1. tries[d] \in Nat /\ tries'[d] \in Nat /\ holder'[d] # NoCall
    BY <1>3, <1>1, LetDXAssumption DEF TypeOK
  <2>2. Attempts(d) \in Int /\ Attempts(d)' \in Int
    BY <2>1 DEF Attempts
  <2>3. CASE holder'[d] = holder[d] /\ Attempts(d) <= Attempts(d)'
    <3>1. Sent[c] <= Attempts(d)
      BY <2>3, <1>3 DEF SentInv
    <3>2. Sent[c] \in Nat /\ Sent'[c] \in Nat /\ Sent'[c] <= Sent[c]
      BY <1>1
    <3> QED
      BY <2>2, <2>3, <3>1, <3>2
  <2>4. CASE Fresh(holder'[d])
    <3>1. Sent'[c] = 0
      BY <2>4, <1>1, <1>3 DEF SentInv
    <3>2. Attempts(d)' >= 0
      BY <2>1 DEF Attempts, CallInv, Calling
    <3> QED
      BY <2>2, <3>1, <3>2
  <2> QED
    BY <2>1, <2>3, <2>4
<1> QED
  BY <1>2, <1>3 DEF SentInv

LEMMA FaultFreeKept ==
    ASSUME IInv, TypeOK', Sent' \in [Calls -> Nat],
           \A c \in Calls : Sent'[c] <= Sent[c],
           faults' = 0 => faults = 0,
           faults = 0 => \A d \in Daemons : Unsent(d)' =>
               \/ holder'[d] = holder[d] /\ Unsent(d)
               \/ Fresh(holder'[d])
    PROVE  FaultFree'
<1> USE DEF IInv
<1>1. Sent \in [Calls -> Nat]
  BY SentType
<1> SUFFICES ASSUME faults' = 0
             PROVE  /\ \A c \in Calls : Sent'[c] <= 1
                    /\ \A d \in Daemons : Unsent(d)' => Sent'[holder'[d]] = 0
  BY DEF FaultFree
<1>2. \A c \in Calls : Sent'[c] <= 1
  BY <1>1 DEF FaultFree
<1>3. ASSUME NEW d \in Daemons, Unsent(d)'  PROVE Sent'[holder'[d]] = 0
  <2>1. holder'[d] \in Calls
    BY <1>3 DEF Unsent, TypeOK
  <2>2. Sent[holder'[d]] = 0
    BY <1>3, <2>1 DEF FaultFree, SentInv
  <2> QED
    BY <2>1, <2>2, <1>1
<1> QED
  BY <1>2, <1>3

\* No request of a call is sent.
NoneSent ==
    \A k \in DOMAIN chans' : chans'[k].req # <<>> =>
        \/ k \in DOMAIN chans /\ chans'[k].req = chans[k].req
        \/ chans'[k].req[1].call = NoCall

LEMMA SentNotMore ==
    ASSUME TypeOK, TypeOK', log' = log, NoneSent
    PROVE  Sent' \in [Calls -> Nat] /\ \A c \in Calls : Sent'[c] <= Sent[c]
<1>1. (Sent \in [Calls -> Nat])'
  BY SentType, PTL
<1>2. ASSUME NEW c \in Calls  PROVE Sent'[c] <= Sent[c]
  <2>1. NoNewRequest(c)
    BY LetDXAssumption DEF NoneSent, NoNewRequest
  <2> QED
    BY <2>1, SentKept
<1> QED
  BY <1>1, <1>2

\* A step of a client that sends no request.
LEMMA OwnStep ==
    ASSUME IInv, TypeOK', NEW d \in Daemons, ClientFrame(d), NoneSent,
           Calling(d)', Connected(d)',
           conn'[d] \in {0, conn[d], Len(chans) + 1},
           \A k \in DOMAIN chans' : k = conn[d] \/ k \notin DOMAIN chans => OneRequest(k)',
           answer # Nothing => chans'[serving].server,
           \A c \in Calls : result'[c] = "OKE" => c \in Synced,
           \A c \in Calls : Fresh(c)' => Fresh(c),
           holder'[d] # NoCall =>
               \/ holder'[d] = holder[d] /\ Attempts(d) <= Attempts(d)'
               \/ Fresh(holder'[d]),
           faults' = 0 => faults = 0,
           faults' = 0 /\ Unsent(d)' =>
               \/ holder'[d] = holder[d] /\ Unsent(d)
               \/ Fresh(holder'[d])
    PROVE  IInv'
<1> USE DEF IInv
<1>1. CallInv' /\ ChanInv' /\ ConnInv' /\ CountInv'
  BY ClientKeeps
<1>2. Sent' \in [Calls -> Nat] /\ \A c \in Calls : Sent'[c] <= Sent[c]
  BY SentNotMore DEF ClientFrame
<1>3. ASSUME NEW e \in Daemons, e # d
      PROVE  /\ holder'[e] = holder[e] /\ Attempts(e)' = Attempts(e)
             /\ Unsent(e)' => Unsent(e)
  <2>1. /\ holder'[e] = holder[e] /\ step'[e] = step[e] /\ tries'[e] = tries[e]
        /\ conn'[e] = conn[e]
    BY <1>3 DEF ClientFrame, SameCall
  <2>2. step[e] = "receive" => conn[e] \in DOMAIN chans /\ conn[e] # conn[d]
    <3>1. step[e] = "receive" => conn[e] # 0
      BY DEF ConnInv, Connected
    <3>2. conn[e] \in 0 .. Len(chans) /\ Len(chans) \in Nat /\ DOMAIN chans = 1 .. Len(chans)
      BY LenProperties DEF TypeOK
    <3>3. conn[e] # 0 => conn[e] # conn[d]
      BY <1>3 DEF ConnInv
    <3> QED
      BY <3>1, <3>2, <3>3
  <2>3. step[e] = "receive" => (Quiet(conn[e])' => Quiet(conn[e]))
    BY <2>1, <2>2 DEF ClientFrame, Quiet, Answering
  <2> QED
    BY <2>1, <2>3 DEF Attempts, Unsent
<1>4. SentInv'
  <2>1. ASSUME NEW e \in Daemons, holder'[e] # NoCall
        PROVE  \/ holder'[e] = holder[e] /\ Attempts(e) <= Attempts(e)'
               \/ Fresh(holder'[e])
    <3>1. Attempts(e) \in Int
      <4>1. tries[e] \in Nat
        BY LetDXAssumption DEF TypeOK
      <4> QED
        BY <4>1 DEF Attempts
    <3> QED
      BY <2>1, <3>1, <1>3
  <2> QED
    BY <1>1, <1>2, <2>1, SentInvKept
<1>5. FaultFree'
  <2>1. CASE faults' = 0
    BY <2>1, <1>2, <1>3, FaultFreeKept
  <2>2. CASE faults' # 0
    BY <2>2 DEF FaultFree
  <2> QED
    BY <2>1, <2>2
<1> QED
  BY <1>1, <1>4, <1>5

-----------------------------------------------------------------------------
(* The steps of a client that leave its connection alone.                  *)

LEMMA ConnectionAlone ==
    ASSUME IInv, TypeOK', NEW d \in Daemons,
           chans' = chans, conn' = conn, serving' = serving, answer' = answer, log' = log,
           step[d] \notin {"handshake", "receive"},
           step'[d] \notin {"handshake", "receive"},
           step'[d] = "send" => conn[d] # 0,
           conn[d] # 0 /\ chans[conn[d]].server => counter'[d] <= Len(log)
    PROVE  /\ Connected(d)' /\ NoneSent
           /\ \A k \in DOMAIN chans : OneRequest(k)'
           /\ answer # Nothing => chans'[serving].server
<1>1. Connected(d)
  BY DEF IInv, ConnInv
<1>2. Connected(d)'
  BY <1>1 DEF Connected, Waiting, Quiet, Answering
<1>3. \A k \in DOMAIN chans : OneRequest(k)'
  BY DEF IInv, ChanInv, OneRequest, Answering
<1> QED
  BY <1>2, <1>3 DEF NoneSent, IInv, ChanInv

LEMMA LockInv ==
    ASSUME IInv, TypeOK', NEW d \in Daemons, NEW c \in Calls, Lock(d, c)
    PROVE  IInv'
<1> USE DEF handlers, server
<1>1. /\ holder[d] = NoCall /\ CallerOf[c] = d /\ result[c] = "none"
      /\ holder' = [holder EXCEPT ![d] = c] /\ step' = [step EXCEPT ![d] = "try"]
      /\ failed' = [failed EXCEPT ![d] = FALSE] /\ reply' = [reply EXCEPT ![d] = Nothing]
      /\ UNCHANGED <<context, result, tries, conn, counter, chans, backlog, faults>>
      /\ UNCHANGED <<up, serving, answer, log, synced>>
  BY DEF Lock, Goto
<1>2. TypeOK /\ step[d] = "idle" /\ c # NoCall
  BY <1>1, LetDXAssumption DEF IInv, TypeOK
<1>3. holder'[d] = c /\ step'[d] = "try" /\ reply'[d] = Nothing
  BY <1>1 DEF IInv, TypeOK
<1>4. ASSUME NEW e \in Daemons, e # d  PROVE SameCall(e)
  BY <1>1, <1>4, <1>2 DEF SameCall, TypeOK
<1>5. ClientFrame(d)
  BY <1>1, <1>4 DEF ClientFrame
<1>6. Calling(d)'
  BY <1>1, <1>2, <1>3 DEF IInv, CallInv, Calling
<1>11. conn[d] # 0 /\ chans[conn[d]].server => counter'[d] <= Len(log)
  BY <1>1, <1>2 DEF IInv, ConnInv, Connected, Waiting
<1>7. /\ Connected(d)' /\ NoneSent
      /\ \A k \in DOMAIN chans : OneRequest(k)'
      /\ answer # Nothing => chans'[serving].server
  BY <1>1, <1>2, <1>3, <1>11, ConnectionAlone
<1>8. ASSUME NEW b \in Calls, Fresh(b)'  PROVE Fresh(b)
  BY <1>8, <1>1, LetDXAssumption DEF Fresh, IInv, TypeOK
<1>9. Fresh(c)
  BY <1>1, <1>2 DEF Fresh
<1>10. \A b \in Calls : result'[b] = "OKE" => b \in Synced
  BY <1>1 DEF IInv, CountInv
<1> QED
  BY <1>1, <1>3, <1>5, <1>6, <1>7, <1>8, <1>9, <1>10, OwnStep

LEMMA TryInv ==
    ASSUME IInv, TypeOK', NEW d \in Daemons, TryAgain(d) \/ GiveUp(d) \/ KeepConnection(d)
    PROVE  IInv'
<1> USE DEF handlers, server
<1>1. /\ UNCHANGED <<context, result, holder, failed, reply, conn, counter, chans, faults>>
      /\ UNCHANGED <<up, serving, answer, log, synced>>
      /\ step' = [step EXCEPT ![d] = step'[d]]
      /\ tries' = [tries EXCEPT ![d] = tries'[d]]
  BY DEF TryAgain, GiveUp, KeepConnection, Goto, IInv, TypeOK
<1>2. \/ /\ step[d] = "try" /\ step'[d] = "connect" /\ tries'[d] = tries[d] + 1
      \/ /\ step[d] = "try" /\ step'[d] = "finish" /\ tries'[d] = tries[d]
         /\ ContextDone(d) \/ tries[d] >= CancelAfter
      \/ /\ step[d] = "connect" /\ step'[d] = "send" /\ tries'[d] = tries[d] /\ conn[d] # 0
  BY DEF TryAgain, GiveUp, KeepConnection, Goto, At, IInv, TypeOK
<1>3. TypeOK /\ Calling(d) /\ tries[d] \in Nat /\ CancelAfter \in Nat \ {0}
  <2>1. TypeOK /\ Calling(d)
    BY DEF IInv, CallInv
  <2>2. tries[d] \in 0 .. CancelAfter /\ CancelAfter \in Nat \ {0}
    BY <2>1, LetDXAssumption DEF TypeOK
  <2> QED
    BY <2>1, <2>2
<1>4. ASSUME NEW e \in Daemons, e # d  PROVE SameCall(e)
  BY <1>1, <1>4, <1>3 DEF SameCall, TypeOK
<1>5. ClientFrame(d)
  BY <1>1, <1>4 DEF ClientFrame
<1>6. Calling(d)'
  BY <1>1, <1>2, <1>3 DEF Calling, ContextDone
<1>11. conn[d] # 0 /\ chans[conn[d]].server => counter'[d] <= Len(log)
  BY <1>1, <1>2 DEF IInv, ConnInv, Connected, Waiting
<1>7. /\ Connected(d)' /\ NoneSent
      /\ \A k \in DOMAIN chans : OneRequest(k)'
      /\ answer # Nothing => chans'[serving].server
  BY <1>1, <1>2, <1>11, ConnectionAlone
<1>8. \A b \in Calls : Fresh(b)' => Fresh(b)
  BY <1>1 DEF Fresh
<1>9. Attempts(d) <= Attempts(d)' /\ (Unsent(d)' => Unsent(d))
  BY <1>2, <1>3 DEF Attempts, Unsent
<1>10. \A b \in Calls : result'[b] = "OKE" => b \in Synced
  BY <1>1 DEF IInv, CountInv
<1> QED
  BY <1>1, <1>5, <1>6, <1>7, <1>8, <1>9, <1>10, OwnStep

LEMMA FinishInv ==
    ASSUME IInv, TypeOK', NEW d \in Daemons, Finish(d)
    PROVE  IInv'
<1> USE DEF handlers, server
<1>1. /\ step[d] = "finish" /\ tries' = [tries EXCEPT ![d] = 0]
      /\ result' = [result EXCEPT ![holder[d]] = Outcome(d)]
      /\ counter' = IF Writes(d) /\ Outcome(d) = "OKE"
                    THEN [counter EXCEPT ![d] = @ + 1] ELSE counter
      /\ holder' = [holder EXCEPT ![d] = NoCall] /\ step' = [step EXCEPT ![d] = "idle"]
      /\ UNCHANGED <<context, failed, reply, conn, chans, backlog, faults>>
      /\ UNCHANGED <<up, serving, answer, log, synced>>
  BY DEF Finish, Goto, At
<1>2. TypeOK /\ Calling(d) /\ holder[d] \in Calls /\ CallerOf[holder[d]] = d
  BY <1>1, LetDXAssumption DEF IInv, TypeOK, CallInv, Calling
<1>3. holder'[d] = NoCall /\ step'[d] = "idle" /\ tries'[d] = 0
  BY <1>1, <1>2 DEF TypeOK
<1>11. /\ Outcome(d) \in {"OKE", "ERR", "ACC", "aborted", "failed"}
       /\ Outcome(d) = "OKE" => holder[d] \in Synced /\ counter[d] < synced
  BY <1>1, OutcomeType DEF At
<1>4. ASSUME NEW e \in Daemons, e # d  PROVE SameCall(e)
  <2>1. holder[e] # NoCall => holder[e] # holder[d]
    BY <1>4, CallsDiffer
  <2>2. counter'[e] = counter[e]
    BY <1>1, <1>4, <1>2 DEF TypeOK
  <2> QED
    BY <1>1, <1>4, <1>2, <2>1, <2>2 DEF SameCall, TypeOK
<1>5. ClientFrame(d)
  BY <1>1, <1>4 DEF ClientFrame
<1>6. Calling(d)'
  BY <1>3 DEF Calling
<1>10. conn[d] # 0 /\ chans[conn[d]].server => counter'[d] <= Len(log)
  <2>1. Len(log) \in Nat /\ counter[d] \in Nat /\ synced \in 0 .. Len(log)
    BY <1>2, LenProperties DEF TypeOK
  <2>2. conn[d] # 0 /\ chans[conn[d]].server => counter[d] <= Len(log)
    BY <1>1 DEF IInv, ConnInv, Connected, Waiting
  <2>3. Outcome(d) = "OKE" => counter[d] + 1 <= Len(log)
    BY <2>1, <1>11
  <2> QED
    BY <1>1, <1>2, <2>2, <2>3 DEF TypeOK
<1>7. /\ Connected(d)' /\ NoneSent
      /\ \A k \in DOMAIN chans : OneRequest(k)'
      /\ answer # Nothing => chans'[serving].server
  BY <1>1, <1>3, <1>10, ConnectionAlone
<1>8. ASSUME NEW b \in Calls, Fresh(b)'  PROVE Fresh(b)
  <2>1. b # holder[d]
    BY <1>8, <1>1, <1>2, <1>11 DEF Fresh, TypeOK
  <2>2. result[b] = "none"
    BY <1>8, <2>1, <1>1, <1>2 DEF Fresh, TypeOK
  <2>3. CallerOf[b] = d => holder[d] # b
    BY <2>1
  <2>4. CallerOf[b] # d => holder'[CallerOf[b]] = holder[CallerOf[b]]
    BY <1>1, <1>2, LetDXAssumption DEF TypeOK
  <2> QED
    BY <1>8, <2>2, <2>3, <2>4 DEF Fresh
<1>9. Unsent(d)' => FALSE
  BY <1>3 DEF Unsent
<1>12. ASSUME NEW b \in Calls, result'[b] = "OKE"  PROVE b \in Synced
  <2>1. CASE b = holder[d]
    BY <2>1, <1>1, <1>2, <1>11, <1>12 DEF TypeOK
  <2>2. CASE b # holder[d]
    BY <2>2, <1>1, <1>2, <1>12 DEF IInv, CountInv, TypeOK
  <2> QED
    BY <2>1, <2>2
<1> QED
  BY <1>1, <1>3, <1>5, <1>6, <1>7, <1>8, <1>9, <1>12, OwnStep

-----------------------------------------------------------------------------
(* The steps of a client that close its connection.                        *)

\* The server does not read from, nor write to, a connection that it closed.
LEMMA ServerGone ==
    ASSUME IInv, NEW k \in DOMAIN chans, ~chans[k].server
    PROVE  chans[k].req = <<>> /\ ~Answering(k)
BY DEF IInv, ChanInv, OneRequest, Answering

LEMMA ConnectionClosed ==
    ASSUME IInv, TypeOK', NEW d \in Daemons, CloseConnection(d),
           conn'[d] = 0, step'[d] \in {"idle", "try"},
           serving' = serving, answer' = answer, log' = log, synced' = synced
    PROVE  /\ Connected(d)' /\ NoneSent /\ DOMAIN chans' = DOMAIN chans
           /\ \A k \in DOMAIN chans : k # conn[d] => chans'[k] = chans[k]
           /\ \A k \in DOMAIN chans : OneRequest(k)'
           /\ answer # Nothing => chans'[serving].server
<1> USE DEF IInv
<1>1. /\ chans' \in Seq(Chan) /\ Len(chans') = Len(chans)
      /\ conn[d] # 0 =>
           Becomes(conn[d], [chans[conn[d]] EXCEPT !.client = FALSE, !.resp = <<>>])
  BY ClosingType
<1>2. /\ Len(chans) \in Nat /\ DOMAIN chans = 1 .. Len(chans)
      /\ DOMAIN chans' = DOMAIN chans /\ conn[d] \in 0 .. Len(chans)
  BY <1>1, LenProperties DEF TypeOK
<1>3. \A k \in DOMAIN chans : k # conn[d] => chans'[k] = chans[k]
  BY <1>1 DEF Becomes, CloseConnection
<1>4. \A k \in DOMAIN chans :
        chans'[k].req = chans[k].req /\ chans'[k].server = chans[k].server
  <2>1. ASSUME NEW k \in DOMAIN chans, k = conn[d]
        PROVE  chans'[k].req = chans[k].req /\ chans'[k].server = chans[k].server
    <3>1. chans'[k] = [chans[k] EXCEPT !.client = FALSE, !.resp = <<>>]
      BY <2>1, <1>1, <1>2 DEF Becomes
    <3>2. chans[k] \in Chan
      BY <1>2, <2>1, ChanType
    <3> QED
      BY <3>1, <3>2 DEF Chan
  <2> QED
    BY <2>1, <1>3
<1>5. \A k \in DOMAIN chans : OneRequest(k)'
  BY <1>4 DEF ChanInv, OneRequest, Answering
<1>6. answer # Nothing => chans'[serving].server
  <2>1. answer # Nothing => serving \in DOMAIN chans
    BY <1>2 DEF ChanInv, TypeOK
  <2> QED
    BY <2>1, <1>4 DEF ChanInv
<1> QED
  BY <1>2, <1>3, <1>4, <1>5, <1>6 DEF Connected, NoneSent

\* An attempt fails, and in the absence of faults nothing of it is left.
LEMMA FailsInv ==
    ASSUME IInv, TypeOK', NEW d \in Daemons, AttemptFails(d),
           step[d] \in {"connect", "handshake", "send", "receive"},
           UNCHANGED <<context, result, holder, tries, reply, counter>>,
           UNCHANGED <<up, serving, answer, log, synced>>,
           faults' = 0 => faults = 0,
           faults' = 0 => Unsent(d)
    PROVE  IInv'
<1>1. /\ failed' = [failed EXCEPT ![d] = TRUE] /\ conn' = [conn EXCEPT ![d] = 0]
      /\ CloseConnection(d) /\ step' = [step EXCEPT ![d] = "try"]
  BY DEF AttemptFails, Goto
<1>2. TypeOK /\ Calling(d) /\ tries[d] \in Nat
  <2>1. TypeOK /\ Calling(d)
    BY DEF IInv, CallInv
  <2>2. tries[d] \in 0 .. CancelAfter
    BY <2>1 DEF TypeOK
  <2> QED
    BY <2>1, <2>2, LetDXAssumption
<1>3. step'[d] = "try" /\ conn'[d] = 0 /\ failed'[d]
  BY <1>1, <1>2 DEF TypeOK
<1>4. ASSUME NEW e \in Daemons, e # d  PROVE SameCall(e)
  BY <1>1, <1>4, <1>2 DEF SameCall, TypeOK
<1>5. /\ Connected(d)' /\ NoneSent /\ DOMAIN chans' = DOMAIN chans
      /\ \A k \in DOMAIN chans : k # conn[d] => chans'[k] = chans[k]
      /\ \A k \in DOMAIN chans : OneRequest(k)'
      /\ answer # Nothing => chans'[serving].server
  BY <1>1, <1>3, ConnectionClosed
<1>6. ClientFrame(d)
  BY <1>4, <1>5 DEF ClientFrame
<1>7. Calling(d)'
  BY <1>2, <1>3 DEF Calling
<1>8. \A b \in Calls : Fresh(b)' => Fresh(b)
  BY DEF Fresh
<1>9. Attempts(d) <= Attempts(d)'
  BY <1>2, <1>3 DEF Attempts
<1>10. \A b \in Calls : result'[b] = "OKE" => b \in Synced
  BY DEF IInv, CountInv
<1> QED
  BY <1>3, <1>5, <1>6, <1>7, <1>8, <1>9, <1>10, OwnStep

LEMMA ConnectionFailsInv ==
    ASSUME IInv, TypeOK', NEW d \in Daemons,
           ConnectFails(d) \/ ConnectionLost(d) \/ ConnectionBreaks(d)
    PROVE  IInv'
<1>1. CASE ConnectFails(d)
  <2>1. Unsent(d) /\ step[d] = "connect"
    BY <1>1 DEF ConnectFails, At, Unsent
  <2> QED
    BY <1>1, <2>1, FailsInv DEF ConnectFails, handlers, server
<1>2. CASE ConnectionLost(d)
  <2>1. step[d] \in {"handshake", "send", "receive"}
    BY <1>2 DEF ConnectionLost
  <2>2. conn[d] \in DOMAIN chans
    BY <2>1, Holds, LenProperties DEF IInv, TypeOK
  <2>3. Quiet(conn[d])
    BY <1>2, <2>2, ServerGone DEF ConnectionLost, Chan_, Quiet
  <2> QED
    BY <1>2, <2>1, <2>3, FailsInv DEF ConnectionLost, Unsent, handlers, server
<1>3. CASE ConnectionBreaks(d)
  <2>1. step[d] \in {"handshake", "send", "receive"} /\ faults' # 0
    BY <1>3 DEF ConnectionBreaks, IInv, TypeOK
  <2> QED
    BY <1>3, <2>1, FailsInv DEF ConnectionBreaks, handlers, server
<1> QED
  BY <1>1, <1>2, <1>3

LEMMA RestartInv ==
    ASSUME IInv, TypeOK', NEW d \in Daemons, DaemonRestarts(d)
    PROVE  IInv'
<1>1. /\ faults' = faults + 1
      /\ result' = [c \in Calls |-> IF c = holder[d] THEN "aborted" ELSE result[c]]
      /\ holder' = [holder EXCEPT ![d] = NoCall] /\ tries' = [tries EXCEPT ![d] = 0]
      /\ failed' = [failed EXCEPT ![d] = FALSE] /\ reply' = [reply EXCEPT ![d] = Nothing]
      /\ counter' = [counter EXCEPT ![d] = 0] /\ conn' = [conn EXCEPT ![d] = 0]
      /\ CloseConnection(d) /\ step' = [step EXCEPT ![d] = "idle"]
      /\ UNCHANGED <<context, backlog>> /\ UNCHANGED <<up, serving, answer, log, synced>>
  BY DEF DaemonRestarts, Goto, server
<1>2. TypeOK /\ Len(log) \in Nat /\ faults' # 0
  BY <1>1, LenProperties DEF IInv, TypeOK
<1>3. step'[d] = "idle" /\ conn'[d] = 0 /\ holder'[d] = NoCall /\ tries'[d] = 0 /\ counter'[d] = 0
  BY <1>1, <1>2 DEF TypeOK
<1>4. ASSUME NEW e \in Daemons, e # d  PROVE SameCall(e)
  <2>1. holder[e] # NoCall => holder[e] # holder[d] /\ holder[e] \in Calls
    BY <1>4, CallsDiffer
  <2> QED
    BY <1>1, <1>4, <1>2, <2>1 DEF SameCall, TypeOK
<1>5. /\ Connected(d)' /\ NoneSent /\ DOMAIN chans' = DOMAIN chans
      /\ \A k \in DOMAIN chans : k # conn[d] => chans'[k] = chans[k]
      /\ \A k \in DOMAIN chans : OneRequest(k)'
      /\ answer # Nothing => chans'[serving].server
  BY <1>1, <1>3, ConnectionClosed
<1>6. ClientFrame(d)
  BY <1>1, <1>4, <1>5 DEF ClientFrame
<1>7. Calling(d)'
  BY <1>3 DEF Calling
<1>8. ASSUME NEW b \in Calls, Fresh(b)'  PROVE Fresh(b)
  <2>1. b # holder[d] /\ result[b] = "none"
    BY <1>1, <1>8 DEF Fresh
  <2>2. CallerOf[b] # d => holder'[CallerOf[b]] = holder[CallerOf[b]]
    BY <1>1, <1>2, LetDXAssumption DEF TypeOK
  <2> QED
    BY <1>8, <2>1, <2>2 DEF Fresh
<1>10. \A b \in Calls : result'[b] = "OKE" => b \in Synced
  BY <1>1 DEF IInv, CountInv
<1> QED
  BY <1>2, <1>3, <1>5, <1>6, <1>7, <1>8, <1>10, OwnStep

-----------------------------------------------------------------------------
(* The steps of a client that dial, and that exchange messages.            *)

LEMMA DialInv ==
    ASSUME IInv, NEW d \in Daemons, NEW sent \in Seq(Msg), Dial(d, sent),
           sent = <<>> \/ sent = <<[kind |-> "count", call |-> NoCall, id |-> 0]>>,
           serving' = serving, answer' = answer, log' = log, NEW n, n = Len(chans) + 1
    PROVE  /\ DOMAIN chans \subseteq DOMAIN chans' /\ n \in DOMAIN chans'
           /\ \A k \in DOMAIN chans : chans'[k] = chans[k]
           /\ chans'[n] = [req |-> sent, resp |-> <<>>, client |-> TRUE, server |-> TRUE]
           /\ ~Answering(n)' /\ NoneSent
           /\ \A k \in DOMAIN chans' : k = conn[d] \/ k \notin DOMAIN chans => OneRequest(k)'
           /\ answer # Nothing => chans'[serving].server
<1> USE DEF IInv
<1>1. /\ chans' \in Seq(Chan) /\ Len(chans') = n
      /\ \A k \in 1 .. Len(chans) : chans'[k] = chans[k]
      /\ chans'[n] = [req |-> sent, resp |-> <<>>, client |-> TRUE, server |-> TRUE]
  BY DialType
<1>2. /\ Len(chans) \in Nat /\ DOMAIN chans = 1 .. Len(chans)
      /\ DOMAIN chans' = 1 .. n /\ serving \in 0 .. Len(chans) /\ conn[d] = 0
  BY <1>1, LenProperties DEF TypeOK, Dial
<1>3. \A k \in DOMAIN chans' : k \in DOMAIN chans \/ k = n
  BY <1>2
<1>4. ~Answering(n)'
  BY <1>2 DEF Answering
<1>5. sent # <<>> => Len(sent) = 1 /\ sent[1].kind = "count" /\ sent[1].call = NoCall
  OBVIOUS
<1>6. OneRequest(n)'
  BY <1>1, <1>4, <1>5 DEF OneRequest
<1>7. NoneSent
  BY <1>1, <1>2, <1>3, <1>5 DEF NoneSent
<1>8. answer # Nothing => chans'[serving].server
  <2>1. answer # Nothing => serving \in 1 .. Len(chans) /\ chans[serving].server
    BY <1>2 DEF ChanInv
  <2> QED
    BY <2>1, <1>1
<1>9. n \in DOMAIN chans' /\ conn[d] \notin DOMAIN chans' /\ DOMAIN chans \subseteq DOMAIN chans'
  BY <1>2
<1> QED
  BY <1>1, <1>2, <1>3, <1>4, <1>6, <1>7, <1>8, <1>9

LEMMA ConnectInv ==
    ASSUME IInv, TypeOK', NEW d \in Daemons, Connect(d) \/ ConnectLeaks(d)
    PROVE  IInv'
<1>n. PICK n : n = Len(chans) + 1
  OBVIOUS
<1> DEFINE hello == <<[kind |-> "count", call |-> NoCall, id |-> 0]>>
<1>0. <<>> \in Seq(Msg) /\ hello \in Seq(Msg)
  BY EmptySeq DEF Msg
<1>1. /\ step[d] = "connect" /\ conn[d] = 0 /\ step' = [step EXCEPT ![d] = step'[d]]
      /\ UNCHANGED <<context, result, holder, tries, reply, counter, faults>>
      /\ UNCHANGED <<up, serving, answer, log, synced>>
      /\ \/ /\ Dial(d, hello) /\ step'[d] = "handshake" /\ conn' = [conn EXCEPT ![d] = n]
            /\ failed' = failed
         \/ /\ Dial(d, <<>>) /\ step'[d] = "try" /\ conn' = conn
            /\ failed' = [failed EXCEPT ![d] = TRUE]
  BY <1>n DEF Connect, ConnectLeaks, Dial, At, Goto, handlers, server, IInv, TypeOK
<1>2. TypeOK /\ Calling(d) /\ tries[d] \in Nat
  <2>1. TypeOK /\ Calling(d)
    BY DEF IInv, CallInv
  <2>2. tries[d] \in 0 .. CancelAfter
    BY <2>1 DEF TypeOK
  <2> QED
    BY <2>1, <2>2, LetDXAssumption
<1>3. ASSUME NEW e \in Daemons, e # d  PROVE SameCall(e)
  BY <1>1, <1>2, <1>3 DEF SameCall, TypeOK
<1>4. /\ DOMAIN chans \subseteq DOMAIN chans'
      /\ \A k \in DOMAIN chans : chans'[k] = chans[k]
      /\ NoneSent
      /\ \A k \in DOMAIN chans' : k = conn[d] \/ k \notin DOMAIN chans => OneRequest(k)'
      /\ answer # Nothing => chans'[serving].server
  BY <1>n, <1>0, <1>1, DialInv
<1>5. ClientFrame(d)
  BY <1>1, <1>3, <1>4 DEF ClientFrame
<1>6. Calling(d)'
  BY <1>1, <1>2 DEF Calling, TypeOK
<1>7. Connected(d)' /\ conn'[d] \in {0, conn[d], n}
  <2>1. CASE step'[d] = "try"
    BY <2>1, <1>1 DEF Connected
  <2>2. CASE step'[d] = "handshake"
    <3>0. Dial(d, hello) /\ conn'[d] = n /\ n # 0
      BY <2>2, <1>n, <1>1, <1>2, LenProperties DEF TypeOK
    <3>1. /\ chans'[n] = [req |-> hello, resp |-> <<>>, client |-> TRUE, server |-> TRUE]
          /\ ~Answering(n)'
      BY <3>0, <1>n, <1>0, <1>1, DialInv
    <3>2. Len(chans'[n].resp) <= 1
      BY <3>1, EmptySeq
    <3>3. Waiting(d)'
      BY <2>2, <3>0, <3>1, <3>2 DEF Waiting
    <3> QED
      BY <2>2, <3>0, <3>3 DEF Connected
  <2> QED
    BY <2>1, <2>2, <1>1
<1>8. \A b \in Calls : Fresh(b)' => Fresh(b)
  BY <1>1 DEF Fresh
<1>9. Attempts(d) <= Attempts(d)' /\ (Unsent(d)' => Unsent(d))
  BY <1>1, <1>2 DEF Attempts, Unsent
<1>10. \A b \in Calls : result'[b] = "OKE" => b \in Synced
  BY <1>1 DEF IInv, CountInv
<1> QED
  BY <1>n, <1>1, <1>4, <1>5, <1>6, <1>7, <1>8, <1>9, <1>10, OwnStep

\* The client takes the response it waits for, and nothing is under way any more.
LEMMA ResponseArrives ==
    ASSUME IInv, NEW d \in Daemons, step[d] \in {"handshake", "receive"},
           Chan_(d).resp # <<>>, chans' = [chans EXCEPT ![conn[d]].resp = Tail(@)],
           conn' = conn, serving' = serving, answer' = answer, log' = log
    PROVE  /\ conn[d] \in DOMAIN chans /\ DOMAIN chans' = DOMAIN chans
           /\ \A k \in DOMAIN chans : k # conn[d] => chans'[k] = chans[k]
           /\ Head(Chan_(d).resp) = Chan_(d).resp[1]
           /\ chans'[conn[d]].client /\ chans'[conn[d]].server = chans[conn[d]].server
           /\ Quiet(conn[d])' /\ NoneSent
           /\ \A k \in DOMAIN chans' : k = conn[d] \/ k \notin DOMAIN chans => OneRequest(k)'
           /\ answer # Nothing => chans'[serving].server
<1> USE DEF IInv
<1>k. PICK k : k = conn[d]
  OBVIOUS
<1>1. k \in 1 .. Len(chans) /\ DOMAIN chans = 1 .. Len(chans) /\ Waiting(d)
  BY <1>k, Holds, LenProperties DEF TypeOK, ConnInv, Connected
<1>2. Becomes(k, [chans[k] EXCEPT !.resp = Tail(@)])
  BY <1>k, <1>1, ResponseTaken DEF Chan_
<1>3. DOMAIN chans' = DOMAIN chans
  BY <1>1, <1>2, LenProperties DEF Becomes
<1>4. chans[k].resp \in Seq(Reply) /\ chans[k] \in Chan
  BY <1>1, ChanType
<1>5. Len(chans[k].resp) = 1
  <2>1. Len(chans[k].resp) \in Nat /\ Len(chans[k].resp) # 0
    BY <1>k, <1>4, EmptySeq DEF Chan_
  <2>2. Len(chans[k].resp) <= 1
    BY <1>k, <1>1 DEF Waiting
  <2>3. \A i \in Nat : i # 0 /\ i <= 1 => i = 1
    OBVIOUS
  <2> QED
    BY <2>1, <2>2, <2>3
<1>6. Tail(chans[k].resp) = <<>> /\ Head(chans[k].resp) = chans[k].resp[1]
  <2>1. Tail(chans[k].resp) \in Seq(Reply) /\ Len(Tail(chans[k].resp)) = 0
    BY <1>k, <1>4, <1>5, HeadTailProperties DEF Chan_
  <2>2. Tail(chans[k].resp) = <<>>
    BY <2>1, EmptySeq
  <2> QED
    BY <1>k, <2>2
<1>7. /\ chans'[k].resp = <<>> /\ chans'[k].req = chans[k].req
      /\ chans'[k].client = chans[k].client /\ chans'[k].server = chans[k].server
  BY <1>2, <1>4, <1>6 DEF Becomes, Chan
<1>8. chans[k].req = <<>> /\ ~Answering(k) /\ chans[k].client
  BY <1>k, <1>1 DEF Waiting, Chan_
<1>9. \A j \in DOMAIN chans : j # k => chans'[j] = chans[j]
  BY <1>2 DEF Becomes
<1>10. OneRequest(k)'
  BY <1>7, <1>8 DEF OneRequest
<1>11. NoneSent
  BY <1>3, <1>7, <1>9 DEF NoneSent
<1>12. answer # Nothing => chans'[serving].server
  BY <1>7, <1>9, <1>1 DEF ChanInv, TypeOK
<1>13. Quiet(k)' /\ chans'[k].client /\ chans'[k].server = chans[k].server
  BY <1>7, <1>8 DEF Quiet, Answering
<1> QED
  BY <1>k, <1>1, <1>3, <1>6, <1>9, <1>10, <1>11, <1>12, <1>13 DEF Chan_

LEMMA SynchronizeInv ==
    ASSUME IInv, TypeOK', NEW d \in Daemons, Synchronize(d)
    PROVE  IInv'
<1>1. /\ step[d] = "handshake" /\ Chan_(d).resp # <<>>
      /\ counter' = [counter EXCEPT ![d] = Head(Chan_(d).resp).count]
      /\ chans' = [chans EXCEPT ![conn[d]].resp = Tail(@)]
      /\ step' = [step EXCEPT ![d] = "send"]
      /\ UNCHANGED <<context, result, holder, tries, failed, reply, conn, backlog, faults>>
      /\ UNCHANGED <<up, serving, answer, log, synced>>
  BY DEF Synchronize, At, Goto, handlers, server
<1>2. TypeOK /\ Calling(d) /\ Connected(d)
  BY DEF IInv, CallInv, ConnInv
<1>3. step'[d] = "send" /\ counter'[d] = Head(Chan_(d).resp).count
  BY <1>1, <1>2 DEF TypeOK
<1>4. ASSUME NEW e \in Daemons, e # d  PROVE SameCall(e)
  BY <1>1, <1>2, <1>4 DEF SameCall, TypeOK
<1>5. /\ conn[d] \in DOMAIN chans /\ DOMAIN chans' = DOMAIN chans
      /\ \A k \in DOMAIN chans : k # conn[d] => chans'[k] = chans[k]
      /\ Head(Chan_(d).resp) = Chan_(d).resp[1]
      /\ chans'[conn[d]].client /\ chans'[conn[d]].server = chans[conn[d]].server
      /\ Quiet(conn[d])' /\ NoneSent
      /\ \A k \in DOMAIN chans' : k = conn[d] \/ k \notin DOMAIN chans => OneRequest(k)'
      /\ answer # Nothing => chans'[serving].server
  BY <1>1, ResponseArrives
<1>6. ClientFrame(d)
  BY <1>1, <1>4, <1>5 DEF ClientFrame
<1>7. Calling(d)'
  BY <1>1, <1>2, <1>3 DEF Calling
<1>8. conn[d] # 0 /\ Waiting(d)
  BY <1>1, <1>2 DEF Connected
<1>10. chans'[conn[d]].server => counter'[d] <= Len(log)
  BY <1>1, <1>3, <1>5, <1>8 DEF Waiting, Greets, Chan_
<1>9. Connected(d)'
  <2>1. chans'[conn[d]].resp = <<>> /\ Len(chans'[conn[d]].resp) <= 1
    BY <1>1, <1>5, EmptySeq DEF Quiet
  <2> QED
    BY <1>1, <1>3, <1>5, <1>8, <1>10, <2>1 DEF Connected, Waiting, Quiet
<1>11. \A b \in Calls : (Fresh(b)' => Fresh(b)) /\ (result'[b] = "OKE" => b \in Synced)
  BY <1>1 DEF Fresh, IInv, CountInv
<1>12. Attempts(d)' = Attempts(d) /\ Attempts(d) \in Int /\ Unsent(d)
  <2>1. tries[d] \in 0 .. CancelAfter
    BY <1>2 DEF TypeOK
  <2> QED
    BY <2>1, <1>1, <1>3, LetDXAssumption DEF Attempts, Unsent
<1> QED
  BY <1>1, <1>5, <1>6, <1>7, <1>9, <1>11, <1>12, OwnStep

LEMMA ReceiveInv ==
    ASSUME IInv, TypeOK', NEW d \in Daemons, ReceiveResponse(d)
    PROVE  IInv'
<1>1. /\ step[d] = "receive" /\ Chan_(d).resp # <<>>
      /\ reply' = [reply EXCEPT ![d] = Head(Chan_(d).resp)]
      /\ failed' = [failed EXCEPT ![d] = FALSE]
      /\ chans' = [chans EXCEPT ![conn[d]].resp = Tail(@)]
      /\ step' = [step EXCEPT ![d] = "finish"]
      /\ UNCHANGED <<context, result, holder, tries, conn, counter, backlog, faults>>
      /\ UNCHANGED <<up, serving, answer, log, synced>>
  BY DEF ReceiveResponse, At, Goto, handlers, server
<1>2. TypeOK /\ Calling(d) /\ Connected(d)
  BY DEF IInv, CallInv, ConnInv
<1>3. step'[d] = "finish" /\ reply'[d] = Head(Chan_(d).resp) /\ ~failed'[d]
  BY <1>1, <1>2 DEF TypeOK
<1>4. ASSUME NEW e \in Daemons, e # d  PROVE SameCall(e)
  BY <1>1, <1>2, <1>4 DEF SameCall, TypeOK
<1>5. /\ conn[d] \in DOMAIN chans /\ DOMAIN chans' = DOMAIN chans
      /\ \A k \in DOMAIN chans : k # conn[d] => chans'[k] = chans[k]
      /\ Head(Chan_(d).resp) = Chan_(d).resp[1]
      /\ chans'[conn[d]].client /\ chans'[conn[d]].server = chans[conn[d]].server
      /\ Quiet(conn[d])' /\ NoneSent
      /\ \A k \in DOMAIN chans' : k = conn[d] \/ k \notin DOMAIN chans => OneRequest(k)'
      /\ answer # Nothing => chans'[serving].server
  BY <1>1, ResponseArrives
<1>6. ClientFrame(d)
  BY <1>1, <1>4, <1>5 DEF ClientFrame
<1>7. conn[d] # 0 /\ Waiting(d)
  BY <1>1, <1>2 DEF Connected
<1>8. Answers(Chan_(d).resp[1], d)
  BY <1>1, <1>7 DEF Waiting, Chan_
<1>9. Calling(d)'
  <2>1. Answers(Chan_(d).resp[1], d) => \A r : r = Chan_(d).resp[1] => Answers(r, d)'
    BY <1>1 DEF Answers, Synced
  <2>2. reply'[d] # Nothing
    BY <1>3, <1>5, <1>8 DEF Answers, Nothing
  <2> QED
    BY <1>1, <1>2, <1>3, <1>5, <1>8, <2>1, <2>2 DEF Calling
<1>10. Connected(d)'
  <2>1. chans'[conn[d]].resp = <<>> /\ Len(chans'[conn[d]].resp) <= 1
    BY <1>1, <1>5, EmptySeq DEF Quiet
  <2> QED
    BY <1>1, <1>3, <1>5, <1>7, <2>1 DEF Connected, Waiting, Quiet
<1>11. \A b \in Calls : (Fresh(b)' => Fresh(b)) /\ (result'[b] = "OKE" => b \in Synced)
  BY <1>1 DEF Fresh, IInv, CountInv
<1>12. Attempts(d)' = Attempts(d) /\ Attempts(d) \in Int /\ ~Unsent(d)'
  <2>1. tries[d] \in 0 .. CancelAfter
    BY <1>2 DEF TypeOK
  <2> QED
    BY <2>1, <1>1, <1>3, LetDXAssumption DEF Attempts, Unsent
<1> QED
  BY <1>1, <1>5, <1>6, <1>9, <1>10, <1>11, <1>12, OwnStep

\* The request that is sent is the first of the attempt.
LEMMA SendInv ==
    ASSUME IInv, TypeOK', NEW d \in Daemons, SendRequest(d)
    PROVE  IInv'
<1>1. PICK m : /\ m = [kind |-> IF Writes(d) THEN "wal" ELSE "get", call |-> holder[d],
                       id |-> IF Writes(d) THEN counter[d] ELSE 0]
               /\ chans' = IF Chan_(d).server
                           THEN [chans EXCEPT ![conn[d]].req = Append(@, m)] ELSE chans
  BY DEF SendRequest
<1>2. /\ step[d] = "send" /\ step' = [step EXCEPT ![d] = "receive"]
      /\ UNCHANGED <<context, result, holder, tries, failed, reply, conn, counter, backlog, faults>>
      /\ UNCHANGED <<up, serving, answer, log, synced>>
  BY DEF SendRequest, At, Goto, handlers, server
<1>3. TypeOK /\ Calling(d) /\ Connected(d) /\ tries[d] \in 0 .. CancelAfter
  BY DEF IInv, CallInv, ConnInv, TypeOK
<1>k. PICK k : k = conn[d]
  OBVIOUS
<1>4. /\ k \in 1 .. Len(chans) /\ DOMAIN chans = 1 .. Len(chans) /\ Waiting(d)
      /\ conn[d] # 0 /\ holder[d] \in Calls /\ chans[k].req \in Seq(Msg) /\ chans[k] \in Chan
  BY <1>k, <1>2, <1>3, Holds, LenProperties, ChanType DEF TypeOK, Connected
<1>5. Quiet(k) /\ chans[k].client
  BY <1>k, <1>2, <1>4 DEF Waiting
<1>6. m \in Msg
  BY <1>1, <1>3, <1>4 DEF Msg, TypeOK
<1>7. /\ DOMAIN chans' = DOMAIN chans /\ \A j \in DOMAIN chans : j # k => chans'[j] = chans[j]
      /\ chans'[k].resp = <<>> /\ chans'[k].client /\ chans'[k].server = chans[k].server
      /\ IF chans[k].server THEN chans'[k].req # <<>> ELSE chans'[k].req = <<>>
      /\ chans'[k].req # <<>> => Len(chans'[k].req) = 1 /\ chans'[k].req[1] = m
  <2>1. CASE ~chans[k].server
    <3>1. chans' = chans
      BY <1>1, <2>1, <1>k DEF Chan_
    <3> QED
      BY <3>1, <2>1, <1>5 DEF Quiet
  <2>2. CASE chans[k].server
    <3>1. chans' = [chans EXCEPT ![k].req = Append(@, m)]
      BY <1>1, <2>2, <1>k DEF Chan_
    <3>2. Becomes(k, [chans[k] EXCEPT !.req = Append(@, m)])
      BY <1>3, <1>4, <1>6, <3>1, RequestSent
    <3>3. DOMAIN chans' = DOMAIN chans
      BY <3>2, <1>4, LenProperties DEF Becomes
    <3>4. /\ chans'[k].req = Append(chans[k].req, m) /\ chans'[k].resp = chans[k].resp
          /\ chans'[k].client = chans[k].client /\ chans'[k].server = chans[k].server
      BY <3>2, <1>4 DEF Becomes, Chan
    <3>5. Append(chans[k].req, m) = <<m>>
      BY <1>5 DEF Quiet
    <3>6. Len(<<m>>) = 1 /\ <<m>>[1] = m /\ <<m>> # <<>>
      OBVIOUS
    <3> QED
      BY <2>2, <3>2, <3>3, <3>4, <3>5, <3>6, <1>5 DEF Becomes, Quiet
  <2> QED
    BY <2>1, <2>2
<1>8. step'[d] = "receive"
  BY <1>2, <1>3 DEF TypeOK
<1>9. ASSUME NEW e \in Daemons, e # d  PROVE SameCall(e)
  BY <1>2, <1>3, <1>9 DEF SameCall, TypeOK
<1>10. ClientFrame(d)
  BY <1>2, <1>7, <1>9, <1>k DEF ClientFrame
<1>11. Calling(d)'
  BY <1>2, <1>3, <1>8 DEF Calling
<1>12. ~Answering(k)'
  BY <1>2, <1>5 DEF Quiet, Answering
<1>13. m.call = holder[d] /\ m.kind \in {"get", "wal"} /\ (m.kind = "wal" => m.id = counter[d])
  BY <1>1
<1>18. chans[k].server => counter[d] <= Len(log)
  BY <1>2, <1>4, <1>k DEF Waiting
<1>14. OneRequest(k)'
  BY <1>2, <1>4, <1>7, <1>12, <1>13, <1>18 DEF OneRequest
<1>15. Connected(d)'
  <2>1. Len(chans'[k].resp) <= 1
    BY <1>7, EmptySeq
  <2> QED
    BY <2>1, <1>2, <1>4, <1>7, <1>8, <1>12, <1>13, <1>18, <1>k DEF Connected, Waiting
<1>16. answer # Nothing => chans'[serving].server
  <2>1. answer # Nothing => serving \in 1 .. Len(chans) /\ chans[serving].server
    BY <1>3 DEF IInv, ChanInv, TypeOK
  <2> QED
    BY <2>1, <1>4, <1>7
<1>17. \A b \in Calls : (Fresh(b)' => Fresh(b)) /\ (result'[b] = "OKE" => b \in Synced)
  BY <1>2 DEF Fresh, IInv, CountInv
<1>19. CallInv' /\ ChanInv' /\ ConnInv' /\ CountInv'
  BY <1>2, <1>7, <1>10, <1>11, <1>14, <1>15, <1>16, <1>17, <1>k, ClientKeeps
<1>20. Sent \in [Calls -> Nat] /\ (Sent \in [Calls -> Nat])'
  BY <1>3, SentType, PTL
<1>21. Sent'[holder[d]] <= Sent[holder[d]] + 1
  BY <1>2, <1>3, <1>4, <1>7, SentMore
<1>22. ASSUME NEW c \in Calls, c # holder[d] \/ ~chans[k].server  PROVE Sent'[c] <= Sent[c]
  <2>1. NoNewRequest(c)
    BY <1>7, <1>13, <1>22 DEF NoNewRequest
  <2> QED
    BY <2>1, <1>2, <1>3, SentKept
<1>23. SentInv'
  <2>1. Attempts(d)' = tries[d] /\ Attempts(d) = tries[d] - 1
    BY <1>2, <1>8 DEF Attempts
  <2>2. Sent[holder[d]] <= Attempts(d)
    BY <1>4 DEF IInv, SentInv
  <2>3. Sent'[holder[d]] <= tries[d] /\ Sent'[holder[d]] <= CancelAfter
    <3>1. /\ Sent[holder[d]] \in Nat /\ Sent'[holder[d]] \in Nat
          /\ tries[d] \in Nat /\ CancelAfter \in Nat /\ tries[d] <= CancelAfter
      BY <1>3, <1>4, <1>20, LetDXAssumption
    <3> QED
      BY <3>1, <2>1, <2>2, <1>21
  <2>4. ASSUME NEW c \in Calls
        PROVE  Sent'[c] <= CancelAfter /\ (Fresh(c)' => Sent'[c] = 0)
    <3>1. CASE c = holder[d]
      <4>1. ~Fresh(c)'
        BY <3>1, <1>2, <1>3, <1>4, LetDXAssumption DEF Fresh, Calling
      <4> QED
        BY <3>1, <4>1, <2>3
    <3>2. CASE c # holder[d]
      <4>1. Sent[c] <= CancelAfter /\ (Fresh(c) => Sent[c] = 0)
        BY DEF IInv, SentInv
      <4>2. Sent[c] \in Nat /\ Sent'[c] \in Nat /\ Sent'[c] <= Sent[c] /\ CancelAfter \in Nat
        BY <3>2, <1>20, <1>22, LetDXAssumption
      <4> QED
        BY <4>1, <4>2, <1>17
    <3> QED
      BY <3>1, <3>2
  <2>5. ASSUME NEW c \in Calls, NEW e \in Daemons, holder'[e] = c  PROVE Sent'[c] <= Attempts(e)'
    <3>1. CASE e = d
      BY <3>1, <2>1, <2>3, <2>5, <1>2
    <3>2. CASE e # d
      <4>1. c # holder[d] /\ holder[e] = c
        BY <3>2, <2>5, <1>2, CallsDiffer, LetDXAssumption
      <4>2. Attempts(e)' = Attempts(e) /\ Sent[c] <= Attempts(e) /\ Attempts(e) \in Int
        <5>1. tries[e] \in 0 .. CancelAfter
          BY <1>3 DEF TypeOK
        <5>2. Attempts(e)' = Attempts(e) /\ Attempts(e) \in Int
          BY <5>1, <3>2, <1>9, LetDXAssumption DEF SameCall, Attempts
        <5>3. Sent[c] <= Attempts(e)
          BY <4>1 DEF IInv, SentInv
        <5> QED
          BY <5>2, <5>3
      <4>3. Sent[c] \in Nat /\ Sent'[c] \in Nat /\ Sent'[c] <= Sent[c]
        BY <4>1, <1>20, <1>22
      <4> QED
        BY <4>2, <4>3
    <3> QED
      BY <3>1, <3>2
  <2> QED
    BY <2>4, <2>5 DEF SentInv
<1>24. FaultFree'
  <2> SUFFICES ASSUME faults = 0
               PROVE  /\ \A c \in Calls : Sent'[c] <= 1
                      /\ \A e \in Daemons : Unsent(e)' => Sent'[holder'[e]] = 0
    BY <1>2 DEF FaultFree
  <2>1. Sent[holder[d]] = 0
    BY <1>2 DEF IInv, FaultFree, Unsent
  <2>2. ASSUME NEW c \in Calls  PROVE Sent'[c] <= 1
    <3>1. Sent[c] \in Nat /\ Sent'[c] \in Nat /\ Sent[c] <= 1
      BY <1>20 DEF IInv, FaultFree
    <3>2. c # holder[d] => Sent'[c] <= Sent[c]
      BY <1>22
    <3> QED
      BY <3>1, <3>2, <2>1, <1>21
  <2>3. ASSUME NEW e \in Daemons, Unsent(e)'  PROVE Sent'[holder'[e]] = 0
    <3>1. CASE e = d
      <4>1. Quiet(k)'
        BY <3>1, <2>3, <1>2, <1>8, <1>k DEF Unsent
      <4>2. ~chans[k].server
        BY <4>1, <1>7 DEF Quiet
      <4>3. Sent'[holder[d]] <= Sent[holder[d]] /\ Sent'[holder[d]] \in Nat
        BY <4>2, <1>4, <1>20, <1>22
      <4> QED
        BY <4>3, <3>1, <2>1, <1>2
    <3>2. CASE e # d
      <4>1. step'[e] = step[e] /\ conn'[e] = conn[e] /\ holder'[e] = holder[e]
        BY <3>2, <1>9 DEF SameCall
      <4>2. holder[e] \in Calls /\ holder[e] # holder[d]
        <5>1. holder[e] # NoCall
          BY <2>3, <4>1, <1>3 DEF Unsent, TypeOK
        <5> QED
          BY <5>1, <3>2, CallsDiffer
      <4>3. Unsent(e)
        <5>1. CASE step[e] = "receive"
          <6>1. conn[e] \in DOMAIN chans /\ conn[e] # conn[d]
            <7>1. conn[e] \in 1 .. Len(chans) /\ conn[e] # 0
              BY <5>1, Holds
            <7> QED
              BY <7>1, <3>2, <1>4 DEF IInv, ConnInv
          <6> QED
            BY <6>1, <5>1, <4>1, <2>3, <1>2, <1>7, <1>k DEF Unsent, Quiet, Answering
        <5>2. CASE step[e] # "receive"
          BY <5>2, <4>1, <2>3 DEF Unsent
        <5> QED
          BY <5>1, <5>2
      <4>4. Sent[holder[e]] = 0
        BY <4>3 DEF IInv, FaultFree
      <4>5. Sent'[holder[e]] <= Sent[holder[e]] /\ Sent'[holder[e]] \in Nat
        BY <4>2, <1>20, <1>22
      <4> QED
        BY <4>1, <4>4, <4>5
    <3> QED
      BY <3>1, <3>2
  <2> QED
    BY <2>2, <2>3
<1> QED
  BY <1>19, <1>23, <1>24 DEF IInv

-----------------------------------------------------------------------------
(* The steps of the server and of the environment.                         *)

\* What is left to show of a step that no client takes.
LEMMA ServerKeeps ==
    ASSUME IInv, TypeOK', LogGrows, UNCHANGED <<result, client>>,
           \A c \in Calls : context[c] = "done" => context'[c] = "done",
           DOMAIN chans' = DOMAIN chans,
           \A k \in DOMAIN chans : OneRequest(k)',
           answer' # Nothing => serving' # 0 /\ chans'[serving'].server,
           \A d \in Daemons : conn[d] # 0 => Stays(conn[d]) \/ Waiting(d)',
           \A c \in Calls : Sent'[c] <= Sent[c],
           faults' = 0 => faults = 0,
           faults' = 0 => \A d \in Daemons :
               step[d] = "receive" /\ Quiet(conn[d])' => Quiet(conn[d])
    PROVE  IInv'
<1> USE DEF IInv
<1>1. /\ holder' = holder /\ step' = step /\ tries' = tries /\ failed' = failed
      /\ reply' = reply /\ conn' = conn /\ counter' = counter /\ result' = result
  BY DEF client
<1>2. ASSUME NEW d \in Daemons  PROVE SameCall(d)
  <2>1. holder[d] # NoCall => holder[d] \in Calls
    BY DEF TypeOK
  <2> QED
    BY <1>1, <2>1 DEF SameCall
<1>3. CallInv'
  BY <1>2, CallingKept DEF CallInv
<1>4. ChanInv'
  BY DEF ChanInv
<1>5. ConnInv'
  <2>1. ASSUME NEW d \in Daemons  PROVE Connected(d)'
    <3>1. CASE conn[d] # 0 => Stays(conn[d])
      BY <3>1, <1>2, ConnectedKept
    <3>2. CASE Waiting(d)'
      BY <3>2, <1>1 DEF Connected, ConnInv
    <3> QED
      BY <3>1, <3>2
  <2> QED
    BY <2>1, <1>1 DEF ConnInv
<1>6. CountInv'
  BY <1>1 DEF CountInv, LogGrows
<1>7. (Sent \in [Calls -> Nat])'
  BY SentType, PTL
<1>8. SentInv'
  <2>1. \A c \in Calls : Fresh(c)' => Fresh(c)
    BY <1>1 DEF Fresh
  <2>2. ASSUME NEW d \in Daemons  PROVE Attempts(d) <= Attempts(d)'
    <3>1. Attempts(d)' = Attempts(d)
      BY <1>1 DEF Attempts
    <3>2. Attempts(d) \in Int
      <4>1. tries[d] \in Nat
        BY LetDXAssumption DEF TypeOK
      <4> QED
        BY <4>1 DEF Attempts
    <3> QED
      BY <3>1, <3>2
  <2> QED
    BY <1>1, <1>3, <1>7, <2>1, <2>2, SentInvKept
<1>9. FaultFree'
  <2>1. CASE faults' = 0
    <3>1. ASSUME NEW d \in Daemons, Unsent(d)'  PROVE Unsent(d)
      BY <2>1, <3>1, <1>1 DEF Unsent
    <3> QED
      BY <2>1, <3>1, <1>1, <1>7, FaultFreeKept
  <2>2. CASE faults' # 0
    BY <2>2 DEF FaultFree
  <2> QED
    BY <2>1, <2>2
<1> QED
  BY <1>3, <1>4, <1>5, <1>6, <1>8, <1>9

LEMMA LogStays ==
    TypeOK /\ log' = log /\ synced' = synced => LogGrows /\ Len(log) <= Len(log')
BY LenProperties DEF LogGrows, Synced, TypeOK

LEMMA AcceptInv ==
    ASSUME IInv, TypeOK', Accept \/ ServerStart \/ \E c \in Calls : ContextEnds(c)
    PROVE  IInv'
<1> USE DEF IInv, handlers, server
<1>1. /\ UNCHANGED <<result, client, chans, answer, log, synced, faults>>
      /\ serving' = serving \/ answer = Nothing
      /\ \A c \in Calls : context[c] = "done" => context'[c] = "done"
  BY DEF Accept, ServerStart, ContextEnds, ChanInv, TypeOK
<1>2. \A k : Answering(k)' <=> Answering(k)
  BY <1>1 DEF Answering
<1>3. \A k \in DOMAIN chans : OneRequest(k)' /\ Stays(k)
  BY <1>1, <1>2, LogStays DEF ChanInv, OneRequest, Stays, Answering
<1>4. \A d \in Daemons : conn[d] # 0 => Stays(conn[d])
  BY <1>3, LenProperties DEF TypeOK
<1>5. \A d \in Daemons : Quiet(conn[d])' => Quiet(conn[d])
  BY <1>1, <1>2 DEF Quiet, client
<1>6. answer' # Nothing => serving' # 0 /\ chans'[serving'].server
  BY <1>1 DEF ChanInv
<1>7. \A c \in Calls : Sent'[c] <= Sent[c]
  BY <1>1, SentNotMore DEF NoneSent
<1> QED
  BY <1>1, <1>3, <1>4, <1>5, <1>6, <1>7, ServerKeeps, LogStays

\* The server gives up connections: what waits on them to be read is lost, and an
\* answer only if that is a fault.
LEMMA ClosedKeeps ==
    ASSUME IInv, TypeOK', UNCHANGED <<handlers, client>>, LogGrows,
           \A c \in Calls : Sent'[c] <= Sent[c],
           DOMAIN chans' = DOMAIN chans,
           \A k \in DOMAIN chans :
               \/ chans'[k] = chans[k] /\ Len(log) <= Len(log')
               \/ /\ chans'[k].req = <<>> /\ chans'[k].resp = chans[k].resp
                  /\ chans'[k].client = chans[k].client /\ ~chans'[k].server,
           answer' = Nothing,
           faults' = 0 => faults = 0,
           faults' = 0 => answer = Nothing /\ \A k \in DOMAIN chans : chans'[k].req = chans[k].req
    PROVE  IInv'
<1> USE DEF IInv, handlers
<1>1. \A k : ~Answering(k)'
  BY DEF Answering
<1>2. \A k \in DOMAIN chans : Stays(k) /\ OneRequest(k)'
  <2> SUFFICES ASSUME NEW k \in DOMAIN chans  PROVE Stays(k) /\ OneRequest(k)'
    OBVIOUS
  <2>1. Stays(k)
    BY <1>1 DEF Stays, Answering
  <2> QED
    BY <2>1, OneRequestKept
<1>3. \A d \in Daemons : conn[d] # 0 => Stays(conn[d])
  BY <1>2, LenProperties DEF TypeOK
<1>4. faults' = 0 => \A d \in Daemons :
        step[d] = "receive" /\ Quiet(conn[d])' => Quiet(conn[d])
  <2> SUFFICES ASSUME faults' = 0, NEW d \in Daemons, step[d] = "receive", Quiet(conn[d])'
               PROVE  Quiet(conn[d])
    OBVIOUS
  <2>1. conn[d] \in DOMAIN chans /\ conn'[d] = conn[d]
    BY Holds, LenProperties DEF TypeOK, client
  <2>2. chans'[conn[d]].req = chans[conn[d]].req /\ chans'[conn[d]].resp = chans[conn[d]].resp
    BY <2>1
  <2> QED
    BY <2>1, <2>2 DEF Quiet, Answering
<1> QED
  BY <1>2, <1>3, <1>4, ServerKeeps

LEMMA CloseInv ==
    ASSUME IInv, TypeOK', ReadEnd \/ IdleTimeout \/ DropConnection
    PROVE  IInv'
<1>1. /\ serving # 0 /\ CloseServing /\ UNCHANGED <<handlers, client, log, synced>>
      /\ answer' = Nothing
      /\ \/ faults' = faults /\ answer = Nothing /\ chans[serving].req = <<>>
         \/ faults' = faults + 1
  BY DEF ReadEnd, IdleTimeout, DropConnection
<1>2. TypeOK /\ Len(chans) \in Nat /\ DOMAIN chans = 1 .. Len(chans) /\ faults \in Nat
  <2>1. TypeOK /\ faults \in 0 .. MaxFaults /\ MaxFaults \in Nat
    BY LetDXAssumption DEF IInv, TypeOK
  <2> QED
    BY <2>1, LenProperties DEF TypeOK
<1>k. PICK k : k = serving
  OBVIOUS
<1>3. /\ k \in DOMAIN chans /\ DOMAIN chans' = DOMAIN chans
      /\ \A j \in DOMAIN chans : j # k => chans'[j] = chans[j]
      /\ chans'[k] = [chans[k] EXCEPT !.server = FALSE, !.req = <<>>] /\ chans[k] \in Chan
  BY <1>k, <1>1, <1>2, CloseServingType, LenProperties, ChanType DEF Becomes
<1>4. /\ chans'[k].req = <<>> /\ chans'[k].resp = chans[k].resp
      /\ chans'[k].client = chans[k].client /\ ~chans'[k].server
  BY <1>3 DEF Chan
<1>6. \A c \in Calls : Sent'[c] <= Sent[c]
  BY <1>1, <1>2, <1>3, <1>4, SentNotMore DEF NoneSent
<1>7. LogGrows /\ Len(log) <= Len(log')
  BY <1>1, <1>2, LogStays
<1>5. /\ faults' = 0 => faults = 0
      /\ faults' = 0 => answer = Nothing /\ \A j \in DOMAIN chans : chans'[j].req = chans[j].req
  <2>1. chans[k].req = <<>> => \A j \in DOMAIN chans : chans'[j].req = chans[j].req
    BY <1>3, <1>4
  <2>2. faults' = 0 => faults = 0 /\ faults' = faults
    BY <1>1, <1>2
  <2>3. faults' # faults + 1 \/ faults' # faults
    BY <1>2
  <2> QED
    BY <1>1, <1>2, <1>k, <2>1, <2>2, <2>3
<1> QED
  BY <1>1, <1>3, <1>4, <1>5, <1>6, <1>7, ClosedKeeps

\* The server is gone, and with it what waited to be read.
LEMMA DiesKeeps ==
    ASSUME IInv, TypeOK', ServerDies, LogGrows, \A c \in Calls : Sent'[c] <= Sent[c]
    PROVE  IInv'
<1>1. /\ UNCHANGED <<handlers, client>> /\ answer' = Nothing /\ faults' = faults + 1
      /\ chans' = [k \in DOMAIN chans |-> [chans[k] EXCEPT !.server = FALSE, !.req = <<>>]]
  BY DEF ServerDies
<1>2. TypeOK /\ Len(chans) \in Nat /\ DOMAIN chans = 1 .. Len(chans) /\ faults \in Nat
  <2>1. TypeOK /\ faults \in 0 .. MaxFaults /\ MaxFaults \in Nat
    BY LetDXAssumption DEF IInv, TypeOK
  <2> QED
    BY <2>1, LenProperties DEF TypeOK
<1>3. DOMAIN chans' = DOMAIN chans /\ faults' # 0
  <2>1. DOMAIN chans' = DOMAIN chans
    BY <1>1
  <2>2. faults' = faults + 1
    BY <1>1
  <2> QED
    BY <1>2, <2>1, <2>2
<1>4. ASSUME NEW k \in DOMAIN chans
      PROVE  /\ chans'[k].req = <<>> /\ chans'[k].resp = chans[k].resp
             /\ chans'[k].client = chans[k].client /\ ~chans'[k].server
  <2>1. chans[k] \in Chan /\ chans'[k] = [chans[k] EXCEPT !.server = FALSE, !.req = <<>>]
    BY <1>1, <1>2, ChanType
  <2> QED
    BY <2>1 DEF Chan
<1> QED
  BY <1>1, <1>3, <1>4, ClosedKeeps

LEMMA NoRequestLeft ==
    ASSUME TypeOK, ServerDies
    PROVE  /\ NoneSent /\ DOMAIN chans' = 1 .. Len(chans) /\ DOMAIN chans = 1 .. Len(chans)
           /\ \A k \in DOMAIN chans : chans'[k].req = <<>>
<1>1. \A k \in 1 .. Len(chans) :
        chans'[k] = [chans[k] EXCEPT !.server = FALSE, !.req = <<>>] /\ chans[k] \in Chan
  BY CrashType, ChanType DEF ServerDies
<1>2. DOMAIN chans' = 1 .. Len(chans) /\ DOMAIN chans = 1 .. Len(chans)
  BY LenProperties DEF ServerDies, TypeOK
<1>3. ASSUME NEW k \in DOMAIN chans  PROVE chans'[k].req = <<>>
  <2>1. chans'[k] = [chans[k] EXCEPT !.server = FALSE, !.req = <<>>] /\ chans[k] \in Chan
    BY <1>1, <1>2
  <2> QED
    BY <2>1 DEF Chan
<1> QED
  BY <1>2, <1>3 DEF NoneSent

LEMMA CrashInv ==
    ASSUME IInv, TypeOK', ServerCrash
    PROVE  IInv'
<1>1. TypeOK /\ ServerDies /\ log' = log /\ synced' = synced
  BY DEF ServerCrash, IInv
<1>2. \A c \in Calls : Sent'[c] <= Sent[c]
  BY <1>1, NoRequestLeft, SentNotMore
<1> QED
  BY <1>1, <1>2, LogStays, DiesKeeps

\* The entry that is written is at the end, and no power loss has to keep it.
LEMMA CrashBeforeSyncInv ==
    ASSUME IInv, TypeOK', CrashBeforeSync
    PROVE  IInv'
<1> USE DEF IInv
<1>k. PICK k : k = serving
  OBVIOUS
<1>1. /\ k # 0 /\ chans[k].req # <<>> /\ ServerDies /\ synced' = synced
      /\ Head(chans[k].req).kind = "wal" /\ log' = Append(log, Head(chans[k].req).call)
  BY <1>k DEF CrashBeforeSync
<1>2. /\ k \in 1 .. Len(chans) /\ k \in DOMAIN chans /\ chans[k].req \in Seq(Msg)
      /\ Len(log) \in Nat /\ synced \in 0 .. Len(log)
  BY <1>k, <1>1, LenProperties, ChanType DEF TypeOK
<1>3. PICK b : b = chans[k].req[1].call
  OBVIOUS
<1>4. b \in Calls /\ log' = Append(log, b)
  <2>1. Head(chans[k].req) = chans[k].req[1]
    BY <1>1, <1>2, HeadTailProperties
  <2> QED
    BY <2>1, <1>1, <1>2, <1>3 DEF ChanInv, OneRequest
<1>5. LogGrows
  <2>1. \A i \in 1 .. Len(log) : log'[i] = log[i]
    BY <1>4, AppendProperties DEF TypeOK
  <2>2. \A i \in 1 .. synced : i \in 1 .. Len(log)
    BY <1>2
  <2> QED
    BY <1>1, <1>2, <2>1, <2>2 DEF LogGrows, Synced
<1>6. ASSUME NEW c \in Calls  PROVE Sent'[c] <= Sent[c]
  <2>1. NoNewRequest(c)
    BY <1>1, NoRequestLeft DEF NoNewRequest
  <2>2. b = c => k \in Pending(c) /\ k \notin Pending(c)'
    BY <1>1, <1>2, <1>3, NoRequestLeft DEF Pending
  <2> QED
    BY <1>4, <2>1, <2>2, SentCommitted
<1> QED
  BY <1>1, <1>5, <1>6, DiesKeeps

LEMMA FewerSent ==
    ASSUME TypeOK, TypeOK', NEW n \in 0 .. Len(log), log' = SubSeq(log, 1, n), NoneSent,
           NEW c \in Calls
    PROVE  Sent'[c] <= Sent[c]
<1> DEFINE E == {i \in DOMAIN log : log[i] = c}
           F == {i \in DOMAIN log' : log'[i] = c}
<1>1. /\ Len(log) \in Nat /\ DOMAIN log = 1 .. Len(log) /\ DOMAIN log' = 1 .. n
      /\ \A i \in 1 .. n : log'[i] = log[i]
  BY LenProperties, SubSeqProperties DEF TypeOK
<1>2. F \subseteq E
  BY <1>1
<1>3. IsFiniteSet(E) /\ Cardinality(E) \in Nat
  BY Finite, FS_CardinalityType
<1>4. Sent'[c] = Cardinality(F) + Cardinality(Pending(c)')
  BY DEF Sent, Copies
<1>5. Sent[c] = Cardinality(E) + Cardinality(Pending(c))
  BY DEF Sent, Copies
<1>6. NoNewRequest(c)
  BY LetDXAssumption DEF NoneSent, NoNewRequest
<1>7. /\ Cardinality(Pending(c)) \in Nat /\ Cardinality(Pending(c)') \in Nat
      /\ Cardinality(Pending(c)') <= Cardinality(Pending(c))
  BY <1>6, Finite, PendingKept, FS_CardinalityType
<1> HIDE DEF E, F
<1>8. Cardinality(F) \in Nat /\ Cardinality(F) <= Cardinality(E)
  BY <1>2, <1>3, FS_Subset, FS_CardinalityType
<1> QED
  BY <1>3, <1>4, <1>5, <1>7, <1>8

\* What was synced is left.
LEMMA PowerLossInv ==
    ASSUME IInv, TypeOK', PowerLoss
    PROVE  IInv'
<1> USE DEF IInv
<1>1. PICK n \in synced .. Len(log) : log' = SubSeq(log, 1, n) /\ synced' = n
  BY DEF PowerLoss
<1>2. ServerDies /\ Len(log) \in Nat /\ synced \in 0 .. Len(log)
  BY LenProperties DEF PowerLoss, TypeOK
<1>3. n \in 0 .. Len(log) /\ synced <= n /\ synced' = n
  BY <1>1, <1>2
<1>4. LogGrows
  <2>1. \A i \in 1 .. n : log'[i] = log[i]
    BY <1>1, <1>2, <1>3, SubSeqProperties DEF TypeOK
  <2>2. \A i \in 1 .. synced : i \in 1 .. n
    BY <1>2, <1>3
  <2> QED
    BY <1>3, <2>1, <2>2 DEF LogGrows, Synced
<1>5. \A c \in Calls : Sent'[c] <= Sent[c]
  BY <1>1, <1>2, <1>3, NoRequestLeft, FewerSent
<1> QED
  BY <1>2, <1>4, <1>5, DiesKeeps

LEMMA CollectInv ==
    ASSUME IInv, TypeOK', NEW k \in DOMAIN chans, CollectLeaked(k)
    PROVE  IInv'
<1> USE DEF IInv, handlers, server
<1>1. /\ UNCHANGED <<context, result, client, serving, answer, log, synced, faults>>
      /\ \A d \in Daemons : conn[d] # k
  BY DEF CollectLeaked
<1>2. TypeOK /\ Len(chans) \in Nat /\ DOMAIN chans = 1 .. Len(chans)
  BY LenProperties DEF TypeOK
<1>3. /\ DOMAIN chans' = DOMAIN chans
      /\ \A j \in DOMAIN chans : j # k => chans'[j] = chans[j]
      /\ chans'[k] = [chans[k] EXCEPT !.client = FALSE] /\ chans[k] \in Chan
  BY <1>2, CollectType, LenProperties, ChanType DEF Becomes
<1>4. chans'[k].req = chans[k].req /\ chans'[k].server = chans[k].server
  BY <1>3 DEF Chan
<1>5. \A j \in DOMAIN chans : OneRequest(j)'
  <2>1. \A j \in DOMAIN chans : chans'[j].req = chans[j].req /\ chans'[j].server = chans[j].server
    BY <1>3, <1>4
  <2> QED
    BY <2>1, <1>1 DEF ChanInv, OneRequest, Answering
<1>6. ASSUME NEW d \in Daemons, conn[d] # 0
      PROVE  conn[d] \in DOMAIN chans /\ chans'[conn[d]] = chans[conn[d]]
  BY <1>1, <1>2, <1>3, <1>6 DEF TypeOK
<1>7. \A d \in Daemons : conn[d] # 0 => Stays(conn[d])
  BY <1>1, <1>2, <1>6, LogStays DEF Stays, Answering
<1>8. \A d \in Daemons : step[d] = "receive" /\ Quiet(conn[d])' => Quiet(conn[d])
  BY <1>1, <1>6 DEF Quiet, Answering, client, ConnInv, Connected
<1>9. answer' # Nothing => serving' # 0 /\ chans'[serving'].server
  <2>1. answer # Nothing => serving \in DOMAIN chans /\ chans[serving].server
    BY <1>2 DEF ChanInv, TypeOK
  <2> QED
    BY <2>1, <1>1, <1>3, <1>4 DEF ChanInv
<1>10. \A c \in Calls : Sent'[c] <= Sent[c]
  BY <1>1, <1>3, <1>4, SentNotMore DEF NoneSent
<1> QED
  BY <1>1, <1>3, <1>5, <1>7, <1>8, <1>9, <1>10, ServerKeeps, LogStays

LEMMA RespondInv ==
    ASSUME IInv, TypeOK', Respond
    PROVE  IInv'
<1> USE DEF IInv, handlers
<1>1. /\ serving # 0 /\ answer # Nothing /\ answer' = Nothing
      /\ chans' = IF chans[serving].client
                  THEN [chans EXCEPT ![serving].resp = Append(@, answer)] ELSE chans
      /\ UNCHANGED <<context, result, client, serving, log, synced, faults>>
  BY DEF Respond
<1>2. TypeOK /\ Len(chans) \in Nat /\ DOMAIN chans = 1 .. Len(chans)
  BY LenProperties DEF TypeOK
<1>k. PICK k : k = serving
  OBVIOUS
<1>3. k \in 1 .. Len(chans) /\ answer \in Reply /\ chans[k] \in Chan /\ Answering(k)
  BY <1>k, <1>1, <1>2, ChanType DEF TypeOK, Answering
<1>4. chans[k].req = <<>>
  BY <1>2, <1>3 DEF ChanInv, OneRequest
<1>5. /\ DOMAIN chans' = DOMAIN chans
      /\ \A j \in DOMAIN chans : j # k => chans'[j] = chans[j]
      /\ chans'[k].req = chans[k].req /\ chans'[k].client = chans[k].client
      /\ chans'[k].server = chans[k].server
      /\ chans[k].client => chans'[k].resp = Append(chans[k].resp, answer)
  <2>1. CASE chans[k].client
    <3>1. chans' = [chans EXCEPT ![k].resp = Append(@, answer)]
      BY <2>1, <1>1, <1>k
    <3>2. Becomes(k, [chans[k] EXCEPT !.resp = Append(@, answer)])
      BY <3>1, <1>2, <1>3, ResponseSent
    <3>3. DOMAIN chans' = DOMAIN chans
      BY <3>2, <1>2, LenProperties DEF Becomes
    <3> QED
      BY <3>2, <3>3, <1>3 DEF Becomes, Chan
  <2>2. CASE ~chans[k].client
    <3>1. chans' = chans
      BY <2>2, <1>1, <1>k
    <3> QED
      BY <2>2, <3>1
  <2> QED
    BY <2>1, <2>2
<1>6. \A j \in DOMAIN chans : OneRequest(j)'
  <2>1. ASSUME NEW j \in DOMAIN chans, j # k  PROVE OneRequest(j)'
    BY <2>1, <1>1, <1>5 DEF ChanInv, OneRequest, Answering
  <2>2. OneRequest(k)'
    BY <1>4, <1>5 DEF OneRequest
  <2> QED
    BY <2>1, <2>2
<1>7. ASSUME NEW d \in Daemons, conn[d] = k
      PROVE  /\ step[d] \in {"handshake", "receive"} /\ chans'[k].resp = <<answer>>
             /\ Waiting(d)'
  <2>1. Waiting(d) /\ conn'[d] = k /\ step'[d] = step[d]
    BY <1>1, <1>2, <1>3, <1>7 DEF ConnInv, Connected, client
  <2>2. chans[k].resp = <<>> /\ chans[k].client /\ step[d] \in {"handshake", "receive"}
    BY <1>3, <1>7, <2>1 DEF Waiting, Quiet
  <2>3. chans'[k].resp = <<answer>>
    BY <2>2, <1>5
  <2>4. Len(<<answer>>) <= 1 /\ <<answer>>[1] = answer
    OBVIOUS
  <2>5. step[d] = "handshake" => Greets(answer)
    BY <1>3, <1>7, <2>1 DEF Waiting
  <2>6. step[d] = "receive" => Answers(answer, d)
    BY <1>3, <1>7, <2>1 DEF Waiting
  <2>7. \A r : (Greets(r) => Greets(r)') /\ (Answers(r, d) => Answers(r, d)')
    BY <1>1 DEF Greets, Answers, Synced, client
  <2>8. ~Answering(k)' /\ chans'[k].req = <<>> /\ chans'[k].client
    BY <1>1, <1>4, <1>5, <2>2 DEF Answering
  <2>9. /\ step'[d] = "handshake" => Greets(chans[k].resp[1])'
        /\ step'[d] = "receive" => Answers(chans[k].resp[1], d)'
    BY <2>1, <2>3, <2>4, <2>5, <2>6, <2>7
  <2>11. chans'[k].server /\ step'[d] # "handshake" => counter'[d] <= Len(log')
    BY <1>1, <1>5, <1>7, <2>1 DEF Waiting, client
  <2>10. Waiting(d)'
    BY <2>1, <2>2, <2>3, <2>4, <2>8, <2>9, <2>11 DEF Waiting
  <2> QED
    BY <2>2, <2>3, <2>10
<1>8. ASSUME NEW d \in Daemons, conn[d] # 0, conn[d] # k
      PROVE  conn[d] \in DOMAIN chans /\ chans'[conn[d]] = chans[conn[d]]
  BY <1>2, <1>5, <1>8 DEF TypeOK
<1>9. \A d \in Daemons : conn[d] # 0 => Stays(conn[d]) \/ Waiting(d)'
  BY <1>1, <1>2, <1>7, <1>8, LogStays DEF Stays
<1>10. \A d \in Daemons : step[d] = "receive" /\ Quiet(conn[d])' => Quiet(conn[d])
  <2> SUFFICES ASSUME NEW d \in Daemons, step[d] = "receive", Quiet(conn[d])'
               PROVE  Quiet(conn[d])
    OBVIOUS
  <2>1. conn'[d] = conn[d] /\ conn[d] # 0
    BY <1>1 DEF client, ConnInv, Connected
  <2>2. <<answer>> # <<>>
    OBVIOUS
  <2>3. conn[d] # k
    BY <2>1, <2>2, <1>7 DEF Quiet
  <2> QED
    BY <2>1, <2>3, <1>1, <1>8, <1>k DEF Quiet, Answering
<1>11. \A c \in Calls : Sent'[c] <= Sent[c]
  <2>1. \A j \in DOMAIN chans : chans'[j].req = chans[j].req
    BY <1>5
  <2>2. NoneSent
    BY <1>5, <2>1 DEF NoneSent
  <2> QED
    BY <1>1, <2>2, SentNotMore
<1> QED
  BY <1>1, <1>5, <1>6, <1>9, <1>10, <1>11, ServerKeeps, LogStays

LEMMA HandleInv ==
    ASSUME IInv, TypeOK', Handle
    PROVE  IInv'
<1> USE DEF IInv, handlers
<1>1. /\ serving # 0 /\ answer = Nothing /\ chans[serving].req # <<>>
      /\ chans' = [chans EXCEPT ![serving].req = Tail(@)]
      /\ UNCHANGED <<context, result, client, serving, faults>>
  BY DEF Handle
<1>2. /\ TypeOK /\ Len(chans) \in Nat /\ DOMAIN chans = 1 .. Len(chans)
      /\ Len(log) \in Nat /\ Len(log') \in Nat
  BY LenProperties DEF TypeOK
<1>k. PICK k : k = serving
  OBVIOUS
<1>3. k \in 1 .. Len(chans) /\ chans[k] \in Chan /\ chans[k].req \in Seq(Msg)
  BY <1>k, <1>1, <1>2, ChanType DEF TypeOK
<1>4. /\ Len(chans[k].req) = 1 /\ chans[k].server
      /\ chans[k].req[1].kind = "wal" => chans[k].req[1].call \in Calls
  BY <1>k, <1>1, <1>2, <1>3 DEF ChanInv, OneRequest
<1>5. Head(chans[k].req) = chans[k].req[1] /\ Tail(chans[k].req) = <<>>
  <2>1. Tail(chans[k].req) \in Seq(Msg) /\ Len(Tail(chans[k].req)) = 0
    BY <1>k, <1>1, <1>3, <1>4, HeadTailProperties
  <2>2. Tail(chans[k].req) = <<>>
    BY <2>1, EmptySeq
  <2> QED
    BY <2>2, <1>k, <1>1, <1>3, HeadTailProperties
<1>6. PICK m, commits :
        /\ m = chans[k].req[1] /\ commits \in BOOLEAN
        /\ commits => m.kind = "wal" /\ m.id = Len(log)
        /\ answer' = Answer(m, commits)
        /\ log' = IF commits THEN Append(log, m.call) ELSE log
        /\ synced' = IF commits THEN Len(log') ELSE synced
  BY <1>5, <1>k DEF Handle
<1>7. m \in Msg
  BY <1>3, <1>4, <1>6, ElementOfSeq
<1>8. /\ DOMAIN chans' = DOMAIN chans
      /\ \A j \in DOMAIN chans : j # k => chans'[j] = chans[j]
      /\ chans'[k].req = <<>> /\ chans'[k].client = chans[k].client
      /\ chans'[k].resp = chans[k].resp /\ chans'[k].server = chans[k].server
  <2>1. Becomes(k, [chans[k] EXCEPT !.req = Tail(@)])
    BY <1>k, <1>1, <1>2, <1>3, RequestTaken
  <2>2. DOMAIN chans' = DOMAIN chans
    BY <2>1, <1>2, LenProperties DEF Becomes
  <2> QED
    BY <2>1, <2>2, <1>3, <1>5 DEF Becomes, Chan
<1>9. answer' # Nothing /\ Answering(k)'
  BY <1>k, <1>1, <1>6 DEF Answer, Nothing, Answering
<1>11. /\ LogGrows /\ Len(log) <= Len(log')
       /\ commits => m.call \in Synced' /\ Len(log') = Len(log) + 1 /\ synced' = Len(log')
  <2>1. CASE ~commits
    BY <2>1, <1>2, <1>6, LogStays
  <2>2. CASE commits
    <3>1. m.call \in Calls /\ log' = Append(log, m.call) /\ log \in Seq(Calls)
      BY <2>2, <1>4, <1>6 DEF TypeOK
    <3>2. /\ Len(log') = Len(log) + 1 /\ log'[Len(log) + 1] = m.call
          /\ \A i \in 1 .. Len(log) : log'[i] = log[i]
      BY <3>1, AppendProperties
    <3>3. synced \in 0 .. Len(log) /\ synced' = Len(log) + 1
      BY <2>2, <1>6, <3>2 DEF TypeOK
    <3>4. Synced \subseteq Synced'
      <4>1. ASSUME NEW i \in 1 .. synced  PROVE i \in 1 .. synced' /\ log'[i] = log[i]
        BY <1>2, <3>2, <3>3
      <4> QED
        BY <4>1 DEF Synced
    <3>5. m.call \in Synced'
      <4>1. Len(log) + 1 \in 1 .. synced'
        BY <1>2, <3>3
      <4> QED
        BY <4>1, <3>2 DEF Synced
    <3> QED
      BY <1>2, <3>2, <3>3, <3>4, <3>5 DEF LogGrows
  <2> QED
    BY <2>1, <2>2, <1>6
<1>10. \A j \in DOMAIN chans : OneRequest(j)'
  <2>1. ASSUME NEW j \in DOMAIN chans, j # k  PROVE OneRequest(j)'
    <3>1. Stays(j)
      BY <2>1, <1>1, <1>8, <1>11, <1>k DEF Stays
    <3> QED
      BY <2>1, <3>1, OneRequestKept
  <2>2. OneRequest(k)'
    BY <1>8 DEF OneRequest
  <2> QED
    BY <2>1, <2>2
<1>12. ASSUME NEW d \in Daemons, conn[d] = k  PROVE Waiting(d)'
  <2>1. /\ Waiting(d) /\ conn'[d] = k /\ step'[d] = step[d] /\ holder'[d] = holder[d]
        /\ counter'[d] = counter[d]
    BY <1>1, <1>2, <1>3, <1>12 DEF ConnInv, Connected, client
  <2>2. /\ chans[k].resp = <<>> /\ chans[k].client /\ step[d] \in {"handshake", "receive"}
        /\ step[d] = "handshake" => m.kind = "count"
        /\ step[d] = "receive" => m.kind \in {"get", "wal"} /\ m.call = holder[d]
        /\ step[d] = "receive" /\ m.kind = "wal" => m.id = counter[d]
    BY <1>k, <1>1, <1>6, <1>12, <2>1 DEF Waiting, Quiet
  <2>3. ASSUME step[d] = "handshake"  PROVE Greets(answer)'
    <3>1. m.kind = "count" /\ log' = log
      BY <2>2, <2>3, <1>6
    <3>2. answer'.kind = "LEN" /\ answer'.count = Len(log)
      BY <3>1, <1>6 DEF Answer
    <3> QED
      BY <3>1, <3>2, <1>2 DEF Greets
  <2>4. ASSUME step[d] = "receive"  PROVE Answers(answer, d)'
    <3>1. /\ answer'.kind \in {"OKE", "ERR", "ACC"} /\ answer'.call = holder[d]
          /\ answer'.kind = "OKE" => commits
      <4>0. m.kind \in {"get", "wal"} /\ m.call = holder[d]
        BY <2>2, <2>4
      <4>1. answer' = Answer(m, commits) /\ (commits => m.kind = "wal")
        BY <1>6
      <4>2. CASE m.kind = "get"
        BY <4>0, <4>1, <4>2 DEF Answer
      <4>3. CASE m.kind = "wal"
        BY <4>0, <4>1, <4>3 DEF Answer
      <4> QED
        BY <4>0, <4>2, <4>3
    <3>2. commits => holder[d] \in Synced' /\ counter[d] < synced'
      <4>0. m.call = holder[d] /\ (m.kind = "wal" => m.id = counter[d])
        BY <2>2, <2>4
      <4>1. commits => m.call = holder[d] /\ counter[d] = Len(log)
        BY <4>0, <1>6
      <4>2. commits => m.call \in Synced' /\ Len(log') = Len(log) + 1 /\ synced' = Len(log')
        BY <1>11
      <4> QED
        BY <4>1, <4>2, <1>2
    <3> QED
      BY <3>1, <3>2, <2>1 DEF Answers
  <2>5. Len(chans'[k].resp) <= 1
    BY <2>2, <1>8, EmptySeq
  <2>6. step[d] # "handshake" => counter[d] <= Len(log')
    <3>1. step[d] # "handshake" => counter[d] <= Len(log)
      BY <1>4, <1>12, <2>1 DEF Waiting
    <3>2. counter[d] \in Nat
      BY DEF TypeOK
    <3> QED
      BY <3>1, <3>2, <1>2, <1>11
  <2> QED
    BY <2>1, <2>2, <2>3, <2>4, <2>5, <2>6, <1>8 DEF Waiting
<1>13. ASSUME NEW d \in Daemons, conn[d] # 0, conn[d] # k
       PROVE  conn[d] \in DOMAIN chans /\ chans'[conn[d]] = chans[conn[d]]
  BY <1>2, <1>8, <1>13 DEF TypeOK
<1>14. \A d \in Daemons : conn[d] # 0 => Stays(conn[d]) \/ Waiting(d)'
  BY <1>1, <1>11, <1>12, <1>13, <1>k DEF Stays
<1>15. \A d \in Daemons : step[d] = "receive" /\ Quiet(conn[d])' => Quiet(conn[d])
  <2> SUFFICES ASSUME NEW d \in Daemons, step[d] = "receive", Quiet(conn[d])'
               PROVE  Quiet(conn[d])
    OBVIOUS
  <2>1. conn'[d] = conn[d] /\ conn[d] # 0
    BY <1>1 DEF client, ConnInv, Connected
  <2>2. conn[d] # k
    BY <2>1, <1>9 DEF Quiet
  <2> QED
    BY <2>1, <2>2, <1>1, <1>13 DEF Quiet, Answering
<1>16. ASSUME NEW c \in Calls  PROVE Sent'[c] <= Sent[c]
  <2>1. NoNewRequest(c)
    BY <1>8 DEF NoNewRequest
  <2>2. CASE ~commits
    BY <2>1, <2>2, <1>2, <1>6, SentKept
  <2>3. CASE commits
    <3>1. m.call \in Calls /\ log' = Append(log, m.call)
      BY <2>3, <1>4, <1>6
    <3>2. m.call = c => k \in Pending(c) /\ k \notin Pending(c)'
      BY <1>k, <1>1, <1>2, <1>3, <1>6, <1>8 DEF Pending
    <3> QED
      BY <2>1, <3>1, <3>2, <1>2, SentCommitted
  <2> QED
    BY <2>2, <2>3, <1>6
<1>17. serving' # 0 /\ chans'[serving'].server
  BY <1>1, <1>4, <1>8, <1>k
<1> QED
  BY <1>1, <1>8, <1>10, <1>11, <1>14, <1>15, <1>16, <1>17, ServerKeeps

-----------------------------------------------------------------------------
(* The inductive invariant, and what follows from it.                      *)

LEMMA InitInv == Init => IInv
<1> SUFFICES ASSUME Init  PROVE IInv
  OBVIOUS
<1>1. TypeOK
  BY LetDXAssumption, EmptySeq DEF Init, TypeOK, Steps
<1>2. CallInv /\ ChanInv /\ ConnInv
  BY DEF Init, CallInv, Calling, ChanInv, ConnInv, Connected
<1>3. CountInv
  BY EmptySeq DEF Init, CountInv
<1>4. ASSUME NEW c \in Calls  PROVE Sent[c] = 0
  <2>1. {i \in DOMAIN log : log[i] = c} = {} /\ Pending(c) = {}
    BY DEF Init, Pending
  <2>2. Copies(c) = 0 /\ Cardinality(Pending(c)) = 0
    BY <2>1, FS_EmptySet DEF Copies
  <2> QED
    BY <2>2 DEF Sent
<1>5. SentInv
  BY <1>4, LetDXAssumption DEF SentInv, Init
<1>6. FaultFree
  BY <1>4 DEF FaultFree, Init, Unsent
<1> QED
  BY <1>1, <1>2, <1>3, <1>5, <1>6 DEF IInv

LEMMA NextInv == IInv /\ [Next]_vars => IInv'
<1> SUFFICES ASSUME IInv, [Next]_vars  PROVE IInv'
  OBVIOUS
<1>1. TypeOK'
  BY Typing
<1>2. ASSUME UNCHANGED vars  PROVE IInv'
  <2>1. /\ UNCHANGED <<result, client, chans, serving, answer, log, synced, faults, context>>
    BY <1>2 DEF vars, client
  <2>2. CallInv' /\ ChanInv' /\ ConnInv' /\ CountInv'
    BY <2>1 DEF IInv, client, CallInv, Calling, ContextDone, Answers, Synced, ChanInv, OneRequest,
                Answering, ConnInv, Connected, Waiting, Quiet, Greets, CountInv
  <2>3. Sent' = Sent
    BY <2>1 DEF Sent, Copies, Pending
  <2>4. SentInv' /\ FaultFree'
    BY <2>1, <2>3 DEF IInv, client, SentInv, Fresh, Attempts, FaultFree, Unsent, Quiet, Answering
  <2> QED
    BY <1>1, <2>2, <2>4 DEF IInv
<1>3. ASSUME NEW d \in Daemons, ClientStep(d)  PROVE IInv'
  BY <1>1, <1>3, LockInv, TryInv, ConnectInv, ConnectionFailsInv, SynchronizeInv, SendInv,
     ReceiveInv, FinishInv DEF ClientStep
<1>4. ASSUME ServerStep \/ IdleTimeout \/ DropConnection  PROVE IInv'
  BY <1>1, <1>4, AcceptInv, HandleInv, RespondInv, CloseInv DEF ServerStep
<1>8. ASSUME ServerCrash \/ CrashBeforeSync \/ PowerLoss  PROVE IInv'
  BY <1>1, <1>8, CrashInv, CrashBeforeSyncInv, PowerLossInv
<1>5. ASSUME NEW d \in Daemons, ConnectionBreaks(d) \/ DaemonRestarts(d)  PROVE IInv'
  BY <1>1, <1>5, ConnectionFailsInv, RestartInv
<1>6. ASSUME NEW k \in DOMAIN chans, CollectLeaked(k)  PROVE IInv'
  BY <1>1, <1>6, CollectInv
<1>7. ASSUME NEW c \in Calls, ContextEnds(c)  PROVE IInv'
  BY <1>1, <1>7, AcceptInv
<1> QED
  BY <1>2, <1>3, <1>4, <1>5, <1>6, <1>7, <1>8 DEF Next

LEMMA Invariant == Spec => []IInv
BY InitInv, NextInv, PTL DEF Spec

\* The state keeps its types, and the mutex of a client is held while a call is
\* in its steps (LetDD/tcp/client.go:51-108).
THEOREM TypeCorrect == Spec => []TypeOK
<1>1. IInv => TypeOK
  BY DEF IInv
<1> QED
  BY <1>1, Invariant, PTL

\* A response reaches the call it answers, and a success has been committed: a
\* response left over from an attempt given up is never taken for another call's
\* (LetDD/tcp/client.go:62-108).
THEOREM SuccessTheorem == Spec => []SuccessIsCommitted
<1>1. IInv => SuccessIsCommitted
  <2> SUFFICES ASSUME IInv  PROVE SuccessIsCommitted
    OBVIOUS
  <2>1. ASSUME NEW d \in Daemons, At(d, "finish"), ~failed[d], reply[d] # Nothing
        PROVE  reply[d].call = holder[d]
    BY <2>1 DEF IInv, CallInv, Calling, At, Answers
  <2>2. ASSUME NEW c \in Calls, result[c] = "OKE"  PROVE Copies(c) > 0
    <3>1. PICK n \in 1 .. synced : log[n] = c
      BY <2>2 DEF IInv, CountInv, Synced
    <3>2. n \in {i \in DOMAIN log : log[i] = c}
      <4>1. synced \in 0 .. Len(log) /\ Len(log) \in Nat /\ DOMAIN log = 1 .. Len(log)
        BY LenProperties DEF IInv, TypeOK
      <4> QED
        BY <3>1, <4>1
    <3>3. IsFiniteSet({i \in DOMAIN log : log[i] = c}) /\ Copies(c) \in Nat
      BY Finite DEF IInv
    <3>4. Copies(c) # 0
      BY <3>2, <3>3, FS_EmptySet DEF Copies
    <3> QED
      BY <3>3, <3>4
  <2> QED
    BY <2>1, <2>2 DEF SuccessIsCommitted
<1> QED
  BY <1>1, Invariant, PTL

\* What is committed of a call was sent by one of its attempts.
LEMMA CommittedWasSent ==
    ASSUME TypeOK, NEW c \in Calls
    PROVE  Copies(c) \in Nat /\ Sent[c] \in Nat /\ Copies(c) <= Sent[c]
<1>1. Copies(c) \in Nat /\ Cardinality(Pending(c)) \in Nat
  BY Finite
<1>2. Sent[c] = Copies(c) + Cardinality(Pending(c))
  BY DEF Sent
<1> QED
  BY <1>1, <1>2

\* However the attempts of a call overlap crashes, broken connections and
\* reconnections, each attempt commits at most once (LetDD/tcp/client.go:62-85).
THEOREM CommitsTheorem == Spec => []CommitsBounded
<1>1. IInv => CommitsBounded
  <2> SUFFICES ASSUME IInv  PROVE CommitsBounded
    OBVIOUS
  <2>1. ASSUME NEW c \in Calls  PROVE Copies(c) <= CancelAfter
    <3>1. Sent[c] <= CancelAfter /\ CancelAfter \in Nat
      BY LetDXAssumption DEF IInv, SentInv
    <3> QED
      BY <3>1, CommittedWasSent DEF IInv
  <2>2. ASSUME NEW d \in Daemons, holder[d] # NoCall  PROVE Copies(holder[d]) <= tries[d]
    <3>1. holder[d] \in Calls /\ tries[d] \in Nat
      BY <2>2, LetDXAssumption DEF IInv, TypeOK
    <3>2. Sent[holder[d]] <= Attempts(d)
      BY <3>1 DEF IInv, SentInv
    <3>3. Attempts(d) \in Int /\ Attempts(d) <= tries[d]
      BY <3>1 DEF Attempts
    <3> QED
      BY <3>1, <3>2, <3>3, CommittedWasSent DEF IInv
  <2> QED
    BY <2>1, <2>2 DEF CommitsBounded
<1> QED
  BY <1>1, Invariant, PTL

\* On a connection that stands no client's counter, and no request on its way, is
\* ahead of the log, though a power loss takes back entries that a handshake has
\* counted (LetDD/tcp/client.go:98-100, 149-151, LetDB/src/storage/wal.c:258-280).
THEOREM CounterTheorem == Spec => []CounterNotAhead
<1>1. IInv => CounterNotAhead
  <2> SUFFICES ASSUME IInv  PROVE CounterNotAhead
    OBVIOUS
  <2>1. \A d \in Daemons :
          conn[d] # 0 /\ Chan_(d).server /\ ~At(d, "handshake") => counter[d] <= Len(log)
    BY DEF IInv, ConnInv, Connected, Waiting, Chan_, At
  <2>2. ASSUME NEW k \in DOMAIN chans, NEW i \in DOMAIN chans[k].req,
               chans[k].req[i].kind = "wal"
        PROVE  chans[k].req[i].id <= Len(log)
    <3>1. k \in 1 .. Len(chans) /\ chans[k].req \in Seq(Msg) /\ OneRequest(k)
      BY LenProperties, ChanType DEF IInv, TypeOK, ChanInv
    <3>2. DOMAIN chans[k].req = 1 .. Len(chans[k].req) /\ chans[k].req # <<>>
      BY <2>2, <3>1, LenProperties
    <3>3. i = 1
      BY <2>2, <3>1, <3>2 DEF OneRequest
    <3> QED
      BY <2>2, <3>1, <3>2, <3>3 DEF OneRequest
  <2> QED
    BY <2>1, <2>2 DEF CounterNotAhead
<1> QED
  BY <1>1, Invariant, PTL

\* Before the first fault no call is committed twice: an attempt that failed has
\* sent nothing that is still to be read (LetDD/tcp/client.go:62-85, server.c:112-129).
THEOREM OnceTheorem == Spec => []OnceWithoutFaults
<1>1. IInv => OnceWithoutFaults
  <2> SUFFICES ASSUME IInv, faults = 0, NEW c \in Calls  PROVE Copies(c) <= 1
    BY DEF OnceWithoutFaults, AtMostOnce
  <2>1. Sent[c] <= 1
    BY DEF IInv, FaultFree
  <2> QED
    BY <2>1, CommittedWasSent DEF IInv
<1> QED
  BY <1>1, Invariant, PTL

=============================================================================
