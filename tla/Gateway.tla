------------------------------- MODULE Gateway -------------------------------
(***************************************************************************)
(* One HTTP request on its way through LetDD to the decoder of LetDB, and  *)
(* the answer on its way back: authorization and permissions               *)
(* (http/authorization.go, config/config.go), binding and flags            *)
(* (http/routes.go, http/flags.go), the text of the request, the decoder   *)
(* byte by byte, the answer of let_request, its text, and the HTTP         *)
(* response (http/response.go).  Lines that are typed by hand, with no     *)
(* LetDD, are read by the same decoder.                                    *)
(*                                                                         *)
(* Retries, connections and what answers depend on are in LetDX and LetDB: *)
(* here an attempt may be lost, and an answer is any the code can give.    *)
(***************************************************************************)
EXTENDS Codec, Supervisor

CONSTANTS MaxTyped,   \* bound: bytes of a typed line after its command
          Ids,        \* samples: account ids in a URL or a body
          Amounts,    \* samples: amounts in a body
          FlagLists,  \* samples: lists of flag names in a body
          Nonces,     \* samples: the client's count of transactions
          Delays      \* samples: the minimum and maximum of --supervisor

ASSUME GatewayAssumption ==
    /\ MaxTyped \in 0 .. MaxLine
    /\ Ids \subseteq Int /\ Amounts \subseteq Int /\ Nonces \subseteq 0 .. U64Max
    /\ Delays \subseteq Durations \X Durations
    /\ FlagLists \subseteq Seq(STRING) /\ 7 <= U8Max     \* three flags in a byte

VARIABLES
    config,   \* whether a token is configured, its permissions, and --supervisor
    stage,    \* where the request is, or "typing"
    call,     \* the request as its handler holds it
    line,     \* the bytes the decoder has not read
    answer,   \* network_response
    status    \* the HTTP response
gateway == <<config, stage, call, line, answer, status>>
all == <<vars, gateway, supervisor>>

Routes == {"GetAccount", "UpdateAccount", "PostAccount", "PostTransfer"}
NoCall == [route |-> "none", numbers |-> <<>>, flags |-> <<>>, id |-> 0]
NoAnswer == [kind |-> "none", values |-> <<>>, error |-> "NONE"]
Status(code, values, flags) == [code |-> code, values |-> values, flags |-> flags]

GatewayInit ==
    /\ Init /\ SupervisorInit
    /\ stage \in {"typing", "arriving"}
    /\ config \in [token : BOOLEAN, permissions : SUBSET {"read", "write"}, delays : Delays]
    /\ stage = "typing" \/ ~config.token => config.permissions = {}
    /\ stage = "typing" => ~config.token /\ config.delays = CHOOSE d \in Delays : TRUE
    /\ call = NoCall /\ line = <<>> /\ answer = NoAnswer
    /\ status = Status(0, <<>>, <<>>)

Goto(s) == stage' = s
Reply(s) == status' = s /\ Goto("replied")

\* Communicate has returned an error, and the handler answers it.
Abort == status' = Status(500, <<>>, <<>>) /\ Goto("failed")

\* Bytes that come from no LetDD.
Typing ==
    /\ stage = "typing"
    /\ Next /\ Len(tail') <= MaxTyped
    /\ UNCHANGED <<gateway, supervisor>>

-----------------------------------------------------------------------------
(* The HTTP server.                                                        *)

\* Mutant: PUT is taken for a read (authorization.go:23).
PermissionOf_PutReads(route) ==
    IF route \in {"GetAccount", "UpdateAccount"} THEN "read" ELSE "write"

\* By the method: GET, or POST and PUT.
PermissionOf(route) == IF route = "GetAccount" THEN "read" ELSE "write"

\* Without a token nothing is asked.
Authorize(route, matches) ==
    /\ stage = "arriving"
    /\ IF config.token /\ ~(matches /\ PermissionOf(route) \in config.permissions)
       THEN Reply(Status(401, <<>>, <<>>)) /\ UNCHANGED call
       ELSE Goto("routed") /\ call' = [call EXCEPT !.route = route] /\ UNCHANGED status
    /\ UNCHANGED <<config, line, answer>> /\ UNCHANGED <<vars, supervisor>>

Bit(name) == CASE name = "send" -> 1 [] name = "receive" -> 2 [] name = "debt" -> 4
HasBit(flags, name) == (flags \div Bit(name)) % 2 = 1
Named(list) == \A i \in DOMAIN list : list[i] \in {"send", "receive", "debt"}

\* Mutant: bits are added instead of set (flags.go:22-27).
ToUint8_Adds(list) == FoldLeft(LAMBDA flags, name : flags + Bit(name), 0, list)

ToUint8(list) ==
    FoldLeft(LAMBDA flags, name : IF HasBit(flags, name) THEN flags ELSE flags + Bit(name),
             0, list)

\* Each flag whose bit is set is appended.
Uint8ToFlags(flags) ==
    LET set(name) == IF HasBit(flags, name) THEN <<name>> ELSE <<>>
    IN  set("send") \o set("receive") \o set("debt")

\* The numbers each route takes, and the flags.
Bodies(route) ==
    CASE route = "GetAccount" -> {<<i>> : i \in Ids} \X {<<>>}
      [] route = "UpdateAccount" -> {<<i>> : i \in Ids} \X FlagLists
      [] route = "PostAccount" -> (Amounts \X Amounts) \X FlagLists
      [] route = "PostTransfer" -> (Ids \X Ids \X Amounts) \X {<<>>}

\* Ids are read as 64 bits without a sign, amounts by uint128.Parse.
Binds(route, numbers) ==
    CASE route = "PostAccount" -> \A i \in 1 .. 2 : numbers[i] <= U128Max
      [] route = "PostTransfer" -> numbers[1] \in 0 .. U64Max /\ numbers[2] \in 0 .. U64Max
                                     /\ numbers[3] <= U128Max
      [] OTHER -> numbers[1] \in 0 .. U64Max

\* The handler of a route, up to its call of Communicate.
Handler(numbers, flags) ==
    /\ stage = "routed"
    /\ IF Binds(call.route, numbers) /\ Named(flags)
       THEN /\ Goto("bound") /\ UNCHANGED status
            /\ call' = [call EXCEPT !.numbers = numbers, !.flags = flags]
       ELSE Reply(Status(400, <<>>, <<>>)) /\ UNCHANGED call
    /\ UNCHANGED <<config, line, answer>> /\ UNCHANGED <<vars, supervisor>>

\* The rate limiter, where one is configured, binds the body of a transfer before its
\* handler does, and refuses what its store does not admit.
RateLimiter(numbers) ==
    /\ stage = "routed" /\ call.route = "PostTransfer"
    /\ Reply(Status(IF Binds(call.route, numbers) THEN 429 ELSE 400, <<>>, <<>>))
    /\ UNCHANGED <<config, call, line, answer>> /\ UNCHANGED <<vars, supervisor>>

-----------------------------------------------------------------------------
(* The TCP client and the server.                                          *)

CommandOf(route) ==
    CASE route = "GetAccount" -> "?" [] route = "UpdateAccount" -> "="
      [] route = "PostAccount" -> "+" [] route = "PostTransfer" -> "%"

\* The fields of the request, in the order of Encode.
Fields(id) ==
    LET n == call.numbers
    IN  CASE call.route = "GetAccount" -> n
          [] call.route = "UpdateAccount" -> <<id, n[1], ToUint8(call.flags)>>
          [] call.route = "PostAccount" ->
               <<id, ParseAmount(n[1]), ParseAmount(n[2]), ToUint8(call.flags)>>
          [] call.route = "PostTransfer" -> <<id, n[1], n[2], ParseAmount(n[3])>>

Attempt == stage = "bound" /\ Try(config.delays[1], config.delays[2])

\* The connection that is open is taken, with the count the client has reached.
KeepConnection(count) ==
    /\ Attempt /\ Goto("connected")
    /\ call' = [call EXCEPT !.id = count]
    /\ UNCHANGED <<config, line, answer, status>> /\ UNCHANGED vars

DialFails == Attempt /\ UNCHANGED <<vars, gateway>>

\* sendRequest; the decoder takes the first byte, the command.
Send(c, values) ==
    /\ line' = Encode(c, values) /\ RunCommand(c)
    /\ UNCHANGED <<config, call, answer, status>>

\* The handshake of a new connection.
Greet == Attempt /\ Goto("greeting") /\ Send("#", <<>>)

\* SetID has put the count into the request.
SendRequest ==
    /\ stage = "connected" /\ Goto("sent")
    /\ Send(CommandOf(call.route), Fields(call.id))
    /\ UNCHANGED supervisor

\* The decoder runs to the end of the line or to an error.
Decode ==
    /\ stage \in {"greeting", "sent"} /\ line # <<>> /\ error = "NONE" /\ ~unread
    /\ line' = Tail(line) /\ tail' = Append(tail, Head(line))
    /\ Next
    /\ UNCHANGED <<config, stage, call, answer, status, supervisor>>

Answer(kind, values) == [kind |-> kind, values |-> values, error |-> "NONE"]
Failure(e) == [kind |-> "ERR", values |-> <<Code(e)>>, error |-> e]

\* What let_request can answer to each command, where it does not end the process.
Refusals(c) ==
    CASE c = "+" -> {"NONCE_MISMATCH", "CAPACITY_OVERFLOW"}
      [] c = "%" -> {"NONCE_MISMATCH"} \cup (NamesOf(3) \ {"GUARD_INVALID_STATE"})
      [] c = "=" -> {"NONCE_MISMATCH", "ACCOUNT_NOT_FOUND"}
      [] c = "?" -> {"ACCOUNT_NOT_FOUND"}
      [] OTHER -> {}

Balances == {ParseAmount(n) : n \in {a \in Amounts : a <= U128Max}}
Successes(c) ==
    CASE c = "+" -> {Answer("AID", <<i>>) : i \in Ids \cap 0 .. U64Max}
      [] c = "#" -> {Answer("LEN", v) : v \in Nonces \X Nonces}
      [] c = "?" -> {Answer("ACC", v) : v \in Balances \X Balances \X (0 .. U8Max)}
      [] c \in {"%", "="} -> {Answer("OKE", <<>>)}
      [] OTHER -> {}   \* LetDD sends no other command

Handle ==
    /\ stage \in {"greeting", "sent"} /\ (line = <<>> \/ error # "NONE" \/ unread)
    /\ answer' \in IF Result = "NONE"
                   THEN Successes(command) \cup {Failure(e) : e \in Refusals(command)}
                   ELSE {Failure(Result)}
    /\ Goto(IF stage = "sent" THEN "answered" ELSE "greeted")
    /\ UNCHANGED <<config, call, line, status>> /\ UNCHANGED <<vars, supervisor>>

\* The next line is read by a new decoder.
NewDecoder ==
    /\ command' = "none" /\ tail' = <<>> /\ state' = "COMMAND"
    /\ argc' = 0 /\ args' = <<>> /\ unread' = FALSE /\ error' = "NONE"

Afresh == NewDecoder /\ line' = <<>> /\ answer' = NoAnswer
TryAgain == Goto("bound") /\ Afresh

\* The connection is lost; Communicate connects and sends the request again.
AttemptLost ==
    /\ stage \in {"greeting", "greeted", "sent", "answered"}
    /\ TryAgain
    /\ UNCHANGED <<config, call, status, supervisor>>

\* The supervisor, or the context, at any time, ends the attempts.
GiveUp ==
    /\ stage = "bound"
    /\ Abort /\ Reset
    /\ UNCHANGED <<config, call, line, answer>> /\ UNCHANGED vars

ToResponse(r) ==
    CASE r.kind = "ACC" -> Status(200, SubSeq(r.values, 1, 2), Uint8ToFlags(r.values[3]))
      [] r.kind = "AID" -> Status(201, r.values, <<>>)
      [] r.kind = "OKE" -> Status(204, <<>>, <<>>)
      [] r.kind = "ERR" -> Status(400, r.values, <<>>)
      [] OTHER -> Status(500, <<>>, <<>>)

Received == ParseResponse(EncodeResponse(answer))

\* The count of transactions is taken from the handshake; anything else fails it.
Synchronize ==
    /\ stage = "greeted"
    /\ IF Received.kind = "LEN"
       THEN Goto("connected") /\ Afresh /\ call' = [call EXCEPT !.id = Received.values[2]]
       ELSE TryAgain /\ UNCHANGED call
    /\ UNCHANGED <<config, status, supervisor>>

\* A response that cannot be read fails the attempt like a lost one.  Of one that is
\* read, a context that has ended by then makes an error all the same.
ReceiveResponse ==
    /\ stage = "answered"
    /\ IF Received = Malformed
       THEN TryAgain /\ UNCHANGED <<status, supervisor>>
       ELSE /\ Reply(ToResponse(Received)) \/ Abort
            /\ Reset
            /\ UNCHANGED <<line, answer>> /\ UNCHANGED vars
    /\ UNCHANGED <<config, call>>

Rested ==
    /\ stage \in {"replied", "failed"} \/ (stage = "typing" /\ Len(tail) = MaxTyped)
    /\ UNCHANGED all

GatewayNext ==
    \/ Typing
    \/ \E route \in Routes, matches \in BOOLEAN : Authorize(route, matches)
    \/ stage = "routed" /\ \E body \in Bodies(call.route) :
            Handler(body[1], body[2]) \/ RateLimiter(body[1])
    \/ \E count \in Nonces : KeepConnection(count)
    \/ DialFails \/ Greet \/ Synchronize \/ SendRequest \/ Decode \/ Handle
    \/ AttemptLost \/ GiveUp \/ ReceiveResponse \/ Rested

GatewaySpec == GatewayInit /\ [][GatewayNext]_all

-----------------------------------------------------------------------------
\* The numbers and flags of the call, each flag once, with the id where there is one.
Meant ==
    LET n == call.numbers
        bits == MapThenSumSet(Bit, {call.flags[i] : i \in DOMAIN call.flags})
    IN  CASE call.route = "GetAccount" -> n
          [] call.route = "UpdateAccount" -> <<call.id, n[1], bits>>
          [] call.route = "PostAccount" -> <<call.id>> \o n \o <<bits>>
          [] call.route = "PostTransfer" -> <<call.id>> \o n

\* What the HTTP client asked for is what the server reads: no amount, id or flag is
\* changed by its text, and no request of LetDD is refused by the decoder; and the
\* handshake is read as what it is (uint128.go:21-56, request.go, flags.go:15-32,
\* decoder.c).  An amount below 0 is not refused by LetDD and is sent as another: see
\* ParseAmount.
RequestSurvives ==
    /\ stage = "greeted" => Result = "NONE" /\ line = <<>> /\ command = "#"
    /\ stage = "answered" /\ (\A i \in DOMAIN call.numbers : call.numbers[i] >= 0) =>
         Result = "NONE" /\ line = <<>> /\ command = CommandOf(call.route) /\ args = Meant

\* Every response the server writes is read (one that is not would be retried, and its
\* request executed again), and what is told of it is what was answered: with its
\* numbers and flags, an error code standing for one error only, and as no failure of
\* LetDD's (encoder.c, response.go, error.c:47-57).  That is not to say that it is told:
\* when the context of the call has ended by the time the response is read, Communicate
\* returns an error, and the HTTP client gets a 500 for a request that may be executed
\* ("failed", client.go:89-91).
AnswerSurvives ==
    /\ stage \in {"greeted", "answered"} =>
         Received = [kind |-> answer.kind, values |-> answer.values]
    /\ stage = "replied" => status.code # 500
    /\ stage = "replied" /\ answer.kind = "ACC" =>
         status.code = 200 /\ <<status.values[1], status.values[2]>> =
                                <<answer.values[1], answer.values[2]>>
           /\ MapThenSumSet(Bit, {status.flags[i] : i \in DOMAIN status.flags})
                = answer.values[3] % 8
    /\ stage = "replied" /\ answer.kind = "ERR" =>
         status.code = 400 /\ {e \in Errors : status.values = <<Code(e)>>} = {answer.error}

\* A token's permissions bound what reaches the server, retries included: without
\* "write" no request that is logged, without "read" no account (authorization.go,
\* config.go:115).
PermissionsHold ==
    config.token =>
        /\ "write" \notin config.permissions => command \notin {"+", "%", "="}
        /\ "read" \notin config.permissions => command # "?"

\* The delay doubles from its minimum to its maximum for as long as the product fits,
\* and stays between the two however long the attempts go on: never none, though the
\* shift and the product wrap to zero and below; and a call begins with none, whatever
\* the call before it has met (supervisor.go:29-78, client.go:87).
BackoffHolds ==
    /\ stage \in {"arriving", "routed", "replied", "failed"} => tries = 0 /\ delay = 0
    /\ tries <= Larger(CancelAfter, 1)
    /\ tries > 1 =>
         LET minimum == config.delays[1]
             maximum == config.delays[2]
             exact == minimum * Power[tries - 2]
         IN  /\ Smaller(minimum, maximum) <= delay /\ delay <= maximum
             /\ exact < Half => delay = Smaller(exact, maximum)

=============================================================================
