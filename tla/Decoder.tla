------------------------------- MODULE Decoder -------------------------------
(***************************************************************************)
(* The request decoder of LetDB (network/request/decoder.c): a machine     *)
(* over the bytes of a line, here in any base and for integers of any      *)
(* widths.  Every state is also the end of some buffer: Result is what     *)
(* let_network_request_decode returns for the bytes read so far.           *)
(***************************************************************************)
EXTENDS Naturals, Sequences, FiniteSets, Functions

CONSTANTS Base,                     \* 10
          U8Max, U64Max, U128Max,   \* the widths of the arguments
          MaxLine                   \* bound: bytes after the command

ASSUME DecoderAssumption ==
    /\ Base \in Nat \ {0, 1} /\ MaxLine \in Nat
    /\ U8Max \in Nat /\ U64Max \in Nat /\ U128Max \in Nat
    /\ U8Max <= U64Max /\ U64Max <= U128Max

VARIABLES command,   \* request.type
          tail,      \* the bytes after the command
          state,     \* COMMAND, ARGUMENT or END
          argc,      \* request_argc: the arguments still to come
          args,      \* request.data, in the order of the line
          unread,    \* bytes follow the end of the request
          error
vars == <<command, tail, state, argc, args, unread, error>>

Digits == 0 .. Base - 1
Space == Base               \* and the newline, which the server turns into one
Underscore == Base + 1
Other == Base + 2
Bytes == 0 .. Base + 2

Commands == {";", "+", "%", "?", "#", "=", "."}

\* The arguments of each request, by the largest value each may have.
Limits(c) ==
    CASE c = "+" -> <<U64Max, U128Max, U128Max, U8Max>>
      [] c = "%" -> <<U64Max, U64Max, U64Max, U128Max>>
      [] c = "?" -> <<U64Max>>
      [] c = "=" -> <<U64Max, U64Max, U8Max>>
      [] OTHER -> <<>>

Params == Len(Limits(command))
Current == Params - argc + 1

TypeOK ==
    /\ command \in Commands \cup {"none", "unknown"}
    /\ tail \in Seq(Bytes) /\ Len(tail) <= MaxLine
    /\ state \in {"COMMAND", "ARGUMENT", "END"}
    /\ state = "COMMAND" <=> command \notin Commands
    /\ argc \in 0 .. Params /\ (state = "END" => argc = 0)
    /\ DOMAIN args = 1 .. Params
    /\ \A i \in DOMAIN args : args[i] \in 0 .. Limits(command)[i]
    /\ unread \in BOOLEAN
    /\ error \in {"NONE", "INVALID_COMMAND", "EXPECTED_NEW_LINE",
                  "INVALID_INTEGER", "INTEGER_OVERFLOW"}

Init ==
    /\ command = "none" /\ tail = <<>> /\ state = "COMMAND"
    /\ argc = 0 /\ args = <<>> /\ unread = FALSE /\ error = "NONE"

-----------------------------------------------------------------------------
RunCommand(c) ==
    /\ state = "COMMAND" /\ error = "NONE"
    /\ command' = c
    /\ argc' = Len(Limits(c))
    /\ args' = [i \in 1 .. Len(Limits(c)) |-> 0]
    /\ state' = "ARGUMENT"
    /\ UNCHANGED <<tail, unread, error>>

InvalidCommand ==
    /\ state = "COMMAND" /\ error = "NONE"
    /\ command' = "unknown" /\ error' = "INVALID_COMMAND"
    /\ UNCHANGED <<tail, state, argc, args, unread>>

\* The next byte of the line is taken.
Read(b) == error = "NONE" /\ Len(tail) < MaxLine /\ tail' = Append(tail, b)

Fail(e) == error' = e /\ UNCHANGED <<command, state, argc, args, unread>>

\* Mutant: the first overflow check is off by one (decoder.c:264).
Fits_Strict(value, digit, limit) ==
    /\ value < U128Max \div Base
    /\ digit <= U128Max - value * Base
    /\ value * Base + digit <= limit

\* The two checks of parse_u128, and the one of parse_u64 and parse_u8.
Fits(value, digit, limit) ==
    /\ value <= U128Max \div Base
    /\ digit <= U128Max - value * Base
    /\ value * Base + digit <= limit

\* Mutant: the narrow integers are not checked (decoder.c:297, 315).
TakeDigit_NoWidth(b) ==
    /\ state = "ARGUMENT" /\ argc > 0 /\ b \in Digits
    /\ Fits(args[Current], b, U128Max)
    /\ Read(b)
    /\ args' = [args EXCEPT ![Current] = @ * Base + b]
    /\ UNCHANGED <<command, state, argc, unread, error>>

TakeDigit(b) ==
    /\ state = "ARGUMENT" /\ argc > 0 /\ b \in Digits
    /\ Fits(args[Current], b, Limits(command)[Current])
    /\ Read(b)
    /\ args' = [args EXCEPT ![Current] = @ * Base + b]
    /\ UNCHANGED <<command, state, argc, unread, error>>

Overflow(b) ==
    /\ state = "ARGUMENT" /\ argc > 0 /\ b \in Digits
    /\ ~Fits(args[Current], b, Limits(command)[Current])
    /\ Read(b)
    /\ Fail("INTEGER_OVERFLOW")

SkipUnderscore ==
    /\ state = "ARGUMENT" /\ argc > 0
    /\ Read(Underscore)
    /\ UNCHANGED <<command, state, argc, args, unread, error>>

InvalidInteger ==
    /\ state = "ARGUMENT" /\ argc > 0
    /\ Read(Other)
    /\ Fail("INVALID_INTEGER")

NextArgument ==
    /\ state = "ARGUMENT" /\ argc > 1
    /\ Read(Space)
    /\ argc' = argc - 1
    /\ UNCHANGED <<command, state, args, unread, error>>

\* A space ends the last argument, or a request that has none.
EndOfLine ==
    /\ state = "ARGUMENT" /\ argc <= 1
    /\ Read(Space)
    /\ argc' = 0 /\ state' = "END"
    /\ UNCHANGED <<command, args, unread, error>>

ExpectedNewLine(b) ==
    /\ state = "ARGUMENT" /\ argc = 0 /\ b # Space
    /\ Read(b)
    /\ Fail("EXPECTED_NEW_LINE")

\* Mutant: what follows the request is not looked at (decoder.c:89).
Rest_Ignored(b) ==
    /\ state = "END"
    /\ Read(b)
    /\ UNCHANGED <<command, state, argc, args, unread, error>>

\* The loop ends at END: the buffer is not consumed.
Rest(b) ==
    /\ state = "END" /\ ~unread
    /\ Read(b)
    /\ unread' = TRUE
    /\ UNCHANGED <<command, state, argc, args, error>>

\* No more bytes are looked at.
Decided ==
    /\ error # "NONE" \/ unread \/ Len(tail) = MaxLine
    /\ UNCHANGED vars

Next ==
    \/ \E c \in Commands : RunCommand(c)
    \/ InvalidCommand
    \/ \E b \in Bytes : TakeDigit(b) \/ Overflow(b) \/ ExpectedNewLine(b) \/ Rest(b)
    \/ SkipUnderscore \/ InvalidInteger \/ NextArgument \/ EndOfLine
    \/ Decided

Spec == Init /\ [][Next]_vars

\* The value let_network_request_decoder_run returns at the end of the buffer.
Result ==
    IF command = "none" THEN "EMPTY"
    ELSE IF error # "NONE" THEN error
    ELSE IF argc # 0 THEN "ARGUMENTS_MISSING"
    ELSE IF state # "END" \/ unread THEN "MALFORMED"
    ELSE "NONE"

-----------------------------------------------------------------------------
(* What a line means, without a machine: fields of digits and underscores, *)
(* each ended by a space, each read by the places of its digits.           *)

Scale[n \in Nat] == IF n = 0 THEN 1 ELSE Base * Scale[n - 1]

Spaces(text) == {p \in DOMAIN text : text[p] = Space}
Before(text, p) == Cardinality({q \in Spaces(text) : q < p})
Field(text, i) == {p \in DOMAIN text \ Spaces(text) : Before(text, p) = i - 1}
DigitsOf(text, i) == {p \in Field(text, i) : text[p] \in Digits}
Place(text, i, p) == text[p] * Scale[Cardinality({q \in DigitsOf(text, i) : q > p})]
Value(text, i) == SumFunction([p \in DigitsOf(text, i) |-> Place(text, i, p)])

Numeric(i) == \A p \in Field(tail, i) : tail[p] # Other
InRange(i) == Value(tail, i) <= Limits(command)[i]

Complete ==
    /\ tail # <<>> /\ tail[Len(tail)] = Space
    /\ IF Params = 0 THEN Len(tail) = 1 ELSE Cardinality(Spaces(tail)) = Params

Legal ==
    /\ command \in Commands /\ Complete
    /\ \A i \in 1 .. Params : Numeric(i) /\ InRange(i)

\* The decoder accepts the lines that have a meaning and no others, and stores that
\* meaning, to the last value of every width; an argument with no digits is 0
\* (decoder.c:45-94, 136-321).
DecodesExactly ==
    /\ Result = "NONE" <=> Legal
    /\ Legal => \A i \in 1 .. Params : args[i] = Value(tail, i)

\* Every refusal names its cause: an overflow is a value too large in the field that
\* is read, a missing argument a missing field (decoder.c:82-91, 256-321).
RefusesForCause ==
    LET last == Cardinality(Spaces(tail)) + 1
    IN  /\ error = "INTEGER_OVERFLOW" => Numeric(last) /\ ~InRange(last)
        /\ error = "INVALID_INTEGER" => ~Numeric(last)
        /\ error = "EXPECTED_NEW_LINE" => Params = 0 /\ last = 1
        /\ Result = "ARGUMENTS_MISSING" => last <= Params

=============================================================================
