-------------------------------- MODULE Codec --------------------------------
(***************************************************************************)
(* The text of the TCP protocol: how LetDD writes a request                *)
(* (tcp/request.go, uint128.go), how LetDB writes a response               *)
(* (network/response/encoder.c) and how LetDD reads it (tcp/response.go).  *)
(* A request is the bytes the Decoder reads, its newline the space the     *)
(* server makes of it; a response is its kind and the hexadecimal digits   *)
(* of its fields.                                                          *)
(***************************************************************************)
EXTENDS Decoder, Errors, SequencesExt

CONSTANTS ChunkDigits,                          \* 18, in uint128.Bytes
          Nibble,                               \* 16
          U8Size, U16Size, U64Size, U128Size,   \* bytes
          Capacity                              \* LET_NETWORK_BUFFER_LENGTH

Byte == Nibble * Nibble
ByteScale[n \in Nat] == IF n = 0 THEN 1 ELSE Byte * ByteScale[n - 1]

ASSUME CodecAssumption ==
    /\ ChunkDigits \in Nat \ {0} /\ Nibble \in Nat \ {0, 1} /\ Capacity \in Nat
    /\ {U8Size, U16Size, U64Size, U128Size} \subseteq Nat \ {0}
    /\ U8Max = ByteScale[U8Size] - 1 /\ U16Max = ByteScale[U16Size] - 1
    /\ U64Max = ByteScale[U64Size] - 1 /\ U128Max = ByteScale[U128Size] - 1
    /\ U128Max + 1 = (U64Max + 1) * (U64Max + 1)

\* The longest response, of an account, fits, and so does every other (server.h:22).
ASSUME CapacityAssumption ==
    /\ 4 + (2 * U128Size + 1) + (2 * U128Size + 1) + 2 * U8Size <= Capacity
    /\ 4 + (2 * U64Size + 1) + 2 * U64Size <= Capacity
    /\ 4 + 2 * U16Size <= Capacity

-----------------------------------------------------------------------------
(* Request.Encode.                                                         *)

\* %d
TextOf[n \in Nat] == IF n < Base THEN <<n>> ELSE Append(TextOf[n \div Base], n % Base)

Chunk == Scale[ChunkDigits]
Padded(n) == [i \in 1 .. ChunkDigits |-> (n \div Scale[ChunkDigits - i]) % Base]

\* Mutant: a chunk is not padded with zeros (uint128.go:39-48).
String_Unpadded(number) ==
    LET text[n \in Nat] ==
            IF n < Chunk THEN TextOf[n] ELSE text[n \div Chunk] \o TextOf[n % Chunk]
    IN  text[number]

\* A chunk of digits at a time, lowest first, each padded unless it is the last.
String(number) ==
    LET text[n \in Nat] ==
            IF n < Chunk THEN TextOf[n] ELSE text[n \div Chunk] \o Padded(n % Chunk)
    IN  text[number]

\* What follows the command: each number with the space or newline after it.
Encode(c, values) ==
    LET text(i) == IF Limits(c)[i] = U128Max THEN String(values[i]) ELSE TextOf[values[i]]
    IN  IF values = <<>> THEN <<Space>>
        ELSE FlattenSeq([i \in DOMAIN values |-> Append(text(i), Space)])

-----------------------------------------------------------------------------
(* let_network_response_encode.                                            *)

ByteOf(value, i) == (value \div ByteScale[i - 1]) % Byte     \* from the low end

\* Mutant: zero bytes are skipped down to none (encoder.c:171).
Kept_SkipsAll(value, size) == Max({0} \cup {i \in 1 .. size : ByteOf(value, i) # 0})

\* Leading zero bytes are skipped, all but one.
Kept(value, size) == Max({1} \cup {i \in 1 .. size : ByteOf(value, i) # 0})

RunInteger(value, size) ==
    LET skip == Kept(value, size)
        pair(b) == <<b \div Nibble, b % Nibble>>
    IN  FlattenSeq([i \in 1 .. skip |-> pair(ByteOf(value, skip + 1 - i))])

Sizes(kind) ==
    CASE kind = "AID" -> <<U64Size>>
      [] kind = "ACC" -> <<U128Size, U128Size, U8Size>>
      [] kind = "LEN" -> <<U64Size, U64Size>>
      [] kind = "ERR" -> <<U16Size>>
      [] OTHER -> <<>>

\* The kind and a space, then the fields, with a space between two.
LengthBefore(fields, i) == 4 + MapThenSumSet(LAMBDA j : Len(fields[j]) + 1, 1 .. i - 1)

\* A response is cut off where its next integer does not fit.
EncodeResponse(r) ==
    LET fields == [i \in DOMAIN r.values |-> RunInteger(r.values[i], Sizes(r.kind)[i])]
    IN  IF \A i \in DOMAIN fields : LengthBefore(fields, i) + Len(fields[i]) <= Capacity
        THEN [kind |-> r.kind, fields |-> fields, error |-> "NONE"]
        ELSE [kind |-> r.kind, fields |-> <<>>, error |-> "RESPONSE_BUFFER_OVERFLOW"]

-----------------------------------------------------------------------------
(* ParseResponse.                                                          *)

Widths(kind) ==
    CASE kind = "AID" -> <<U64Max>>
      [] kind = "ACC" -> <<U128Max, U128Max, U8Max>>
      [] kind = "LEN" -> <<U64Max, U64Max>>
      [] kind = "ERR" -> <<U16Max>>
      [] OTHER -> <<>>

Hexadecimal(text) == FoldLeft(LAMBDA n, d : n * Nibble + d, 0, text)

Malformed == [kind |-> "malformed", values |-> <<>>]

\* The number of fields, and each read by strconv.ParseUint or uint128.Parse.
ParseResponse(line) ==
    IF /\ Len(line.fields) = Len(Widths(line.kind))
       /\ \A i \in DOMAIN line.fields :
            line.fields[i] # <<>> /\ Hexadecimal(line.fields[i]) <= Widths(line.kind)[i]
    THEN [kind |-> line.kind,
          values |-> [i \in DOMAIN line.fields |-> Hexadecimal(line.fields[i])]]
    ELSE Malformed

\* uint128.Parse on the numbers of a JSON body: no number below 0 is refused, and
\* its halves are read without the sign.
ParseAmount(n) ==
    LET half == U64Max + 1
        high == IF n >= 0 THEN n \div half ELSE (U64Max - n) \div half
    IN  (high % half) * half + (n % half)

=============================================================================
