---------------------------- MODULE Gateway_proof ----------------------------
(***************************************************************************)
(* Theorems of Decoder, of Codec, of Supervisor and of Gateway, which      *)
(* composes them: lines are read as what they mean, requests and answers   *)
(* survive their text, delays keep their bounds and tokens what they       *)
(* permit, in any base, for any widths and for lines of any length.        *)
(***************************************************************************)
EXTENDS Gateway, Induction, SequenceTheorems

-----------------------------------------------------------------------------
(* The decoder.                                                            *)

\* Each request has at most four arguments, each with a limit.
LEMMA LimitsType ==
    ASSUME NEW c
    PROVE  /\ Len(Limits(c)) \in Nat
           /\ \A i \in 1 .. Len(Limits(c)) : Limits(c)[i] \in Nat
BY DecoderAssumption DEF Limits

\* A byte read makes the line longer by one.
LEMMA ReadType ==
    ASSUME TypeOK, NEW b \in Bytes, Read(b)
    PROVE  tail' \in Seq(Bytes) /\ Len(tail') <= MaxLine
BY DecoderAssumption, AppendProperties, LenProperties DEF TypeOK, Read

\* The argument that is read is one of the request's.
LEMMA CurrentType ==
    ASSUME TypeOK, argc > 0
    PROVE  Current \in 1 .. Params
BY LimitsType DEF TypeOK, Current, Params

LEMMA SpecialBytes == Space \in Bytes /\ Underscore \in Bytes /\ Other \in Bytes
BY DecoderAssumption DEF Bytes, Space, Underscore, Other

\* A digit that passes the checks leaves the argument within its width.
LEMMA DigitType ==
    ASSUME TypeOK, NEW b \in Bytes, TakeDigit(b)
    PROVE  TypeOK'
<1> DEFINE i == Current
<1>1. i \in 1 .. Params
  BY CurrentType DEF TakeDigit
<1>2. /\ DOMAIN args = 1 .. Params
      /\ args[i] \in Nat /\ Limits(command)[i] \in Nat
  BY <1>1, LimitsType DEF TypeOK, Params
<1>3. args[i] * Base + b \in 0 .. Limits(command)[i]
  <2>1. b \in Nat /\ Base \in Nat
    BY DecoderAssumption DEF TakeDigit, Digits
  <2>2. args[i] * Base \in Nat
    BY <1>2, <2>1
  <2>3. args[i] * Base + b <= Limits(command)[i]
    BY DEF TakeDigit, Fits
  <2> QED
    BY <1>2, <2>1, <2>2, <2>3
<1>4. /\ DOMAIN args' = DOMAIN args
      /\ \A j \in DOMAIN args : args'[j] = IF j = i THEN args[i] * Base + b ELSE args[j]
  BY <1>1, <1>2 DEF TakeDigit
<1>5. /\ command' = command /\ Params' = Params
      /\ state' = state /\ argc' = argc /\ unread' = unread /\ error' = error
  BY DEF TakeDigit, Params
<1>6. \A j \in DOMAIN args' : args'[j] \in 0 .. Limits(command')[j]
  BY <1>3, <1>4, <1>5 DEF TypeOK
<1>7. tail' \in Seq(Bytes) /\ Len(tail') <= MaxLine
  BY ReadType DEF TakeDigit
<1> QED
  BY <1>4, <1>5, <1>6, <1>7, <1>2 DEF TypeOK

\* A byte that changes no argument.
LEMMA OtherBytes ==
    ASSUME TypeOK, NEW b \in Bytes, Read(b), state # "COMMAND",
           UNCHANGED <<command, args>>,
           \/ UNCHANGED <<state, argc>>
           \/ argc > 1 /\ argc' = argc - 1 /\ state' = state /\ state # "END"
           \/ argc' = 0 /\ state' = "END",
           unread' \in BOOLEAN,
           error' \in {error, "EXPECTED_NEW_LINE", "INVALID_INTEGER", "INTEGER_OVERFLOW"}
    PROVE  TypeOK'
<1>1. tail' \in Seq(Bytes) /\ Len(tail') <= MaxLine
  BY ReadType
<1>2. command' = command /\ args' = args /\ Params' = Params /\ Params \in Nat
  BY LimitsType DEF Params
<1>3. /\ argc' \in 0 .. Params /\ (state' = "END" => argc' = 0)
      /\ state' \in {"ARGUMENT", "END"}
  BY <1>2 DEF TypeOK
<1>4. command \in Commands
  BY DEF TypeOK
<1>5. DOMAIN args = 1 .. Params /\ \A i \in DOMAIN args : args[i] \in 0 .. Limits(command)[i]
  BY DEF TypeOK
<1> QED
  BY <1>1, <1>2, <1>3, <1>4, <1>5 DEF TypeOK

\* A new decoder has its type.
LEMMA InitType ==
    ASSUME Init
    PROVE  TypeOK
<1>1. Params = 0
  BY DEF Init, Params, Limits
<1>2. DOMAIN args = {} /\ 1 .. Params = {}
  BY <1>1 DEF Init
<1>3. tail \in Seq(Bytes) /\ Len(tail) <= MaxLine
  BY DecoderAssumption, EmptySeq DEF Init
<1>4. "none" \notin Commands
  BY DEF Commands
<1>5. /\ DOMAIN args = 1 .. Params
      /\ \A i \in DOMAIN args : args[i] \in 0 .. Limits(command)[i]
      /\ argc \in 0 .. Params
  BY <1>1, <1>2 DEF Init
<1> QED
  BY <1>3, <1>4, <1>5 DEF Init, TypeOK

\* Every step of the decoder keeps its type.
LEMMA StepType ==
    ASSUME TypeOK, [Next]_vars
    PROVE  TypeOK'
<1>1. ASSUME NEW c \in Commands, RunCommand(c) PROVE TypeOK'
  <2>1. Params' = Len(Limits(c)) /\ Params' \in Nat
    BY <1>1, LimitsType DEF RunCommand, Params
  <2>2. \A i \in 1 .. Params' : args'[i] \in 0 .. Limits(command')[i]
    BY <1>1, <2>1, LimitsType DEF RunCommand
  <2>3. DOMAIN args' = 1 .. Params' /\ argc' \in 0 .. Params'
    BY <1>1, <2>1 DEF RunCommand
  <2> QED
    BY <1>1, <2>2, <2>3 DEF RunCommand, TypeOK
<1>2. CASE InvalidCommand
  <2>1. Params' = 0
    BY <1>2 DEF InvalidCommand, Params, Limits
  <2>2. Params = 0
    BY <1>2 DEF InvalidCommand, TypeOK, Params, Limits, Commands
  <2>3. "unknown" \notin Commands
    BY DEF Commands
  <2>4. DOMAIN args' = 1 .. Params' /\ 1 .. Params' = {}
    BY <1>2, <2>1, <2>2 DEF InvalidCommand, TypeOK
  <2>5. \A i \in DOMAIN args' : args'[i] \in 0 .. Limits(command')[i]
    BY <2>4
  <2>6. argc' \in 0 .. Params' /\ tail' \in Seq(Bytes) /\ Len(tail') <= MaxLine
    BY <1>2, <2>1, <2>2 DEF InvalidCommand, TypeOK
  <2> QED
    BY <1>2, <2>3, <2>4, <2>5, <2>6 DEF InvalidCommand, TypeOK
<1>3. ASSUME NEW b \in Bytes, TakeDigit(b) PROVE TypeOK'
  BY <1>3, DigitType
<1>4. ASSUME NEW b \in Bytes, Overflow(b) PROVE TypeOK'
  BY <1>4, OtherBytes DEF Overflow, Fail, TypeOK
<1>5. ASSUME NEW b \in Bytes, ExpectedNewLine(b) PROVE TypeOK'
  BY <1>5, OtherBytes DEF ExpectedNewLine, Fail, TypeOK
<1>6. ASSUME NEW b \in Bytes, Rest(b) PROVE TypeOK'
  BY <1>6, OtherBytes DEF Rest
<1>7. CASE SkipUnderscore
  BY <1>7, OtherBytes, SpecialBytes DEF SkipUnderscore, TypeOK
<1>8. CASE InvalidInteger
  BY <1>8, OtherBytes, SpecialBytes DEF InvalidInteger, Fail, TypeOK
<1>9. CASE NextArgument
  BY <1>9, OtherBytes, SpecialBytes DEF NextArgument, TypeOK
<1>10. CASE EndOfLine
  BY <1>10, OtherBytes, SpecialBytes DEF EndOfLine, TypeOK
<1>11. CASE UNCHANGED vars
  BY <1>11 DEF vars, TypeOK, Params
<1> QED
  BY <1>1, <1>2, <1>3, <1>4, <1>5, <1>6, <1>7, <1>8, <1>9, <1>10, <1>11
    DEF Next, Decided

\* The decoder's type: every argument stays within its width (decoder.c:256-321).
THEOREM TypeCorrect == Spec => []TypeOK
BY InitType, StepType, PTL DEF Spec

-----------------------------------------------------------------------------
(* What a line means when one more byte is read.                           *)

LEMMA ScaleIs ==
    /\ Scale[0] = 1
    /\ \A n \in Nat : Scale[n] \in Nat /\ Scale[n + 1] = Base * Scale[n]
<1>1. Scale = CHOOSE f : f = [n \in Nat |-> IF n = 0 THEN 1 ELSE Base * f[n - 1]]
  BY DEF Scale
<1>2. Base \in Nat
  BY DecoderAssumption
<1> QED
  BY <1>1, <1>2, PowersOf

LEMMA Appended ==
    ASSUME NEW t \in Seq(Bytes), NEW b \in Bytes, NEW u, u = Append(t, b)
    PROVE  /\ Len(t) \in Nat /\ DOMAIN t = 1 .. Len(t)
           /\ u \in Seq(Bytes) /\ Len(u) = Len(t) + 1 /\ DOMAIN u = 1 .. Len(t) + 1
           /\ u[Len(t) + 1] = b /\ \A p \in 1 .. Len(t) : u[p] = t[p]
           /\ Len(t) + 1 \notin 1 .. Len(t) /\ DOMAIN u = DOMAIN t \cup {Len(t) + 1}
<1>1. Len(t) \in Nat /\ DOMAIN t = 1 .. Len(t)
  BY LenProperties
<1>2. /\ u \in Seq(Bytes) /\ Len(u) = Len(t) + 1
      /\ u[Len(t) + 1] = b /\ \A p \in 1 .. Len(t) : u[p] = t[p]
  BY AppendProperties
<1>3. DOMAIN u = 1 .. Len(t) + 1
  BY <1>2, LenProperties
<1>4. \A n \in Nat : n + 1 \notin 1 .. n /\ 1 .. n + 1 = (1 .. n) \cup {n + 1}
  OBVIOUS
<1> QED
  BY <1>1, <1>2, <1>3, <1>4

LEMMA LineFinite ==
    ASSUME NEW t \in Seq(Bytes)
    PROVE  /\ IsFiniteSet(Spaces(t)) /\ Cardinality(Spaces(t)) \in Nat
           /\ \A i : IsFiniteSet(DigitsOf(t, i))
<1>1. DOMAIN t = 1 .. Len(t) /\ Len(t) \in Nat
  BY LenProperties
<1>2. IsFiniteSet(1 .. Len(t))
  BY <1>1, FS_Interval
<1>3. Spaces(t) \subseteq 1 .. Len(t) /\ \A i : DigitsOf(t, i) \subseteq 1 .. Len(t)
  BY <1>1 DEF Spaces, DigitsOf, Field
<1> QED
  BY <1>2, <1>3, FS_Subset, FS_CardinalityType

\* The spaces of a longer line, and how many of them are before a byte.
LEMMA SpacesAfter ==
    ASSUME NEW t \in Seq(Bytes), NEW b \in Bytes, NEW u, u = Append(t, b)
    PROVE  /\ Spaces(u) = IF b = Space THEN Spaces(t) \cup {Len(t) + 1} ELSE Spaces(t)
           /\ Cardinality(Spaces(u))
                = IF b = Space THEN Cardinality(Spaces(t)) + 1 ELSE Cardinality(Spaces(t))
           /\ \A p \in DOMAIN t : Before(u, p) = Before(t, p)
           /\ Before(u, Len(t) + 1) = Cardinality(Spaces(t))
<1> DEFINE n == Len(t)
<1>1. /\ n \in Nat /\ DOMAIN t = 1 .. n /\ DOMAIN u = DOMAIN t \cup {n + 1}
      /\ n + 1 \notin 1 .. n /\ u[n + 1] = b /\ \A p \in 1 .. n : u[p] = t[p]
  BY Appended
<1>2. IsFiniteSet(Spaces(t)) /\ n + 1 \notin Spaces(t)
  BY <1>1, LineFinite DEF Spaces
<1> HIDE DEF n
<1>3. Spaces(u) = IF b = Space THEN Spaces(t) \cup {n + 1} ELSE Spaces(t)
  BY <1>1 DEF Spaces
<1>4. Cardinality(Spaces(t) \cup {n + 1}) = Cardinality(Spaces(t)) + 1
  BY <1>2, FS_AddElement
<1>5. \A q \in Spaces(t) : q \in 1 .. n
  BY <1>1 DEF Spaces
<1>6. ASSUME NEW p \in 1 .. n PROVE Before(u, p) = Before(t, p)
  <2>1. ~(n + 1 < p)
    BY <1>1
  <2>2. {q \in Spaces(u) : q < p} = {q \in Spaces(t) : q < p}
    BY <1>3, <2>1
  <2> QED
    BY <2>2 DEF Before
<1>7. Before(u, n + 1) = Cardinality(Spaces(t))
  <2>1. ~(n + 1 < n + 1) /\ \A q \in 1 .. n : q < n + 1
    BY <1>1
  <2>2. {q \in Spaces(u) : q < n + 1} = Spaces(t)
    BY <1>3, <1>5, <2>1
  <2> QED
    BY <2>2 DEF Before
<1> QED
  BY <1>1, <1>3, <1>4, <1>6, <1>7 DEF n

\* A byte that is not a space belongs to the last field.
LEMMA FieldAfter ==
    ASSUME NEW t \in Seq(Bytes), NEW b \in Bytes, NEW u, u = Append(t, b), NEW i \in Int
    PROVE  Field(u, i) = IF b # Space /\ i = Cardinality(Spaces(t)) + 1
                         THEN Field(t, i) \cup {Len(t) + 1} ELSE Field(t, i)
<1> DEFINE n == Len(t)
           c == Cardinality(Spaces(t))
<1>1. /\ n \in Nat /\ DOMAIN t = 1 .. n /\ DOMAIN u = DOMAIN t \cup {n + 1}
      /\ n + 1 \notin 1 .. n /\ u[n + 1] = b /\ c \in Nat
  BY Appended, LineFinite
<1>2. /\ Spaces(u) = IF b = Space THEN Spaces(t) \cup {n + 1} ELSE Spaces(t)
      /\ \A p \in DOMAIN t : Before(u, p) = Before(t, p)
      /\ Before(u, n + 1) = c
  <2>1. Spaces(u) = IF b = Space THEN Spaces(t) \cup {n + 1} ELSE Spaces(t)
    BY SpacesAfter
  <2>2. /\ \A p \in DOMAIN t : Before(u, p) = Before(t, p)
        /\ Before(u, Len(t) + 1) = Cardinality(Spaces(t))
    <3> HIDE DEF n, c
    <3> QED
      BY SpacesAfter, ZenonT(60)
  <2> QED
    BY <2>1, <2>2
<1>3. n + 1 \notin Spaces(t)
  BY <1>1 DEF Spaces
<1> HIDE DEF n, c
<1>4. ASSUME NEW p PROVE p \in Field(u, i) <=> \/ p \in Field(t, i)
                                               \/ p = n + 1 /\ b # Space /\ c = i - 1
  <2>1. CASE p = n + 1
    BY <1>1, <1>2, <1>3, <2>1 DEF Field
  <2>2. CASE p # n + 1
    BY <1>1, <1>2, <2>2 DEF Field
  <2> QED
    BY <2>1, <2>2
<1>5. c = i - 1 <=> i = c + 1
  BY <1>1
<1>6. Field(u, i) = IF b # Space /\ i = c + 1 THEN Field(t, i) \cup {n + 1} ELSE Field(t, i)
  BY <1>4, <1>5
<1> QED
  BY <1>6 DEF n, c

LEMMA DigitsAfter ==
    ASSUME NEW t \in Seq(Bytes), NEW b \in Bytes, NEW u, u = Append(t, b), NEW i \in Int
    PROVE  /\ DigitsOf(u, i) = IF b \in Digits /\ i = Cardinality(Spaces(t)) + 1
                               THEN DigitsOf(t, i) \cup {Len(t) + 1} ELSE DigitsOf(t, i)
           /\ DigitsOf(t, i) \subseteq 1 .. Len(t)
<1> DEFINE n == Len(t)
           c == Cardinality(Spaces(t))
<1>1. /\ DOMAIN t = 1 .. n /\ n + 1 \notin 1 .. n
      /\ u[n + 1] = b /\ \A p \in 1 .. n : u[p] = t[p]
  BY Appended
<1>2. Field(u, i) = IF b # Space /\ i = c + 1 THEN Field(t, i) \cup {n + 1} ELSE Field(t, i)
  BY FieldAfter
<1>3. Space \notin Digits
  BY DecoderAssumption DEF Space, Digits
<1>4. Field(t, i) \subseteq 1 .. n
  BY <1>1 DEF Field
<1> HIDE DEF n, c
<1>5. DigitsOf(u, i) = IF b \in Digits /\ i = c + 1 THEN DigitsOf(t, i) \cup {n + 1} ELSE DigitsOf(t, i)
  BY <1>1, <1>2, <1>3, <1>4 DEF DigitsOf
<1>6. DigitsOf(t, i) \subseteq 1 .. n
  BY <1>4 DEF DigitsOf
<1> QED
  BY <1>5, <1>6 DEF n, c

LEMMA PlaceType ==
    ASSUME NEW t \in Seq(Bytes), NEW i, NEW p \in DigitsOf(t, i)
    PROVE  Place(t, i, p) \in Int
<1>1. Cardinality({q \in DigitsOf(t, i) : q > p}) \in Nat
  BY LineFinite, FS_Subset, FS_CardinalityType
<1>2. t[p] \in Nat
  BY DecoderAssumption DEF DigitsOf, Digits
<1>3. Scale[Cardinality({q \in DigitsOf(t, i) : q > p})] \in Nat
  BY <1>1, ScaleIs
<1> QED
  BY <1>2, <1>3 DEF Place

\* A line has a value, by the sum over a field's digits.
LEMMA ValueIs ==
    ASSUME NEW t \in Seq(Bytes), NEW i, NEW f, \A p \in DigitsOf(t, i) : f[p] = Place(t, i, p)
    PROVE  /\ Value(t, i) = SumFunctionOnSet(f, DigitsOf(t, i)) /\ Value(t, i) \in Int
           /\ \A p \in DigitsOf(t, i) : f[p] \in Int
<1> DEFINE D == DigitsOf(t, i)
           g == [p \in D |-> Place(t, i, p)]
<1>1. IsFiniteSet(D) /\ \A p \in D : Place(t, i, p) \in Int
  BY LineFinite, PlaceType
<1>2. Value(t, i) = SumFunctionOnSet(g, D)
  BY DEF Value, SumFunction
<1>3. \A p \in D : g[p] = f[p] /\ f[p] \in Int
  BY <1>1
<1> HIDE DEF g, D
<1>4. SumFunctionOnSet(g, D) = SumFunctionOnSet(f, D)
  BY <1>3, SumOfEqual
<1>5. SumFunctionOnSet(f, D) \in Int
  BY <1>1, <1>3, SumWithout
<1> QED
  BY <1>2, <1>3, <1>4, <1>5 DEF D

\* A byte that is no digit of a field leaves its value.
LEMMA ValueSame ==
    ASSUME NEW t \in Seq(Bytes), NEW b \in Bytes, NEW u, u = Append(t, b), NEW i \in Int,
           b \in Digits => i # Cardinality(Spaces(t)) + 1
    PROVE  Value(u, i) = Value(t, i)
<1> DEFINE D == DigitsOf(t, i)
           f == [p \in D |-> Place(t, i, p)]
<1>1. DigitsOf(u, i) = D /\ D \subseteq 1 .. Len(t)
  BY DigitsAfter
<1>2. u \in Seq(Bytes) /\ \A p \in 1 .. Len(t) : u[p] = t[p]
  BY Appended
<1>3. \A p \in D : Place(u, i, p) = Place(t, i, p)
  BY <1>1, <1>2 DEF Place
<1>4. (\A p \in DigitsOf(t, i) : f[p] = Place(t, i, p)) /\ \A p \in DigitsOf(u, i) : f[p] = Place(u, i, p)
  BY <1>1, <1>3
<1> HIDE DEF f
<1>5. Value(t, i) = SumFunctionOnSet(f, DigitsOf(t, i))
  BY <1>4, ValueIs
<1>6. Value(u, i) = SumFunctionOnSet(f, DigitsOf(u, i))
  BY <1>2, <1>4, ValueIs
<1> QED
  BY <1>1, <1>5, <1>6

\* A digit b that makes the text u of the text t is one of the last field.
DigitBehind(t, b, u, i) ==
    /\ t \in Seq(Bytes) /\ b \in Digits /\ u = Append(t, b)
    /\ i = Cardinality(Spaces(t)) + 1

\* A digit of a field comes after the places of those before it.
LEMMA ValueMore ==
    ASSUME NEW t, NEW b, NEW u, NEW i, DigitBehind(t, b, u, i)
    PROVE  Value(u, i) = Value(t, i) * Base + b /\ Value(t, i) \in Int
<1>0. /\ t \in Seq(Bytes) /\ b \in Digits /\ b \in Bytes /\ u = Append(t, b)
      /\ i = Cardinality(Spaces(t)) + 1 /\ i \in Int
  <2>1. b \in Bytes
    BY DecoderAssumption DEF DigitBehind, Digits, Bytes
  <2>2. Cardinality(Spaces(t)) \in Nat
    BY LineFinite DEF DigitBehind
  <2> QED
    BY <2>1, <2>2 DEF DigitBehind
<1> DEFINE n == Len(t)
           D == DigitsOf(t, i)
           E == DigitsOf(u, i)
           f == [p \in D |-> Place(t, i, p)]
           g == [p \in E |-> Place(u, i, p)]
<1>1. /\ n \in Nat /\ n + 1 \notin 1 .. n /\ u \in Seq(Bytes)
      /\ u[n + 1] = b /\ \A p \in 1 .. n : u[p] = t[p]
  BY <1>0, Appended
<1>2. E = D \cup {n + 1} /\ D \subseteq 1 .. n
  BY <1>0, DigitsAfter
<1>3. /\ \A p \in D : f[p] = Place(t, i, p)
      /\ \A p \in E : g[p] = Place(u, i, p)
  OBVIOUS
<1>4. IsFiniteSet(D) /\ IsFiniteSet(E)
  BY <1>0, <1>1, LineFinite
<1>5. b \in Int /\ Base \in Int
  BY <1>0, DecoderAssumption DEF Digits
<1> HIDE DEF f, g, n
<1>6. /\ Value(t, i) = SumFunctionOnSet(f, D) /\ Value(t, i) \in Int /\ \A p \in D : f[p] \in Int
      /\ Value(u, i) = SumFunctionOnSet(g, E) /\ Value(u, i) \in Int /\ \A p \in E : g[p] \in Int
  BY <1>0, <1>1, <1>3, ValueIs
<1>7. g[n + 1] = b
  <2>1. {q \in E : q > n + 1} = {}
    BY <1>1, <1>2
  <2>2. Cardinality({q \in DigitsOf(u, i) : q > n + 1}) = 0
    BY <2>1, FS_EmptySet
  <2>3. Place(u, i, n + 1) = b * 1
    BY <1>1, <2>2, ScaleIs DEF Place
  <2> QED
    BY <1>2, <1>3, <1>5, <2>3
<1>8. ASSUME NEW p \in D PROVE g[p] = Base * f[p]
  <2> DEFINE R == {q \in D : q > p}
  <2>1. IsFiniteSet(R) /\ n + 1 \notin R
    BY <1>1, <1>2, <1>4, FS_Subset
  <2>2. {q \in DigitsOf(u, i) : q > p} = R \cup {n + 1}
    BY <1>1, <1>2
  <2>3. Cardinality(R) \in Nat /\ Cardinality(R \cup {n + 1}) = Cardinality(R) + 1
    <3> HIDE DEF R
    <3> QED
      BY <2>1, FS_AddElement, FS_CardinalityType
  <2>4. R = {q \in DigitsOf(t, i) : q > p}
    OBVIOUS
  <2>5. t[p] \in Int /\ u[p] = t[p]
    <3>1. p \in 1 .. n
      BY <1>2
    <3>2. t[p] \in Int
      BY DecoderAssumption DEF DigitsOf, Digits
    <3> QED
      BY <1>1, <3>1, <3>2
  <2> HIDE DEF R
  <2>6. f[p] = t[p] * Scale[Cardinality(R)] /\ g[p] = u[p] * Scale[Cardinality(R) + 1]
    BY <1>2, <1>3, <2>2, <2>3, <2>4 DEF Place
  <2>7. PICK c \in Int : c = Scale[Cardinality(R)] /\ Scale[Cardinality(R) + 1] = Base * c
    BY <2>3, ScaleIs
  <2>8. t[p] * (Base * c) = Base * (t[p] * c)
    BY <1>5, <2>5, <2>7
  <2> QED
    BY <2>5, <2>6, <2>7, <2>8
<1>9. SumFunctionOnSet(g, D) = Base * SumFunctionOnSet(f, D)
  <2> HIDE DEF D
  <2> QED
    BY <1>4, <1>5, <1>6, <1>8, SumScaled
<1>10. SumFunctionOnSet(g, E) = g[n + 1] + SumFunctionOnSet(g, E \ {n + 1})
  <2>1. n + 1 \in E
    BY <1>2
  <2> HIDE DEF E
  <2> QED
    BY <1>4, <1>6, <2>1, SumWithout
<1>11. E \ {n + 1} = D
  BY <1>1, <1>2
<1>12. PICK v \in Int : v = Value(t, i)
  BY <1>6
<1>13. Value(u, i) = b + Base * v
  BY <1>6, <1>7, <1>9, <1>10, <1>11, <1>12
<1>14. b + Base * v = v * Base + b
  BY <1>5
<1> QED
  BY <1>6, <1>12, <1>13, <1>14

-----------------------------------------------------------------------------
(* The decoder against what a line means.  ReadWell relates the machine to *)
(* the bytes it has read: the fields behind it have the values of the      *)
(* arguments, the field it is in is the one after the spaces it has seen,  *)
(* and an error was caused by the last byte.                               *)

LastField == Cardinality(Spaces(tail)) + 1

ArgumentsRead ==
    command \in Commands /\ error = "NONE" /\ ~unread =>
        \A i \in 1 .. Params : Numeric(i) /\ args[i] = Value(tail, i)

FieldsCounted ==
    command \in Commands /\ error = "NONE" /\ ~unread =>
        IF state = "END" THEN Complete
        ELSE IF argc = 0 THEN Params = 0 /\ tail = <<>> ELSE LastField = Current

ErrorsCaused ==
    /\ unread => /\ state = "END" /\ ~Complete
                 /\ IF Params = 0 THEN Len(tail) > 1 ELSE Cardinality(Spaces(tail)) >= Params
    /\ error = "INVALID_COMMAND" => command \notin Commands
    /\ error \in {"INTEGER_OVERFLOW", "INVALID_INTEGER"} => LastField \in 1 .. Params
    /\ error = "INTEGER_OVERFLOW" => Numeric(LastField) /\ ~InRange(LastField)
    /\ error = "INVALID_INTEGER" => ~Numeric(LastField)
    /\ error = "EXPECTED_NEW_LINE" =>
         Params = 0 /\ LastField = 1 /\ tail # <<>> /\ tail[Len(tail)] # Space

ReadWell ==
    /\ command \notin Commands => tail = <<>>
    /\ ArgumentsRead
    /\ FieldsCounted
    /\ ErrorsCaused

\* A line of no bytes has no fields, and every value in it is 0.
LEMMA EmptyLine ==
    /\ Spaces(<<>>) = {} /\ Cardinality(Spaces(<<>>)) = 0
    /\ \A i : Field(<<>>, i) = {} /\ Value(<<>>, i) = 0
<1>1. DOMAIN <<>> = {} /\ <<>> \in Seq(Bytes)
  BY EmptySeq
<1>2. Spaces(<<>>) = {} /\ \A i : Field(<<>>, i) = {}
  BY <1>1 DEF Spaces, Field
<1>3. ASSUME NEW i PROVE Value(<<>>, i) = 0
  <2> DEFINE f == [p \in DigitsOf(<<>>, i) |-> Place(<<>>, i, p)]
  <2>1. DigitsOf(<<>>, i) = {}
    BY <1>2 DEF DigitsOf
  <2>2. \A p \in DigitsOf(<<>>, i) : f[p] = Place(<<>>, i, p)
    OBVIOUS
  <2> HIDE DEF f
  <2>3. Value(<<>>, i) = SumFunctionOnSet(f, {})
    BY <1>1, <2>1, <2>2, ValueIs
  <2> QED
    BY <2>3, SumOfNone
<1> QED
  BY <1>2, <1>3, FS_EmptySet

\* What one more byte does to the line of the decoder.
LEMMA LineRead ==
    ASSUME TypeOK, NEW b \in Bytes, Read(b), command' = command
    PROVE  /\ Params' = Params /\ Limits(command') = Limits(command)
           /\ tail' # <<>> /\ tail'[Len(tail')] = b /\ Len(tail') = Len(tail) + 1
           /\ Len(tail) \in Nat /\ LastField \in Nat /\ LastField >= 1
           /\ LastField' = IF b = Space THEN LastField + 1 ELSE LastField
           /\ \A i \in Int : Numeric(i)' <=> Numeric(i) /\ ~(b = Other /\ i = LastField)
           /\ \A i \in Int : ~(b \in Digits /\ i = LastField) => Value(tail', i) = Value(tail, i)
           /\ b \in Digits => Value(tail', LastField) = Value(tail, LastField) * Base + b
<1>1. tail \in Seq(Bytes) /\ tail' = Append(tail, b)
  BY DEF TypeOK, Read
<1>2. /\ Len(tail) \in Nat /\ DOMAIN tail = 1 .. Len(tail)
      /\ tail' \in Seq(Bytes) /\ Len(tail') = Len(tail) + 1
      /\ tail'[Len(tail) + 1] = b /\ \A p \in 1 .. Len(tail) : tail'[p] = tail[p]
      /\ Len(tail) + 1 \notin 1 .. Len(tail)
  BY <1>1, Appended
<1>3. tail' # <<>>
  <2>1. Len(<<>>) = 0
    BY EmptySeq
  <2> QED
    BY <1>2, <2>1
<1>4. Cardinality(Spaces(tail)) \in Nat /\ LastField \in Nat /\ LastField >= 1
  BY <1>1, LineFinite DEF LastField
<1>5. Cardinality(Spaces(tail')) = IF b = Space THEN Cardinality(Spaces(tail)) + 1
                                   ELSE Cardinality(Spaces(tail))
  BY <1>1, SpacesAfter
<1>6. LastField' = IF b = Space THEN LastField + 1 ELSE LastField
  BY <1>4, <1>5 DEF LastField
<1>7. Other # Space
  BY DecoderAssumption DEF Other, Space
<1>8. ASSUME NEW i \in Int
      PROVE  Numeric(i)' <=> Numeric(i) /\ ~(b = Other /\ i = LastField)
  <2>1. Field(tail', i) = IF b # Space /\ i = LastField
                          THEN Field(tail, i) \cup {Len(tail) + 1} ELSE Field(tail, i)
    BY <1>1, FieldAfter DEF LastField
  <2>2. Field(tail, i) \subseteq 1 .. Len(tail)
    BY <1>2 DEF Field
  <2> QED
    BY <1>2, <1>7, <2>1, <2>2 DEF Numeric
<1>9. ASSUME NEW i \in Int, ~(b \in Digits /\ i = LastField)
      PROVE  Value(tail', i) = Value(tail, i)
  BY <1>1, <1>9, ValueSame DEF LastField
<1>10. ASSUME b \in Digits
       PROVE  Value(tail', LastField) = Value(tail, LastField) * Base + b
  <2>1. DigitBehind(tail, b, tail', LastField)
    BY <1>1, <1>10 DEF DigitBehind, LastField
  <2> QED
    BY <2>1, ValueMore
<1>11. Params' = Params /\ Limits(command') = Limits(command)
  BY DEF Params
<1> QED
  BY <1>2, <1>3, <1>4, <1>6, <1>8, <1>9, <1>10, <1>11

\* A digit that fails the checks of parse_u128 and of the narrower readers makes the
\* argument larger than its limit, and one that passes them does not.
LEMMA FitsExactly ==
    ASSUME NEW value \in Nat, NEW digit \in Nat, NEW limit \in Nat, limit <= U128Max
    PROVE  Fits(value, digit, limit) <=> value * Base + digit <= limit
<1>1. Base \in Nat \ {0} /\ U128Max \in Nat
  BY DecoderAssumption
<1> DEFINE q == U128Max \div Base
           r == U128Max % Base
<1>2. q \in Int /\ r \in 0 .. Base - 1 /\ U128Max = q * Base + r
  BY <1>1, Division
<1>3. PICK x \in Int : x = value * Base
  BY <1>1
<1> HIDE DEF q, r
<1>4. ASSUME value > q PROVE x > U128Max
  <2>1. (value - q - 1) * Base >= 0
    <3>1. value - q - 1 \in Nat
      BY <1>2, <1>4
    <3> QED
      BY <1>1, <3>1
  <2>2. (value - q - 1) * Base = value * Base - q * Base - Base
    BY <1>1, <1>2
  <2>3. PICK y \in Int : y = q * Base
    BY <1>1, <1>2
  <2>4. (value - q - 1) * Base = x - y - Base
    BY <1>3, <2>2, <2>3
  <2> QED
    BY <1>1, <1>2, <1>3, <2>1, <2>3, <2>4
<1>5. CASE value <= q
  BY <1>1, <1>3, <1>5 DEF Fits, q
<1>6. CASE ~(value <= q)
  <2>1. ~Fits(value, digit, limit)
    BY <1>6 DEF Fits, q
  <2>2. x > U128Max
    BY <1>2, <1>4, <1>6
  <2> QED
    BY <1>1, <1>3, <2>1, <2>2
<1> QED
  BY <1>5, <1>6

\* No argument is wider than 128 bits.
LEMMA LimitsBound ==
    ASSUME NEW c, NEW i \in 1 .. Len(Limits(c))
    PROVE  Limits(c)[i] \in Nat /\ Limits(c)[i] <= U128Max
BY DecoderAssumption DEF Limits

\* What is kept where the line has grown and no error and no end was met.
LEMMA ReadOn ==
    ASSUME TypeOK, ReadWell, NEW b \in Bytes, Read(b), command' = command,
           command \in Commands, unread' = unread, ~unread, error' = "NONE"
    PROVE  /\ command' \notin Commands => tail' = <<>>
           /\ ErrorsCaused'
           /\ \A i \in 1 .. Params : Numeric(i) /\ args[i] = Value(tail, i)
           /\ 1 .. Params \subseteq Int /\ Params' = Params
<1>1. Params' = Params /\ 1 .. Params \subseteq Int
  BY LineRead, LimitsType DEF Params
<1>2. \A i \in 1 .. Params : Numeric(i) /\ args[i] = Value(tail, i)
  BY DEF ReadWell, ArgumentsRead, Read
<1> QED
  BY <1>1, <1>2 DEF ErrorsCaused

\* A digit that fits.
LEMMA DigitRead ==
    ASSUME TypeOK, ReadWell, NEW b \in Bytes, TakeDigit(b)
    PROVE  ReadWell'
<1>0. /\ Read(b) /\ command' = command /\ command \in Commands /\ error' = "NONE"
      /\ b \in Digits /\ argc > 0 /\ state = "ARGUMENT" /\ state' = state /\ argc' = argc
      /\ unread' = unread /\ ~unread
  BY DEF TakeDigit, Read, TypeOK, ReadWell, ErrorsCaused
<1>1. LastField = Current /\ Current \in 1 .. Params
  BY <1>0, CurrentType DEF ReadWell, FieldsCounted, Read
<1>2. b # Space /\ b # Other
  BY <1>0, DecoderAssumption DEF Digits, Space, Other
<1>3. /\ command' \notin Commands => tail' = <<>>
      /\ ErrorsCaused'
      /\ \A i \in 1 .. Params : Numeric(i) /\ args[i] = Value(tail, i)
      /\ 1 .. Params \subseteq Int /\ Params' = Params
  BY <1>0, ReadOn
<1>4. ArgumentsRead'
  <2>1. ASSUME NEW i \in 1 .. Params PROVE Numeric(i)' /\ args'[i] = Value(tail', i)
    <3>1. i \in Int /\ Numeric(i)'
      BY <1>0, <1>2, <1>3, LineRead
    <3>2. CASE i = Current
      <4>1. args'[i] = args[i] * Base + b
        BY <1>1, <3>2 DEF TakeDigit, TypeOK
      <4>2. Value(tail', i) = Value(tail, i) * Base + b
        BY <1>0, <1>1, <3>2, LineRead
      <4> QED
        BY <1>3, <3>1, <4>1, <4>2
    <3>3. CASE i # Current
      <4>1. args'[i] = args[i]
        BY <3>3 DEF TakeDigit, TypeOK
      <4>2. Value(tail', i) = Value(tail, i)
        BY <1>0, <1>1, <3>1, <3>3, LineRead
      <4> QED
        BY <1>3, <3>1, <4>1, <4>2
    <3> QED
      BY <3>2, <3>3
  <2> QED
    BY <1>3, <2>1 DEF ArgumentsRead
<1>5. FieldsCounted'
  <2>1. LastField' = LastField
    BY <1>0, <1>2, LineRead
  <2>2. Current' = Current
    BY <1>0, <1>3 DEF Current
  <2> QED
    BY <1>0, <1>1, <2>1, <2>2 DEF FieldsCounted
<1> QED
  BY <1>3, <1>4, <1>5 DEF ReadWell

\* An underscore, or the space between two arguments.
LEMMA SeparatorRead ==
    ASSUME TypeOK, ReadWell, SkipUnderscore \/ NextArgument
    PROVE  ReadWell'
<1> DEFINE b == IF SkipUnderscore THEN Underscore ELSE Space
<1>0. /\ b \in Bytes /\ b \notin Digits /\ b # Other
      /\ Read(b) /\ command' = command /\ command \in Commands /\ error' = "NONE"
      /\ argc > 0 /\ state = "ARGUMENT" /\ state' = state /\ args' = args
      /\ unread' = unread /\ ~unread
  BY SpecialBytes, DecoderAssumption
    DEF SkipUnderscore, NextArgument, Read, TypeOK, ReadWell, ErrorsCaused, Digits, Space, Underscore, Other
<1>1. argc' = (IF b = Space THEN argc - 1 ELSE argc) /\ argc' > 0 /\ argc \in Nat
  BY DecoderAssumption DEF SkipUnderscore, NextArgument, Space, Underscore, TypeOK
<1>2. LastField = Current
  BY <1>0 DEF ReadWell, FieldsCounted, Read
<1> HIDE DEF b
<1>3. /\ command' \notin Commands => tail' = <<>>
      /\ ErrorsCaused'
      /\ \A i \in 1 .. Params : Numeric(i) /\ args[i] = Value(tail, i)
      /\ 1 .. Params \subseteq Int /\ Params' = Params
  BY <1>0, ReadOn
<1>4. ArgumentsRead'
  <2>1. ASSUME NEW i \in 1 .. Params PROVE Numeric(i)' /\ args'[i] = Value(tail', i)
    <3>1. i \in Int /\ Numeric(i)'
      BY <1>0, <1>3, LineRead
    <3>2. Value(tail', i) = Value(tail, i)
      BY <1>0, <3>1, LineRead
    <3> QED
      BY <1>0, <1>3, <3>1, <3>2
  <2> QED
    BY <1>3, <2>1 DEF ArgumentsRead
<1>5. FieldsCounted'
  <2>1. LastField' = IF b = Space THEN LastField + 1 ELSE LastField
    BY <1>0, LineRead
  <2>2. Current' = Params - argc' + 1 /\ Current = Params - argc + 1 /\ Params \in Nat
    BY <1>3, LimitsType DEF Current, Params
  <2>3. LastField' = Current'
    BY <1>1, <1>2, <2>1, <2>2
  <2> QED
    BY <1>0, <1>1, <2>3 DEF FieldsCounted
<1> QED
  BY <1>3, <1>4, <1>5 DEF ReadWell

\* The space that ends a request completes it.
LEMMA EndRead ==
    ASSUME TypeOK, ReadWell, EndOfLine
    PROVE  ReadWell'
<1>0. /\ Space \in Bytes /\ Space \notin Digits /\ Space # Other
      /\ Read(Space) /\ command' = command /\ command \in Commands /\ error' = "NONE"
      /\ argc \in {0, 1} /\ state = "ARGUMENT" /\ state' = "END" /\ argc' = 0 /\ args' = args
      /\ unread' = unread /\ ~unread
  BY SpecialBytes, DecoderAssumption
    DEF EndOfLine, Read, TypeOK, ReadWell, ErrorsCaused, Digits, Space, Other
<1>1. /\ command' \notin Commands => tail' = <<>>
      /\ ErrorsCaused'
      /\ \A i \in 1 .. Params : Numeric(i) /\ args[i] = Value(tail, i)
      /\ 1 .. Params \subseteq Int /\ Params' = Params
  BY <1>0, ReadOn
<1>2. ArgumentsRead'
  <2>1. ASSUME NEW i \in 1 .. Params PROVE Numeric(i)' /\ args'[i] = Value(tail', i)
    <3>1. i \in Int /\ Numeric(i)'
      BY <1>0, <1>1, LineRead
    <3>2. Value(tail', i) = Value(tail, i)
      BY <1>0, <3>1, LineRead
    <3> QED
      BY <1>0, <1>1, <3>1, <3>2
  <2> QED
    BY <1>1, <2>1 DEF ArgumentsRead
<1>3. Complete'
  <2>1. /\ tail' # <<>> /\ tail'[Len(tail')] = Space /\ Len(tail') = Len(tail) + 1
        /\ LastField' = LastField + 1 /\ LastField \in Nat
    BY <1>0, LineRead
  <2>2. CASE argc = 0
    <3>1. Params = 0 /\ tail = <<>>
      BY <1>0, <2>2 DEF ReadWell, FieldsCounted, Read
    <3>2. Len(tail') = 1
      BY <2>1, <3>1, EmptySeq
    <3> QED
      BY <1>1, <2>1, <3>1, <3>2 DEF Complete
  <2>3. CASE argc = 1
    <3>1. LastField = Params - 1 + 1 /\ Params \in Nat
      BY <1>0, <2>3, LimitsType DEF ReadWell, FieldsCounted, Read, Current, Params
    <3>2. Params # 0
      BY <2>3 DEF TypeOK
    <3>3. Cardinality(Spaces(tail')) \in Nat
      <4>1. tail' \in Seq(Bytes)
        BY <1>0, ReadType
      <4> QED
        BY <4>1, LineFinite
    <3>4. Cardinality(Spaces(tail')) = Params
      BY <2>1, <3>1, <3>3 DEF LastField
    <3> QED
      BY <1>1, <2>1, <3>2, <3>4 DEF Complete
  <2> QED
    BY <1>0, <2>2, <2>3
<1>4. FieldsCounted'
  BY <1>0, <1>3 DEF FieldsCounted
<1> QED
  BY <1>1, <1>2, <1>4 DEF ReadWell

\* A digit that does not fit makes a number that is too large.
LEMMA OverflowRead ==
    ASSUME TypeOK, ReadWell, NEW b \in Bytes, Overflow(b)
    PROVE  ReadWell'
<1>0. /\ Read(b) /\ command' = command /\ command \in Commands /\ error = "NONE"
      /\ error' = "INTEGER_OVERFLOW"
      /\ b \in Digits /\ argc > 0 /\ state = "ARGUMENT" /\ unread' = unread /\ ~unread
  BY DEF Overflow, Fail, Read, TypeOK, ReadWell, ErrorsCaused
<1>1. LastField = Current /\ Current \in 1 .. Params
  BY <1>0, CurrentType DEF ReadWell, FieldsCounted
<1>2. b # Space /\ b # Other /\ b \in Nat /\ Base \in Nat
  BY <1>0, DecoderAssumption DEF Digits, Space, Other
<1>3. /\ LastField' = LastField /\ Params' = Params /\ LastField \in Int
      /\ Limits(command') = Limits(command)
  BY <1>0, <1>2, LineRead
<1>4. Numeric(LastField) /\ args[LastField] = Value(tail, LastField)
  BY <1>0, <1>1 DEF ReadWell, ArgumentsRead
<1>5. Numeric(LastField)'
  <2>1. \A i \in Int : Numeric(i) => Numeric(i)'
    BY <1>0, <1>2, LineRead
  <2>2. PICK i \in Int : i = LastField /\ i = LastField'
    BY <1>3
  <2>3. Numeric(i)'
    BY <1>4, <2>1, <2>2
  <2> QED
    BY <2>2, <2>3 DEF Numeric
<1>6. ~InRange(LastField)'
  <2>1. PICK l \in Nat : l = Limits(command)[LastField] /\ l <= U128Max
    BY <1>1, LimitsBound DEF Params
  <2>2. PICK v \in Nat : v = args[LastField]
    <3>1. args[LastField] \in 0 .. Limits(command)[LastField]
      BY <1>1 DEF TypeOK
    <3> QED
      BY <2>1, <3>1
  <2>3. ~Fits(v, b, l)
    BY <1>1, <2>1, <2>2 DEF Overflow
  <2>4. ~(v * Base + b <= l)
    BY <1>2, <2>1, <2>3, FitsExactly
  <2>5. Value(tail', LastField') = v * Base + b
    BY <1>0, <1>3, <1>4, <2>2, LineRead
  <2> QED
    BY <1>3, <2>1, <2>4, <2>5 DEF InRange
<1> QED
  BY <1>0, <1>1, <1>3, <1>5, <1>6 DEF ReadWell, ArgumentsRead, FieldsCounted, ErrorsCaused

\* A byte that is no part of a number.
LEMMA InvalidRead ==
    ASSUME TypeOK, ReadWell, InvalidInteger
    PROVE  ReadWell'
<1>0. /\ Read(Other) /\ command' = command /\ command \in Commands /\ error = "NONE"
      /\ error' = "INVALID_INTEGER" /\ Other \in Bytes
      /\ argc > 0 /\ state = "ARGUMENT" /\ unread' = unread /\ ~unread
  BY SpecialBytes DEF InvalidInteger, Fail, Read, TypeOK, ReadWell, ErrorsCaused
<1>1. LastField = Current /\ Current \in 1 .. Params
  BY <1>0, CurrentType DEF ReadWell, FieldsCounted
<1>2. Other # Space
  BY DecoderAssumption DEF Space, Other
<1>3. LastField' = LastField /\ Params' = Params /\ LastField \in Int
  BY <1>0, <1>2, LineRead
<1>4. ~Numeric(LastField)'
  <2>1. \A i \in Int : i = LastField => ~Numeric(i)'
    BY <1>0, LineRead
  <2>2. PICK i \in Int : i = LastField /\ i = LastField'
    BY <1>3
  <2>3. ~Numeric(i)'
    BY <2>1, <2>2
  <2> QED
    BY <2>2, <2>3 DEF Numeric
<1> QED
  BY <1>0, <1>1, <1>3, <1>4 DEF ReadWell, ArgumentsRead, FieldsCounted, ErrorsCaused

\* A byte that follows a command without arguments and is no space.
LEMMA NoArgumentsRead ==
    ASSUME TypeOK, ReadWell, NEW b \in Bytes, ExpectedNewLine(b)
    PROVE  ReadWell'
<1>0. /\ Read(b) /\ command' = command /\ command \in Commands /\ error = "NONE"
      /\ error' = "EXPECTED_NEW_LINE" /\ b # Space
      /\ argc = 0 /\ state = "ARGUMENT" /\ unread' = unread /\ ~unread
  BY DEF ExpectedNewLine, Fail, Read, TypeOK, ReadWell, ErrorsCaused
<1>1. Params = 0 /\ tail = <<>>
  BY <1>0 DEF ReadWell, FieldsCounted
<1>2. LastField = 1
  BY <1>1, EmptyLine DEF LastField
<1>3. LastField' = 1 /\ Params' = 0
  BY <1>0, <1>1, <1>2, LineRead
<1>4. tail' # <<>> /\ tail'[Len(tail')] # Space
  BY <1>0, LineRead
<1> QED
  BY <1>0, <1>3, <1>4 DEF ReadWell, ArgumentsRead, FieldsCounted, ErrorsCaused

\* A byte that follows a complete request leaves it complete no longer.
LEMMA RestRead ==
    ASSUME TypeOK, ReadWell, NEW b \in Bytes, Rest(b)
    PROVE  ReadWell'
<1>0. /\ Read(b) /\ command' = command /\ command \in Commands /\ error = "NONE"
      /\ error' = "NONE" /\ state = "END" /\ state' = "END" /\ unread' = TRUE /\ ~unread
  BY DEF Rest, Read, TypeOK
<1>1. Complete
  BY <1>0 DEF ReadWell, FieldsCounted
<1>2. /\ tail'[Len(tail')] = b /\ Len(tail') = Len(tail) + 1 /\ Len(tail) \in Nat
      /\ LastField' = (IF b = Space THEN LastField + 1 ELSE LastField) /\ Params' = Params
      /\ LastField \in Nat
  BY <1>0, LineRead
<1>3. ASSUME Complete' PROVE FALSE
  <2>1. b = Space
    BY <1>2, <1>3 DEF Complete
  <2>2. CASE Params = 0
    <3>1. Len(tail) = 1 /\ Len(tail') = 1
      BY <1>1, <1>2, <1>3, <2>2 DEF Complete
    <3> QED
      BY <1>2, <3>1
  <2>3. CASE Params # 0
    <3>1. Cardinality(Spaces(tail)) = Params /\ Cardinality(Spaces(tail')) = Params
      BY <1>1, <1>2, <1>3, <2>3 DEF Complete
    <3>2. LastField = Params + 1 /\ LastField' = Params + 1
      BY <3>1 DEF LastField
    <3> QED
      BY <1>2, <2>1, <3>2
  <2> QED
    BY <2>2, <2>3
<1>4. IF Params' = 0 THEN Len(tail') > 1 ELSE Cardinality(Spaces(tail')) >= Params'
  <2>1. CASE Params = 0
    BY <1>1, <1>2, <2>1 DEF Complete
  <2>2. CASE Params # 0
    <3>1. Cardinality(Spaces(tail)) = Params /\ Params \in Nat
      BY <1>1, <2>2, LimitsType DEF Complete, Params
    <3>2. Cardinality(Spaces(tail')) \in Nat
      <4>1. tail' \in Seq(Bytes)
        BY <1>0, ReadType
      <4> QED
        BY <4>1, LineFinite
    <3> QED
      BY <1>2, <2>2, <3>1, <3>2 DEF LastField
  <2> QED
    BY <2>1, <2>2
<1> QED
  BY <1>0, <1>3, <1>4 DEF ReadWell, ArgumentsRead, FieldsCounted, ErrorsCaused

\* A new decoder has read nothing.
LEMMA NothingRead ==
    ASSUME tail = <<>>, error = "NONE", ~unread, command \notin Commands
    PROVE  ReadWell
BY DEF ReadWell, ArgumentsRead, FieldsCounted, ErrorsCaused

\* Every step of the decoder, and a new decoder, keep the meaning of the line.
LEMMA ReadStep ==
    ASSUME TypeOK, ReadWell, [Next]_vars \/ NewDecoder
    PROVE  ReadWell'
<1>1. ASSUME NEW c \in Commands, RunCommand(c) PROVE ReadWell'
  <2>1. tail' = <<>> /\ error' = "NONE" /\ unread' = unread /\ state' = "ARGUMENT" /\ ~unread
    BY <1>1 DEF RunCommand, TypeOK, ReadWell, ErrorsCaused
  <2>2. command' = c /\ Params' = Len(Limits(c)) /\ Params' \in Nat /\ argc' = Params'
    BY <1>1, LimitsType DEF RunCommand, Params
  <2>3. \A i \in 1 .. Params' : args'[i] = 0
    BY <1>1, <2>2 DEF RunCommand
  <2>4. LastField' = 1 /\ \A i : Field(tail', i) = {} /\ Value(tail', i) = 0
    BY <2>1, EmptyLine DEF LastField
  <2>5. ArgumentsRead'
    BY <2>3, <2>4 DEF ArgumentsRead, Numeric
  <2>6. FieldsCounted'
    BY <2>1, <2>2, <2>4 DEF FieldsCounted, Current
  <2> QED
    BY <2>1, <2>5, <2>6, <1>1, <2>2 DEF ReadWell, ErrorsCaused
<1>2. CASE InvalidCommand
  <2>1. "unknown" \notin Commands
    BY DEF Commands
  <2>2. tail' = <<>> /\ error' = "INVALID_COMMAND" /\ unread' = unread /\ ~unread
    BY <1>2 DEF InvalidCommand, TypeOK, ReadWell, ErrorsCaused
  <2> QED
    BY <1>2, <2>1, <2>2 DEF InvalidCommand, ReadWell, ArgumentsRead, FieldsCounted, ErrorsCaused
<1>3. ASSUME NEW b \in Bytes, TakeDigit(b) PROVE ReadWell'
  BY <1>3, DigitRead
<1>4. ASSUME NEW b \in Bytes, Overflow(b) PROVE ReadWell'
  BY <1>4, OverflowRead
<1>5. ASSUME NEW b \in Bytes, ExpectedNewLine(b) PROVE ReadWell'
  BY <1>5, NoArgumentsRead
<1>6. ASSUME NEW b \in Bytes, Rest(b) PROVE ReadWell'
  BY <1>6, RestRead
<1>7. CASE SkipUnderscore
  BY <1>7, SeparatorRead
<1>8. CASE InvalidInteger
  BY <1>8, InvalidRead
<1>9. CASE NextArgument
  BY <1>9, SeparatorRead
<1>10. CASE EndOfLine
  BY <1>10, EndRead
<1>11. CASE UNCHANGED vars
  BY <1>11 DEF vars, ReadWell, ArgumentsRead, FieldsCounted, ErrorsCaused, LastField, Current,
       Params, Numeric, InRange, Complete
<1>12. CASE NewDecoder
  <2>1. "none" \notin Commands
    BY DEF Commands
  <2> QED
    BY <1>12, <2>1 DEF NewDecoder, ReadWell, ArgumentsRead, FieldsCounted, ErrorsCaused
<1> QED
  BY <1>1, <1>2, <1>3, <1>4, <1>5, <1>6, <1>7, <1>8, <1>9, <1>10, <1>11, <1>12
    DEF Next, Decided

\* What ReadWell says of the answer.
LEMMA MeaningHolds ==
    ASSUME TypeOK, ReadWell
    PROVE  DecodesExactly /\ RefusesForCause
<1>0. Params \in Nat /\ (state = "END" <=> command \in Commands /\ state # "ARGUMENT")
  BY LimitsType DEF Params, TypeOK
<1>1. "none" \notin Commands /\ "unknown" \notin Commands
  BY DEF Commands
<1>2. ASSUME command \in Commands, error = "NONE", ~unread, state = "ARGUMENT"
      PROVE  ~Complete
  <2>1. CASE argc = 0
    BY <1>2, <2>1 DEF ReadWell, FieldsCounted, Complete
  <2>2. CASE argc # 0
    <3>1. argc \in 1 .. Params /\ Cardinality(Spaces(tail)) + 1 = Params - argc + 1
      BY <1>0, <1>2, <2>2 DEF ReadWell, FieldsCounted, LastField, Current, TypeOK
    <3>2. Cardinality(Spaces(tail)) \in Nat
      BY LineFinite DEF TypeOK
    <3>3. Params # 0 /\ Cardinality(Spaces(tail)) # Params
      BY <1>0, <3>1, <3>2
    <3> QED
      BY <3>3 DEF Complete
  <2> QED
    BY <2>1, <2>2
<1>3. ASSUME Legal PROVE error = "NONE" /\ ~unread /\ state = "END"
  <2>1. error = "NONE"
    BY <1>3 DEF Legal, Complete, ReadWell, ErrorsCaused, TypeOK
  <2>2. ~unread
    BY <1>3 DEF Legal, ReadWell, ErrorsCaused
  <2> QED
    BY <1>2, <1>3, <2>1, <2>2 DEF Legal, TypeOK
<1>4. ASSUME error = "NONE", ~unread, state = "END"
      PROVE  Legal /\ \A i \in 1 .. Params : args[i] = Value(tail, i)
  <2>1. command \in Commands
    BY <1>4 DEF TypeOK
  <2>2. Complete /\ \A i \in 1 .. Params : Numeric(i) /\ args[i] = Value(tail, i)
    BY <1>4, <2>1 DEF ReadWell, ArgumentsRead, FieldsCounted
  <2>3. \A i \in 1 .. Params : InRange(i)
    <3> SUFFICES ASSUME NEW i \in 1 .. Params PROVE InRange(i)
      OBVIOUS
    <3>1. args[i] \in 0 .. Limits(command)[i] /\ Limits(command)[i] \in Nat
      BY LimitsType DEF TypeOK, Params
    <3> QED
      BY <2>2, <3>1 DEF InRange
  <2> QED
    BY <2>1, <2>2, <2>3 DEF Legal
<1>5. Result = "NONE" <=> error = "NONE" /\ ~unread /\ state = "END"
  BY <1>1 DEF Result, TypeOK
<1>6. DecodesExactly
  BY <1>3, <1>4, <1>5 DEF DecodesExactly
<1>7. ASSUME Result = "ARGUMENTS_MISSING" PROVE LastField <= Params
  <2>1. command # "none" /\ error = "NONE" /\ argc # 0
    BY <1>7 DEF Result, TypeOK
  <2>2. command \in Commands
    <3>1. CASE command = "unknown"
      BY <2>1, <3>1 DEF TypeOK, Params, Limits
    <3> QED
      BY <2>1, <3>1 DEF TypeOK
  <2>3. state = "ARGUMENT" /\ ~unread
    BY <2>1, <2>2 DEF TypeOK, ReadWell, ErrorsCaused
  <2>4. LastField = Params - argc + 1 /\ argc \in 1 .. Params
    BY <1>0, <2>1, <2>2, <2>3 DEF ReadWell, FieldsCounted, Current, TypeOK
  <2> QED
    BY <1>0, <2>4
<1>8. RefusesForCause
  BY <1>7 DEF RefusesForCause, ReadWell, ErrorsCaused, LastField
<1> QED
  BY <1>6, <1>8

\* For bytes that come one at a time, in any base, for widths of any size and lines of any
\* length, the decoder accepts the lines that have a meaning and no others and stores that
\* meaning, and its refusals name their cause (decoder.c:45-94, 136-321).
THEOREM DecoderExact == Spec => [](DecodesExactly /\ RefusesForCause)
<1>1. Init => TypeOK /\ ReadWell
  <2>1. "none" \notin Commands
    BY DEF Commands
  <2> QED
    BY <2>1, InitType, NothingRead DEF Init
<1>2. TypeOK /\ ReadWell /\ [Next]_vars => (TypeOK /\ ReadWell)'
  BY StepType, ReadStep
<1>3. TypeOK /\ ReadWell => DecodesExactly /\ RefusesForCause
  BY MeaningHolds
<1> QED
  BY <1>1, <1>2, <1>3, PTL DEF Spec

-----------------------------------------------------------------------------
(* The text of a request: what recursion writes, and what the decoder sees *)
(* of it when it is read from the left.                                    *)

\* The quotient and the remainder of a natural number.
LEMMA Quotient ==
    ASSUME NEW n \in Nat, NEW c \in Nat \ {0}
    PROVE  /\ n \div c \in Nat /\ n % c \in 0 .. c - 1 /\ n = (n \div c) * c + (n % c)
           /\ n \div c <= n /\ (c > 1 /\ n >= c => n \div c < n)
           /\ (n < c => n \div c = 0 /\ n % c = n)
<1>1. PICK q \in Int, m \in 0 .. c - 1 : q = n \div c /\ m = n % c /\ n = q * c + m
  BY Division
<1>2. q >= 0
  <2>1. ASSUME q < 0 PROVE FALSE
    <3>1. q * c <= (0 - 1) * c
      BY <2>1
    <3> QED
      BY <1>1, <3>1
  <2> QED
    BY <2>1
<1>3. q * c >= q
  BY <1>2
<1>4. ASSUME c > 1 PROVE q * c >= q * 2
  BY <1>2, <1>4
<1>5. ASSUME n < c PROVE q = 0
  <2>1. ASSUME q >= 1 PROVE FALSE
    <3>1. q * c >= 1 * c
      BY <2>1
    <3> QED
      BY <1>1, <1>5, <3>1
  <2> QED
    BY <1>2, <2>1
<1> QED
  BY <1>1, <1>2, <1>3, <1>4, <1>5

\* A function that recurs to a quotient.
ByQuotient(V, c, a, G, f) ==
    /\ f \in [Nat -> V]
    /\ \A n \in Nat : f[n] = IF n < c THEN a[n] ELSE G[<<n, f[n \div c]>>]

LEMMA QuotientRecursion ==
    ASSUME NEW V, NEW c \in Nat \ {0, 1}, NEW a \in [Nat -> V], NEW G \in [Nat \X V -> V]
    PROVE  \E f : ByQuotient(V, c, a, G, f)
<1> DEFINE r == [n \in Nat |-> IF n < c THEN 0 ELSE n]
           p == [n \in Nat |-> n \div c]
<1>1. ASSUME NEW n \in Nat PROVE n \div c \in Nat /\ (n >= c => n \div c < n)
  <2>1. c \in Nat \ {0} /\ c > 1
    OBVIOUS
  <2> HIDE DEF r, p
  <2> QED
    BY <2>1, Quotient
<1>2. Descent(Nat, V, a, p, r, G)
  <2>1. r \in [Nat -> Nat] /\ p \in [Nat -> Nat]
    BY <1>1
  <2>2. ASSUME NEW n \in Nat, r[n] # 0 PROVE r[p[n]] < r[n]
    <3>1. n >= c /\ r[n] = n
      BY <2>2
    <3>2. PICK q \in Nat : q = n \div c /\ q < n
      BY <1>1, <3>1
    <3>3. p[n] = q /\ r[q] <= q
      BY <3>2
    <3> QED
      BY <3>1, <3>2, <3>3
  <2> HIDE DEF r, p
  <2> QED
    BY <2>1, <2>2 DEF Descent
<1>3. \A n \in Nat : (r[n] = 0 <=> n < c) /\ p[n] = n \div c
  OBVIOUS
<1> HIDE DEF r, p
<1>4. PICK f : Solution(Nat, V, a, p, r, G, f)
  BY <1>2, Recursion
<1>5. f \in [Nat -> V] /\ \A n \in Nat : f[n] = Step(a, p, r, G, f, n)
  BY <1>4 DEF Solution
<1>6. \A n \in Nat : f[n] = IF n < c THEN a[n] ELSE G[<<n, f[n \div c]>>]
  BY <1>3, <1>5 DEF Step
<1> QED
  BY <1>5, <1>6 DEF ByQuotient

\* A number has one quotient and one remainder.
LEMMA QuotientIs ==
    ASSUME NEW n \in Nat, NEW c \in Nat \ {0}, NEW q \in Nat, NEW m \in 0 .. c - 1, n = q * c + m
    PROVE  n \div c = q /\ n % c = m
<1>1. PICK x \in Nat, y \in 0 .. c - 1 : x = n \div c /\ y = n % c /\ n = x * c + y
  BY Quotient
<1>2. ASSUME x < q PROVE FALSE
  <2>1. x + 1 <= q
    BY <1>2
  <2>2. (x + 1) * c <= q * c
    BY <2>1
  <2> QED
    BY <1>1, <2>2
<1>3. ASSUME q < x PROVE FALSE
  <2>1. q + 1 <= x
    BY <1>3
  <2>2. (q + 1) * c <= x * c
    BY <2>1
  <2> QED
    BY <1>1, <2>2
<1>4. x = q
  BY <1>2, <1>3
<1> QED
  BY <1>1, <1>4

\* A quotient by a product, in two steps.
LEMMA QuotientTwice ==
    ASSUME NEW n \in Nat, NEW b \in Nat \ {0}, NEW c \in Nat \ {0}
    PROVE  n \div (b * c) = (n \div c) \div b
<1>1. PICK q \in Nat, m \in 0 .. c - 1 : q = n \div c /\ n = q * c + m
  BY Quotient
<1>2. PICK x \in Nat, y \in 0 .. b - 1 : x = q \div b /\ q = x * b + y
  BY Quotient
<1>3. n = x * (b * c) + (y * c + m)
  <2>1. n = (x * b + y) * c + m
    BY <1>1, <1>2
  <2> QED
    BY <2>1
<1>4. y * c + m \in 0 .. (b * c) - 1
  <2>1. y * c <= (b - 1) * c
    BY <1>2
  <2>2. (b - 1) * c = b * c - c
    OBVIOUS
  <2>3. y * c \in Nat /\ b * c \in Nat
    BY <1>2
  <2> QED
    BY <1>1, <2>1, <2>2, <2>3
<1>5. b * c \in Nat \ {0}
  OBVIOUS
<1>6. n \div (b * c) = x
  BY <1>3, <1>4, <1>5, QuotientIs
<1> QED
  BY <1>1, <1>2, <1>6

\* A text of k fields that are ended, with the values w, and a field of value v behind them.
Reads(t, k, w, v) ==
    /\ t \in Seq(Bytes) /\ \A p \in DOMAIN t : t[p] # Other
    /\ Cardinality(Spaces(t)) = k
    /\ \A i \in 1 .. k : Value(t, i) = w[i]
    /\ Value(t, k + 1) = v
    /\ \A i \in Int : i > k + 1 => Value(t, i) = 0

LEMMA ReadsNothing ==
    ASSUME NEW w
    PROVE  Reads(<<>>, 0, w, 0)
BY EmptyLine, EmptySeq DEF Reads

\* No byte but Other is appended, and none is taken away.
LEMMA NoOther ==
    ASSUME NEW t \in Seq(Bytes), \A p \in DOMAIN t : t[p] # Other, NEW b \in Bytes, b # Other
    PROVE  \A p \in DOMAIN Append(t, b) : Append(t, b)[p] # Other
<1>1. PICK u : u = Append(t, b)
  OBVIOUS
<1>2. /\ DOMAIN u = DOMAIN t \cup {Len(t) + 1} /\ u[Len(t) + 1] = b
      /\ DOMAIN t = 1 .. Len(t) /\ \A p \in 1 .. Len(t) : u[p] = t[p]
  BY <1>1, Appended
<1> QED
  BY <1>1, <1>2

LEMMA ReadsDigit ==
    ASSUME NEW t, NEW k \in Nat, NEW w, NEW v \in Nat, Reads(t, k, w, v), NEW b \in Digits
    PROVE  Reads(Append(t, b), k, w, v * Base + b)
<1>0. /\ t \in Seq(Bytes) /\ (\A p \in DOMAIN t : t[p] # Other) /\ Cardinality(Spaces(t)) = k
      /\ (\A i \in 1 .. k : Value(t, i) = w[i]) /\ Value(t, k + 1) = v
      /\ \A i \in Int : i > k + 1 => Value(t, i) = 0
  BY DEF Reads
<1>1. b \in Bytes /\ b # Space /\ b # Other
  BY DecoderAssumption DEF Digits, Bytes, Space, Other
<1>2. PICK u : u = Append(t, b)
  OBVIOUS
<1>3. u \in Seq(Bytes) /\ \A p \in DOMAIN u : u[p] # Other
  BY <1>0, <1>1, <1>2, AppendProperties, NoOther
<1>4. Cardinality(Spaces(u)) = k
  BY <1>0, <1>1, <1>2, SpacesAfter
<1>5. \A i \in Int : i # k + 1 => Value(u, i) = Value(t, i)
  BY <1>0, <1>1, <1>2, ValueSame
<1>6. Value(u, k + 1) = v * Base + b
  <2>1. DigitBehind(t, b, u, k + 1)
    BY <1>0, <1>2 DEF DigitBehind
  <2> QED
    BY <1>0, <2>1, ValueMore
<1>7. \A i \in 1 .. k : Value(u, i) = w[i]
  BY <1>0, <1>5
<1>8. \A i \in Int : i > k + 1 => Value(u, i) = 0
  BY <1>0, <1>5
<1> QED
  BY <1>2, <1>3, <1>4, <1>6, <1>7, <1>8 DEF Reads

LEMMA ReadsSpace ==
    ASSUME NEW t, NEW k \in Nat, NEW w, Reads(t, k, w, w[k + 1])
    PROVE  Reads(Append(t, Space), k + 1, w, 0)
<1>0. /\ t \in Seq(Bytes) /\ (\A p \in DOMAIN t : t[p] # Other) /\ Cardinality(Spaces(t)) = k
      /\ (\A i \in 1 .. k : Value(t, i) = w[i]) /\ Value(t, k + 1) = w[k + 1]
      /\ \A i \in Int : i > k + 1 => Value(t, i) = 0
  BY DEF Reads
<1>1. Space \in Bytes /\ Space \notin Digits /\ Space # Other
  BY DecoderAssumption DEF Digits, Bytes, Space, Other
<1>2. PICK u : u = Append(t, Space)
  OBVIOUS
<1>3. u \in Seq(Bytes) /\ \A p \in DOMAIN u : u[p] # Other
  BY <1>0, <1>1, <1>2, AppendProperties, NoOther
<1>4. Cardinality(Spaces(u)) = k + 1
  BY <1>0, <1>1, <1>2, SpacesAfter
<1>5. \A i \in Int : Value(u, i) = Value(t, i)
  BY <1>0, <1>1, <1>2, ValueSame
<1>6. \A i \in 1 .. k + 1 : Value(u, i) = w[i]
  <2> SUFFICES ASSUME NEW i \in 1 .. k + 1 PROVE Value(u, i) = w[i]
    OBVIOUS
  <2>1. i \in 1 .. k \/ i = k + 1
    OBVIOUS
  <2> QED
    BY <1>0, <1>5, <2>1
<1>7. \A i \in Int : i > k + 1 => Value(u, i) = 0
  BY <1>0, <1>5
<1>8. (k + 1) + 1 \in Int /\ (k + 1) + 1 > k + 1 /\ \A i \in Int : i > (k + 1) + 1 => i > k + 1
  OBVIOUS
<1>9. Value(u, (k + 1) + 1) = 0
  BY <1>7, <1>8
<1> QED
  BY <1>2, <1>3, <1>4, <1>6, <1>7, <1>8, <1>9 DEF Reads

LEMMA ScaleSum ==
    ASSUME NEW m \in Nat, NEW n \in Nat
    PROVE  Scale[m + n] = Scale[m] * Scale[n] /\ Scale[m] \in Nat /\ Scale[n] \in Nat
<1>0. Base \in Nat /\ Scale[m] \in Nat
  BY ScaleIs, DecoderAssumption
<1> DEFINE S == {x \in Nat : Scale[m + x] = Scale[m] * Scale[x]}
<1>1. 0 \in S
  BY <1>0, ScaleIs
<1>2. ASSUME NEW x \in Nat, x \in S PROVE x + 1 \in S
  <2>1. Scale[x + 1] = Base * Scale[x] /\ Scale[x] \in Nat
    BY ScaleIs
  <2>2. Scale[(m + x) + 1] = Base * Scale[m + x] /\ m + (x + 1) = (m + x) + 1
    <3>1. m + x \in Nat
      OBVIOUS
    <3> QED
      BY <3>1, ScaleIs
  <2>3. PICK a \in Nat, b \in Nat : a = Scale[m] /\ b = Scale[x]
    BY <1>0, <2>1
  <2>4. Base * (a * b) = a * (Base * b)
    BY <1>0
  <2> QED
    BY <1>2, <2>1, <2>2, <2>3, <2>4
<1>3. Nat \subseteq S
  <2> HIDE DEF S
  <2> QED
    BY <1>1, <1>2, NatInduct
<1> QED
  BY <1>0, <1>3, ScaleIs

\* The digits d show the number n wherever they are read.
Shows(d, n) ==
    /\ d \in Seq(Digits) /\ n \in Nat
    /\ \A t \in Seq(Bytes), k \in Nat, v \in Nat : \A w :
         Reads(t, k, w, v) => Reads(t \o d, k, w, v * Scale[Len(d)] + n)

LEMMA Written ==
    ASSUME NEW d, NEW n, Shows(d, n), NEW t, NEW k \in Nat, NEW w, NEW v \in Nat, Reads(t, k, w, v)
    PROVE  Reads(t \o d, k, w, v * Scale[Len(d)] + n)
BY DEF Shows, Reads

LEMMA ShowsNothing == Shows(<<>>, 0)
<1>1. <<>> \in Seq(Digits) /\ Len(<<>>) = 0
  BY EmptySeq
<1>2. ASSUME NEW t \in Seq(Bytes), NEW k \in Nat, NEW v \in Nat, NEW w, Reads(t, k, w, v)
      PROVE  Reads(t \o <<>>, k, w, v * Scale[Len(<<>>)] + 0)
  <2>1. t \o <<>> = t
    BY ConcatEmptySeq
  <2>2. v * Scale[Len(<<>>)] + 0 = v
    BY <1>1, ScaleIs
  <2> QED
    BY <1>2, <2>1, <2>2
<1> QED
  BY <1>1, <1>2 DEF Shows

LEMMA DigitBytes == Digits \subseteq Bytes /\ Seq(Digits) \subseteq Seq(Bytes)
<1>1. Digits \subseteq Bytes
  BY DecoderAssumption DEF Digits, Bytes
<1> QED
  BY <1>1, SeqMonotonic

LEMMA AppendLast ==
    ASSUME NEW S, NEW t \in Seq(S), NEW d \in Seq(S), NEW b \in S
    PROVE  t \o Append(d, b) = Append(t \o d, b)
<1>1. <<b>> \in Seq(S) /\ Append(d, b) = d \o <<b>>
  BY AppendIsConcat
<1>2. t \o d \in Seq(S) /\ Append(t \o d, b) = (t \o d) \o <<b>>
  BY ConcatProperties, AppendIsConcat
<1> QED
  BY <1>1, <1>2, ConcatAssociative

LEMMA ShowsMore ==
    ASSUME NEW d, NEW n, Shows(d, n), NEW b \in Digits
    PROVE  Shows(Append(d, b), n * Base + b)
<1>0. d \in Seq(Digits) /\ n \in Nat /\ d \in Seq(Bytes) /\ b \in Bytes
  BY DigitBytes DEF Shows
<1>1. /\ Append(d, b) \in Seq(Digits) /\ Len(Append(d, b)) = Len(d) + 1
      /\ Len(d) \in Nat /\ n * Base + b \in Nat /\ b \in Nat /\ Base \in Nat
  BY <1>0, AppendProperties, LenProperties, DecoderAssumption DEF Digits
<1>2. ASSUME NEW t \in Seq(Bytes), NEW k \in Nat, NEW v \in Nat, NEW w, Reads(t, k, w, v)
      PROVE  Reads(t \o Append(d, b), k, w, v * Scale[Len(Append(d, b))] + (n * Base + b))
  <2>1. PICK s \in Nat : s = Scale[Len(d)] /\ Scale[Len(Append(d, b))] = Base * s
    BY <1>1, ScaleIs
  <2>2. PICK x \in Nat : x = v * s + n
    BY <1>0
  <2>3. Reads(t \o d, k, w, x)
    BY <1>2, <2>1, <2>2, Written
  <2>4. Reads(Append(t \o d, b), k, w, x * Base + b)
    BY <2>3, ReadsDigit
  <2>5. x * Base + b = v * (Base * s) + (n * Base + b)
    <3>1. (v * s + n) * Base = v * (Base * s) + n * Base
      BY <1>0, <1>1
    <3>2. v * (Base * s) \in Nat /\ n * Base \in Nat
      BY <1>0, <1>1
    <3> QED
      BY <1>1, <2>2, <3>1, <3>2
  <2>6. t \o Append(d, b) = Append(t \o d, b)
    BY <1>0, AppendLast
  <2> QED
    BY <2>1, <2>4, <2>5, <2>6
<1> QED
  BY <1>1, <1>2 DEF Shows

LEMMA ShowsBoth ==
    ASSUME NEW d, NEW n, Shows(d, n), NEW e, NEW m, Shows(e, m)
    PROVE  Shows(d \o e, n * Scale[Len(e)] + m)
<1>0. /\ d \in Seq(Digits) /\ n \in Nat /\ d \in Seq(Bytes)
      /\ e \in Seq(Digits) /\ m \in Nat /\ e \in Seq(Bytes)
  BY DigitBytes DEF Shows
<1>1. /\ d \o e \in Seq(Digits) /\ Len(d \o e) = Len(d) + Len(e)
      /\ Len(d) \in Nat /\ Len(e) \in Nat
  BY <1>0, ConcatProperties, LenProperties
<1>2. PICK x \in Nat, y \in Nat : x = Scale[Len(d)] /\ y = Scale[Len(e)]
                                    /\ Scale[Len(d \o e)] = x * y
  <2>1. PICK a \in Nat, b \in Nat : a = Len(d) /\ b = Len(e) /\ Len(d \o e) = a + b
    BY <1>1
  <2>2. Scale[a + b] = Scale[a] * Scale[b] /\ Scale[a] \in Nat /\ Scale[b] \in Nat
    BY ScaleSum
  <2> QED
    BY <2>1, <2>2
<1>3. n * y + m \in Nat
  BY <1>0
<1>4. ASSUME NEW t \in Seq(Bytes), NEW k \in Nat, NEW v \in Nat, NEW w, Reads(t, k, w, v)
      PROVE  Reads(t \o (d \o e), k, w, v * (x * y) + (n * y + m))
  <2>1. PICK z \in Nat : z = v * x + n
    BY <1>0
  <2>2. Reads(t \o d, k, w, z)
    BY <1>2, <1>4, <2>1, Written
  <2>3. Reads((t \o d) \o e, k, w, z * y + m)
    BY <1>2, <2>2, Written
  <2>4. z * y + m = v * (x * y) + (n * y + m)
    <3>1. (v * x + n) * y = v * (x * y) + n * y
      BY <1>0
    <3>2. v * (x * y) \in Nat /\ n * y \in Nat
      BY <1>0
    <3> QED
      BY <1>0, <2>1, <3>1, <3>2
  <2>5. t \o (d \o e) = (t \o d) \o e
    <3>1. t \in Seq(Bytes) /\ d \in Seq(Bytes) /\ e \in Seq(Bytes)
      BY <1>0
    <3> QED
      BY <3>1, ConcatAssociative
  <2> QED
    BY <2>3, <2>4, <2>5
<1> QED
  BY <1>1, <1>2, <1>3, <1>4 DEF Shows

\* %d, a digit at a time.
LEMMA TextUnfolded ==
    ASSUME NEW n \in Nat
    PROVE  TextOf[n] = IF n < Base THEN <<n>> ELSE Append(TextOf[n \div Base], n % Base)
<1> DEFINE V == Seq(Nat)
           A(f) == [k \in Nat |-> IF k < Base THEN <<k>> ELSE Append(f[k \div Base], k % Base)]
           a == [k \in Nat |-> <<k>>]
           G == [y \in Nat \X V |-> Append(y[2], y[1] % Base)]
<1>0. Base \in Nat \ {0, 1} /\ Base \in Nat \ {0}
  BY DecoderAssumption
<1>1. a \in [Nat -> V]
  OBVIOUS
<1>2. G \in [Nat \X V -> V] /\ \A k \in Nat, t \in V : G[<<k, t>>] = Append(t, k % Base)
  <2>1. ASSUME NEW k \in Nat, NEW t \in Seq(Nat) PROVE Append(t, k % Base) \in Seq(Nat)
    <3>1. k % Base \in Nat
      BY <1>0, Quotient
    <3> QED
      BY <3>1, AppendProperties
  <2> QED
    BY <2>1
<1>3. \A k \in Nat : a[k] = <<k>>
  OBVIOUS
<1> HIDE DEF V, a, G
<1>4. PICK f : ByQuotient(V, Base, a, G, f)
  BY <1>0, <1>1, <1>2, QuotientRecursion
<1>5. f \in [Nat -> V] /\ \A k \in Nat : f[k] = IF k < Base THEN a[k] ELSE G[<<k, f[k \div Base]>>]
  BY <1>4 DEF ByQuotient
<1>6. ASSUME NEW k \in Nat
      PROVE  f[k] = IF k < Base THEN <<k>> ELSE Append(f[k \div Base], k % Base)
  <2>1. k \div Base \in Nat
    BY <1>0, Quotient
  <2> QED
    BY <1>2, <1>3, <1>5, <2>1
<1>7. f = [k \in Nat |-> f[k]]
  BY <1>5
<1>8. f = A(f)
  BY <1>6, <1>7
<1>9. TextOf = CHOOSE g : g = A(g)
  BY DEF TextOf
<1>10. TextOf = A(TextOf)
  <2> HIDE DEF A
  <2> QED
    BY <1>8, <1>9
<1>11. A(TextOf)[n] = IF n < Base THEN <<n>> ELSE Append(TextOf[n \div Base], n % Base)
  OBVIOUS
<1> HIDE DEF A
<1> QED
  BY <1>10, <1>11

\* A single digit.
LEMMA ShowsDigit ==
    ASSUME NEW b \in Digits
    PROVE  Shows(<<b>>, b)
<1>1. Shows(Append(<<>>, b), 0 * Base + b)
  BY ShowsNothing, ShowsMore
<1>2. Append(<<>>, b) = <<b>>
  OBVIOUS
<1>3. 0 * Base + b = b
  BY DecoderAssumption DEF Digits
<1> QED
  BY <1>1, <1>2, <1>3

\* Every number is shown by its text.
LEMMA TextShows ==
    ASSUME NEW n \in Nat
    PROVE  Shows(TextOf[n], n)
<1> DEFINE S == {k \in Nat : \A m \in Nat : m <= k => Shows(TextOf[m], m)}
<1>0. Base \in Nat \ {0} /\ Base > 1
  BY DecoderAssumption
<1>1. ASSUME NEW m \in Nat, \A l \in Nat : l < m => Shows(TextOf[l], l)
      PROVE  Shows(TextOf[m], m)
  <2>0. TextOf[m] = IF m < Base THEN <<m>> ELSE Append(TextOf[m \div Base], m % Base)
    BY TextUnfolded
  <2>1. CASE m < Base
    <3>1. TextOf[m] = <<m>> /\ m \in Digits
      BY <1>0, <2>0, <2>1 DEF Digits
    <3> QED
      BY <3>1, ShowsDigit
  <2>2. CASE m >= Base
    <3>1. PICK q \in Nat, b \in 0 .. Base - 1 :
              q = m \div Base /\ b = m % Base /\ m = q * Base + b /\ q < m
      BY <1>0, <2>2, Quotient
    <3>2. TextOf[m] = Append(TextOf[q], b)
      <4>1. ~ (m < Base)
        BY <1>0, <2>2
      <4>2. m \div Base = q /\ m % Base = b
        BY <3>1
      <4> QED
        BY <2>0, <4>1, <4>2
    <3>3. Shows(TextOf[q], q) /\ b \in Digits
      BY <1>1, <3>1 DEF Digits
    <3>4. Shows(Append(TextOf[q], b), q * Base + b)
      BY <3>3, ShowsMore
    <3> QED
      BY <3>1, <3>2, <3>4
  <2> QED
    BY <1>0, <2>1, <2>2
<1>2. 0 \in S
  <2> SUFFICES ASSUME NEW m \in Nat, m <= 0 PROVE Shows(TextOf[m], m)
    OBVIOUS
  <2>1. \A l \in Nat : ~(l < m)
    OBVIOUS
  <2> QED
    BY <1>1, <2>1
<1>3. ASSUME NEW k \in Nat, k \in S PROVE k + 1 \in S
  <2>1. ASSUME NEW m \in Nat, m <= k + 1 PROVE Shows(TextOf[m], m)
    <3>1. \A l \in Nat : l < m => l <= k
      BY <2>1
    <3>2. \A l \in Nat : l < m => Shows(TextOf[l], l)
      BY <1>3, <3>1
    <3> QED
      BY <1>1, <3>2
  <2> QED
    BY <2>1
<1>4. Nat \subseteq S
  <2> HIDE DEF S
  <2> QED
    BY <1>2, <1>3, NatInduct
<1>5. n \in S /\ n <= n
  BY <1>4
<1> QED
  BY <1>5

LEMMA ScalePositive ==
    ASSUME NEW n \in Nat
    PROVE  Scale[n] \in Nat \ {0} /\ (n > 0 => Scale[n] > 1)
<1> DEFINE S == {k \in Nat : Scale[k] \in Nat \ {0} /\ (k > 0 => Scale[k] > 1)}
<1>0. Base \in Nat /\ Base > 1
  BY DecoderAssumption
<1>1. 0 \in S
  BY ScaleIs
<1>2. ASSUME NEW k \in Nat, k \in S PROVE k + 1 \in S
  <2>1. PICK s \in Nat \ {0} : s = Scale[k] /\ Scale[k + 1] = Base * s
    BY <1>2, ScaleIs
  <2>2. Base * s >= Base * 1
    BY <1>0, <2>1
  <2> QED
    BY <1>0, <2>1, <2>2
<1>3. Nat \subseteq S
  <2> HIDE DEF S
  <2> QED
    BY <1>1, <1>2, NatInduct
<1> QED
  BY <1>3

\* The first k digits of a chunk are its quotient.
LEMMA PaddedShows ==
    ASSUME NEW n \in Nat, n < Chunk
    PROVE  Shows(Padded(n), n) /\ Len(Padded(n)) = ChunkDigits
<1> DEFINE C == ChunkDigits
           D(k) == [i \in 1 .. k |-> (n \div Scale[C - i]) % Base]
           S == {k \in Nat : k <= C => Shows(D(k), n \div Scale[C - k]) /\ Len(D(k)) = k}
<1>0. C \in Nat /\ Base \in Nat \ {0}
  BY CodecAssumption, DecoderAssumption
<1> HIDE DEF C
<1>1. 0 \in S
  <2>1. D(0) = <<>>
    OBVIOUS
  <2>2. n \div Scale[C - 0] = 0
    <3>1. Scale[C] \in Nat \ {0} /\ n < Scale[C] /\ C - 0 = C
      BY <1>0, ScalePositive DEF Chunk, C
    <3> QED
      BY <3>1, Quotient
  <2>3. Len(<<>>) = 0
    BY EmptySeq
  <2> QED
    BY <2>1, <2>2, <2>3, ShowsNothing
<1>2. ASSUME NEW k \in Nat, k \in S PROVE k + 1 \in S
  <2> SUFFICES ASSUME k + 1 <= C
               PROVE  Shows(D(k + 1), n \div Scale[C - (k + 1)]) /\ Len(D(k + 1)) = k + 1
    OBVIOUS
  <2>0. PICK l \in Nat : l = C - (k + 1) /\ l + 1 = C - k
    BY <1>0
  <2>1. PICK s \in Nat \ {0} : s = Scale[l] /\ Scale[l + 1] = Base * s
    BY ScaleIs, ScalePositive
  <2>2. PICK q \in Nat : q = n \div s
    BY Quotient
  <2>3. n \div Scale[C - k] = q \div Base
    BY <1>0, <2>0, <2>1, <2>2, QuotientTwice
  <2>4. PICK x \in Nat, b \in 0 .. Base - 1 : x = q \div Base /\ b = q % Base /\ q = x * Base + b
    <3> HIDE DEF S, D
    <3>1. /\ q \div Base \in Nat /\ q % Base \in 0 .. Base - 1
          /\ q = (q \div Base) * Base + (q % Base)
      BY <1>0, Quotient
    <3> QED
      BY <3>1
  <2>5. Shows(D(k), x) /\ Len(D(k)) = k
    BY <1>0, <1>2, <2>3, <2>4
  <2>6. D(k) \in Seq(Digits) /\ b \in Digits
    BY <2>5 DEF Shows, Digits
  <2>7. D(k + 1) = Append(D(k), b)
    <3>1. \A i \in 1 .. k + 1 : i = k + 1 \/ i \in 1 .. k
      OBVIOUS
    <3>2. /\ Append(D(k), b) \in Seq(Digits) /\ Len(Append(D(k), b)) = k + 1
          /\ \A i \in 1 .. k : Append(D(k), b)[i] = D(k)[i]
          /\ Append(D(k), b)[k + 1] = b
      <4> HIDE DEF D
      <4> QED
        BY <2>5, <2>6, AppendProperties
    <3>3. (n \div Scale[C - (k + 1)]) % Base = b
      BY <2>0, <2>1, <2>2, <2>4
    <3>4. \A i \in 1 .. k + 1 : Append(D(k), b)[i] = (n \div Scale[C - i]) % Base
      BY <3>1, <3>2, <3>3
    <3>5. Append(D(k), b) = [i \in 1 .. k + 1 |-> Append(D(k), b)[i]]
      <4> HIDE DEF D
      <4> QED
        BY <3>2, LenProperties
    <3> QED
      BY <3>4, <3>5
  <2>8. Shows(Append(D(k), b), x * Base + b) /\ Len(Append(D(k), b)) = k + 1
    <3> HIDE DEF D
    <3> QED
      BY <2>5, <2>6, ShowsMore, AppendProperties
  <2>9. n \div Scale[C - (k + 1)] = x * Base + b
    BY <2>0, <2>1, <2>2, <2>4
  <2> HIDE DEF D
  <2> QED
    BY <2>7, <2>8, <2>9
<1>3. Nat \subseteq S
  <2> HIDE DEF S
  <2> QED
    BY <1>1, <1>2, NatInduct
<1>4. Shows(D(C), n \div Scale[C - C]) /\ Len(D(C)) = C
  <2>1. C \in S /\ C <= C
    BY <1>0, <1>3
  <2> QED
    BY <2>1
<1>5. n \div Scale[C - C] = n
  <2>1. Scale[C - C] = 1
    BY <1>0, ScaleIs
  <2>2. n \div 1 = n
    <3>1. n = n * 1 + 0 /\ 0 \in 0 .. 1 - 1 /\ 1 \in Nat \ {0}
      OBVIOUS
    <3> QED
      BY <3>1, QuotientIs
  <2> QED
    BY <2>1, <2>2
<1>6. D(C) = Padded(n)
  BY DEF Padded, C
<1> QED
  BY <1>4, <1>5, <1>6 DEF C

\* An amount, a chunk at a time.
LEMMA StringUnfolded ==
    ASSUME NEW n \in Nat
    PROVE  String(n) = IF n < Chunk THEN TextOf[n] ELSE String(n \div Chunk) \o Padded(n % Chunk)
<1> DEFINE V == Seq(Digits)
           A(f) == [k \in Nat |-> IF k < Chunk THEN TextOf[k] ELSE f[k \div Chunk] \o Padded(k % Chunk)]
           a == [k \in Nat |-> TextOf[k]]
           G == [y \in Nat \X V |-> y[2] \o Padded(y[1] % Chunk)]
<1>0. Chunk \in Nat \ {0, 1} /\ Chunk \in Nat \ {0}
  BY ScalePositive, CodecAssumption DEF Chunk
<1>1. a \in [Nat -> V] /\ \A k \in Nat : a[k] = TextOf[k]
  BY TextShows DEF Shows
<1>2. G \in [Nat \X V -> V] /\ \A k \in Nat, t \in V : G[<<k, t>>] = t \o Padded(k % Chunk)
  <2>1. ASSUME NEW k \in Nat, NEW t \in Seq(Digits) PROVE t \o Padded(k % Chunk) \in Seq(Digits)
    <3>1. k % Chunk \in Nat /\ k % Chunk < Chunk
      BY <1>0, Quotient
    <3>2. Padded(k % Chunk) \in Seq(Digits)
      BY <3>1, PaddedShows DEF Shows
    <3> QED
      BY <3>2, ConcatProperties
  <2> QED
    BY <2>1
<1> HIDE DEF V, a, G
<1>4. PICK f : ByQuotient(V, Chunk, a, G, f)
  BY <1>0, <1>1, <1>2, QuotientRecursion
<1>5. f \in [Nat -> V] /\ \A k \in Nat : f[k] = IF k < Chunk THEN a[k] ELSE G[<<k, f[k \div Chunk]>>]
  BY <1>4 DEF ByQuotient
<1>6. ASSUME NEW k \in Nat
      PROVE  f[k] = IF k < Chunk THEN TextOf[k] ELSE f[k \div Chunk] \o Padded(k % Chunk)
  <2>1. k \div Chunk \in Nat
    BY <1>0, Quotient
  <2> QED
    BY <1>1, <1>2, <1>5, <2>1
<1>7. f = [k \in Nat |-> f[k]]
  BY <1>5
<1>8. f = A(f)
  BY <1>6, <1>7
<1> DEFINE T == CHOOSE g : g = A(g)
<1>9. T = A(T)
  <2> HIDE DEF A
  <2> QED
    BY <1>8
<1>10. \A k : String(k) = T[k]
  BY DEF String
<1>11. A(T)[n] = IF n < Chunk THEN TextOf[n] ELSE T[n \div Chunk] \o Padded(n % Chunk)
  <2> HIDE DEF T
  <2> QED
    OBVIOUS
<1> HIDE DEF A, T
<1> QED
  BY <1>9, <1>10, <1>11

LEMMA StringShows ==
    ASSUME NEW n \in Nat
    PROVE  Shows(String(n), n)
<1> DEFINE S == {k \in Nat : \A m \in Nat : m <= k => Shows(String(m), m)}
<1>0. Chunk \in Nat \ {0} /\ Chunk > 1
  BY ScalePositive, CodecAssumption DEF Chunk
<1>1. ASSUME NEW m \in Nat, \A l \in Nat : l < m => Shows(String(l), l)
      PROVE  Shows(String(m), m)
  <2>0. String(m) = IF m < Chunk THEN TextOf[m] ELSE String(m \div Chunk) \o Padded(m % Chunk)
    BY StringUnfolded
  <2>1. CASE m < Chunk
    BY <2>0, <2>1, TextShows
  <2>2. CASE m >= Chunk
    <3>1. PICK q \in Nat, r \in 0 .. Chunk - 1 :
              q = m \div Chunk /\ r = m % Chunk /\ m = q * Chunk + r /\ q < m
      BY <1>0, <2>2, Quotient
    <3>2. String(m) = String(q) \o Padded(r)
      BY <1>0, <2>0, <2>2, <3>1
    <3>3. Shows(String(q), q)
      BY <1>1, <3>1
    <3>4. Shows(Padded(r), r) /\ Scale[Len(Padded(r))] = Chunk
      BY <1>0, PaddedShows DEF Chunk
    <3>5. Shows(String(q) \o Padded(r), q * Scale[Len(Padded(r))] + r)
      BY <3>3, <3>4, ShowsBoth
    <3> QED
      BY <3>1, <3>2, <3>4, <3>5
  <2> QED
    BY <1>0, <2>1, <2>2
<1>2. 0 \in S
  <2> SUFFICES ASSUME NEW m \in Nat, m <= 0 PROVE Shows(String(m), m)
    OBVIOUS
  <2>1. \A l \in Nat : ~(l < m)
    OBVIOUS
  <2> QED
    BY <1>1, <2>1
<1>3. ASSUME NEW k \in Nat, k \in S PROVE k + 1 \in S
  <2>1. ASSUME NEW m \in Nat, m <= k + 1 PROVE Shows(String(m), m)
    <3>1. \A l \in Nat : l < m => l <= k
      BY <2>1
    <3>2. \A l \in Nat : l < m => Shows(String(l), l)
      BY <1>3, <3>1
    <3> QED
      BY <1>1, <3>2
  <2> QED
    BY <2>1
<1>4. Nat \subseteq S
  <2> HIDE DEF S
  <2> QED
    BY <1>2, <1>3, NatInduct
<1>5. n \in S /\ n <= n
  BY <1>4
<1> QED
  BY <1>5

\* The sequences in order, one after the other.
Flattens(seqs, f) ==
    /\ f[1] = seqs[1]
    /\ \A i \in 1 .. Len(seqs) - 1 : f[i + 1] = f[i] \o seqs[i + 1]
    /\ FlattenSeq(seqs) = f[Len(seqs)]

LEMMA Flattened ==
    ASSUME NEW S, NEW seqs \in Seq(Seq(S)), Len(seqs) # 0
    PROVE  \E f : Flattens(seqs, f)
<1> DEFINE V == Seq(S)
           N == 1 .. Len(seqs)
           A(f) == [i \in N |-> IF i = 1 THEN seqs[i] ELSE f[i - 1] \o seqs[i]]
           a == [i \in N |-> seqs[1]]
           r == [i \in N |-> i - 1]
           p == [i \in N |-> IF i = 1 THEN 1 ELSE i - 1]
           G == [y \in N \X V |-> y[2] \o seqs[y[1]]]
<1>0. Len(seqs) \in Nat \ {0} /\ \A i \in N : seqs[i] \in V
  BY LenProperties, ElementOfSeq
<1>1. a \in [N -> V] /\ r \in [N -> Nat] /\ p \in [N -> N]
  BY <1>0
<1>2. G \in [N \X V -> V] /\ \A i \in N, t \in V : G[<<i, t>>] = t \o seqs[i]
  <2>1. ASSUME NEW i \in N, NEW t \in V PROVE t \o seqs[i] \in V
    <3>1. seqs[i] \in Seq(S) /\ t \in Seq(S)
      BY <1>0
    <3> HIDE DEF N
    <3> QED
      BY <3>1, ConcatProperties
  <2> QED
    BY <2>1
<1>3. /\ \A i \in N : (r[i] = 0 <=> i = 1) /\ a[i] = seqs[1]
      /\ \A i \in N : i # 1 => i - 1 \in N /\ p[i] = i - 1 /\ r[i] # 0 /\ r[p[i]] < r[i]
  OBVIOUS
<1>4. Descent(N, V, a, p, r, G)
  <2> HIDE DEF N, V, a, p, r, G
  <2> QED
    BY <1>1, <1>2, <1>3 DEF Descent
<1> HIDE DEF V, a, p, r, G
<1>5. PICK f : Solution(N, V, a, p, r, G, f)
  BY <1>4, Recursion
<1>6. f \in [N -> V] /\ \A i \in N : f[i] = Step(a, p, r, G, f, i)
  BY <1>5 DEF Solution
<1>7. ASSUME NEW i \in N PROVE f[i] = IF i = 1 THEN seqs[i] ELSE f[i - 1] \o seqs[i]
  <2>1. CASE i = 1
    BY <1>3, <1>6, <2>1 DEF Step
  <2>2. CASE i # 1
    <3>1. i - 1 \in N /\ p[i] = i - 1 /\ r[i] # 0 /\ f[i - 1] \in V
      BY <1>3, <1>6, <2>2
    <3> HIDE DEF N
    <3> QED
      BY <1>2, <1>6, <2>2, <3>1 DEF Step
  <2> QED
    BY <2>1, <2>2
<1>8. f = [i \in N |-> f[i]]
  BY <1>6
<1>9. f = A(f)
  BY <1>7, <1>8
<1> DEFINE T == CHOOSE g : g = A(g)
<1>10. T = A(T)
  <2> HIDE DEF A
  <2> QED
    BY <1>9
<1>11. FlattenSeq(seqs) = T[Len(seqs)]
  BY <1>0 DEF FlattenSeq
<1> HIDE DEF T
<1>12. T[1] = seqs[1]
  BY <1>0, <1>10
<1>13. \A i \in 1 .. Len(seqs) - 1 : T[i + 1] = T[i] \o seqs[i + 1]
  <2> SUFFICES ASSUME NEW i \in 1 .. Len(seqs) - 1 PROVE T[i + 1] = T[i] \o seqs[i + 1]
    OBVIOUS
  <2>1. i + 1 \in N /\ i + 1 # 1 /\ (i + 1) - 1 = i
    BY <1>0
  <2>2. T[i + 1] = A(T)[i + 1]
    <3> HIDE DEF A
    <3> QED
      BY <1>10
  <2> QED
    BY <2>1, <2>2
<1> QED
  BY <1>11, <1>12, <1>13 DEF Flattens

\* A field that is written behind others, and its space.
LEMMA FieldWritten ==
    ASSUME NEW t, NEW k \in Nat, NEW w, Reads(t, k, w, 0), NEW d, Shows(d, w[k + 1])
    PROVE  LET u == t \o Append(d, Space)
           IN  Reads(u, k + 1, w, 0) /\ u # <<>> /\ u[Len(u)] = Space
<1>0. t \in Seq(Bytes) /\ d \in Seq(Bytes) /\ Space \in Bytes /\ w[k + 1] \in Nat
  BY DigitBytes, SpecialBytes DEF Reads, Shows
<1>1. t \o Append(d, Space) = Append(t \o d, Space)
  BY <1>0, AppendLast
<1>2. PICK s \in Nat : s = Scale[Len(d)]
  <2>1. Len(d) \in Nat
    BY <1>0, LenProperties
  <2> QED
    BY <2>1, ScaleIs
<1>3. PICK v \in Nat : v = w[k + 1]
  BY <1>0
<1>4. Reads(t \o d, k, w, 0 * s + v)
  BY <1>2, <1>3, Written
<1>5. 0 * s + v = v
  OBVIOUS
<1>6. Reads(t \o d, k, w, w[k + 1])
  BY <1>3, <1>4, <1>5
<1>7. Reads(Append(t \o d, Space), k + 1, w, 0)
  BY <1>6, ReadsSpace
<1>8. PICK x : x = t \o d /\ x \in Seq(Bytes)
  BY <1>0, ConcatProperties
<1>9. /\ Append(x, Space) # <<>> /\ Len(Append(x, Space)) = Len(x) + 1
      /\ Append(x, Space)[Len(x) + 1] = Space
  BY <1>0, <1>8, AppendProperties
<1> QED
  BY <1>1, <1>7, <1>8, <1>9

\* Either function shows the number it is given.
LEMMA NumberShows ==
    ASSUME NEW n \in Nat, NEW wide
    PROVE  Shows(IF wide THEN String(n) ELSE TextOf[n], n)
<1>1. Shows(String(n), n) /\ Shows(TextOf[n], n)
  BY StringShows, TextShows
<1>2. CASE wide
  BY <1>1, <1>2
<1>3. CASE ~wide
  BY <1>1, <1>3
<1> QED
  BY <1>2, <1>3

\* A request is read as the numbers it was written for, each with its space.
LEMMA EncodeReads ==
    ASSUME NEW c, NEW values \in Seq(Nat), values # <<>>
    PROVE  LET t == Encode(c, values)
           IN  Reads(t, Len(values), values, 0) /\ t # <<>> /\ t[Len(t)] = Space
<1> DEFINE d(i) == IF Limits(c)[i] = U128Max THEN String(values[i]) ELSE TextOf[values[i]]
           seqs == [i \in DOMAIN values |-> Append(d(i), Space)]
           n == Len(values)
<1>0. n \in Nat /\ n # 0 /\ DOMAIN values = 1 .. n /\ \A i \in 1 .. n : values[i] \in Nat
  BY LenProperties, ElementOfSeq, EmptySeq
<1>1. Encode(c, values) = FlattenSeq(seqs)
  BY DEF Encode
<1> HIDE DEF n
<1>2. \A i \in 1 .. n : Shows(d(i), values[i])
  <2> SUFFICES ASSUME NEW i \in 1 .. n PROVE Shows(d(i), values[i])
    OBVIOUS
  <2>1. PICK v \in Nat : v = values[i]
    BY <1>0
  <2>2. Shows(IF Limits(c)[i] = U128Max THEN String(v) ELSE TextOf[v], v)
    BY NumberShows
  <2> QED
    BY <2>1, <2>2
<1> HIDE DEF d
<1>3. \A i \in 1 .. n : Append(d(i), Space) \in Seq(Bytes)
  <2> SUFFICES ASSUME NEW i \in 1 .. n PROVE Append(d(i), Space) \in Seq(Bytes)
    OBVIOUS
  <2>1. d(i) \in Seq(Bytes) /\ Space \in Bytes
    BY <1>2, DigitBytes, SpecialBytes DEF Shows
  <2> QED
    BY <2>1, AppendProperties
<1>4. seqs \in Seq(Seq(Bytes)) /\ Len(seqs) = n /\ \A i \in 1 .. n : seqs[i] = Append(d(i), Space)
  BY <1>0, <1>3
<1> HIDE DEF seqs
<1>5. PICK f : Flattens(seqs, f)
  BY <1>0, <1>4, Flattened
<1>6. /\ f[1] = seqs[1] /\ FlattenSeq(seqs) = f[n]
      /\ \A i \in 1 .. n - 1 : f[i + 1] = f[i] \o seqs[i + 1]
  BY <1>4, <1>5 DEF Flattens
<1> DEFINE P(i) == Reads(f[i], i, values, 0) /\ f[i] # <<>> /\ f[i][Len(f[i])] = Space
           S == {i \in Nat : i + 1 <= n => P(i + 1)}
<1>7. 0 \in S
  <2>1. 1 \in 1 .. n /\ 0 + 1 = 1
    BY <1>0
  <2>2. Reads(<<>>, 0, values, 0) /\ Shows(d(1), values[0 + 1])
    BY <1>2, <2>1, ReadsNothing
  <2>3. f[1] = <<>> \o Append(d(1), Space)
    BY <1>3, <1>4, <1>6, <2>1, ConcatEmptySeq
  <2>4. PICK u : u = <<>> \o Append(d(1), Space)
    OBVIOUS
  <2>5. Reads(u, 0 + 1, values, 0) /\ u # <<>> /\ u[Len(u)] = Space
    BY <2>2, <2>4, FieldWritten
  <2>6. P(1)
    BY <2>1, <2>3, <2>4, <2>5
  <2> HIDE DEF P
  <2> QED
    BY <2>1, <2>6
<1>8. ASSUME NEW i \in Nat, i \in S PROVE i + 1 \in S
  <2> SUFFICES ASSUME (i + 1) + 1 <= n PROVE P((i + 1) + 1)
    <3> HIDE DEF P
    <3> QED
      OBVIOUS
  <2>1. PICK j \in Nat : j = i + 1 /\ j \in 1 .. n - 1 /\ j + 1 \in 1 .. n /\ j <= n
    BY <1>0
  <2>2. P(j)
    <3> HIDE DEF P
    <3> QED
      BY <1>8, <2>1
  <2>3. f[j + 1] = f[j] \o Append(d(j + 1), Space) /\ Shows(d(j + 1), values[j + 1])
    BY <1>2, <1>4, <1>6, <2>1
  <2>4. PICK u : u = f[j] \o Append(d(j + 1), Space)
    OBVIOUS
  <2>5. Reads(u, j + 1, values, 0) /\ u # <<>> /\ u[Len(u)] = Space
    BY <2>2, <2>3, <2>4, FieldWritten
  <2>6. P(j + 1)
    BY <2>3, <2>4, <2>5
  <2> HIDE DEF P
  <2> QED
    BY <2>1, <2>6
<1> HIDE DEF P
<1>9. Nat \subseteq S
  <2> HIDE DEF S
  <2> QED
    BY <1>7, <1>8, NatInduct
<1>10. P(n)
  <2>1. PICK i \in Nat : i = n - 1 /\ i + 1 = n
    BY <1>0
  <2>2. i \in S
    BY <1>9
  <2> QED
    BY <1>0, <2>1, <2>2
<1>11. Reads(f[n], n, values, 0) /\ f[n] # <<>> /\ f[n][Len(f[n])] = Space
  BY <1>10 DEF P
<1> QED
  BY <1>1, <1>6, <1>11 DEF n

\* What more bytes do to a line: no space is lost, and no value becomes smaller.
LEMMA LongerLine ==
    ASSUME NEW t \in Seq(Bytes), NEW s \in Seq(Bytes), NEW i \in Int
    PROVE  /\ Value(t, i) \in Nat /\ Value(t, i) <= Value(t \o s, i) /\ Value(t \o s, i) \in Nat
           /\ Cardinality(Spaces(t)) \in Nat /\ Cardinality(Spaces(t \o s)) \in Nat
           /\ Cardinality(Spaces(t)) <= Cardinality(Spaces(t \o s))
           /\ s # <<>> /\ s[Len(s)] = Space => Cardinality(Spaces(t)) < Cardinality(Spaces(t \o s))
<1>0. \A u \in Seq(Bytes) : Cardinality(Spaces(u)) \in Nat
  BY LineFinite
<1>1. ASSUME NEW u \in Seq(Bytes), Value(u, i) \in Nat, NEW b \in Bytes
      PROVE  /\ Value(Append(u, b), i) \in Nat /\ Value(u, i) <= Value(Append(u, b), i)
             /\ Cardinality(Spaces(u)) <= Cardinality(Spaces(Append(u, b)))
             /\ b = Space => Cardinality(Spaces(u)) < Cardinality(Spaces(Append(u, b)))
  <2>1. PICK x : x = Append(u, b)
    OBVIOUS
  <2>2. Cardinality(Spaces(x)) = IF b = Space THEN Cardinality(Spaces(u)) + 1 ELSE Cardinality(Spaces(u))
    BY <2>1, SpacesAfter
  <2>3. Value(x, i) \in Nat /\ Value(u, i) <= Value(x, i)
    <3>1. CASE b \in Digits /\ i = Cardinality(Spaces(u)) + 1
      <4>0. b \in Nat /\ Base \in Nat \ {0}
        BY <3>1, DecoderAssumption DEF Digits
      <4>1. Value(x, i) = Value(u, i) * Base + b
        <5>1. DigitBehind(u, b, x, i)
          BY <2>1, <3>1 DEF DigitBehind
        <5> QED
          BY <5>1, ValueMore
      <4>2. PICK v \in Nat : v = Value(u, i)
        BY <1>1
      <4>3. v * Base >= v * 1
        BY <4>0
      <4> QED
        BY <4>0, <4>1, <4>2, <4>3
    <3>2. CASE ~(b \in Digits /\ i = Cardinality(Spaces(u)) + 1)
      <4>1. Value(x, i) = Value(u, i)
        BY <2>1, <3>2, ValueSame
      <4> QED
        BY <1>1, <4>1
    <3> QED
      BY <3>1, <3>2
  <2> QED
    BY <1>0, <2>1, <2>2, <2>3
<1> DEFINE T == {n \in Nat : \A u \in Seq(Bytes) : Len(u) = n => Value(u, i) \in Nat}
<1>2. 0 \in T
  <2> SUFFICES ASSUME NEW u \in Seq(Bytes), Len(u) = 0 PROVE Value(u, i) \in Nat
    OBVIOUS
  <2>1. u = <<>>
    BY EmptySeq
  <2> QED
    BY <2>1, EmptyLine
<1>3. ASSUME NEW n \in Nat, n \in T PROVE n + 1 \in T
  <2> SUFFICES ASSUME NEW u \in Seq(Bytes), Len(u) = n + 1 PROVE Value(u, i) \in Nat
    OBVIOUS
  <2>1. u # <<>>
    BY EmptySeq
  <2>2. PICK v \in Seq(Bytes), b \in Bytes : u = Append(v, b)
    BY <2>1, SequenceEmptyOrAppend
  <2>3. Len(v) = n
    BY <2>2, AppendProperties, LenProperties
  <2> QED
    BY <1>1, <1>3, <2>2, <2>3
<1>4. \A u \in Seq(Bytes) : Value(u, i) \in Nat
  <2>1. Nat \subseteq T
    <3> HIDE DEF T
    <3> QED
      BY <1>2, <1>3, NatInduct
  <2> QED
    BY <2>1, LenProperties
<1> DEFINE Q(u, v) == /\ Value(u, i) <= Value(v, i)
                      /\ Cardinality(Spaces(u)) <= Cardinality(Spaces(v))
           M == {n \in Nat : \A v \in Seq(Bytes) : Len(v) = n => Q(t, t \o v)}
<1>5. 0 \in M
  <2> SUFFICES ASSUME NEW v \in Seq(Bytes), Len(v) = 0 PROVE Q(t, t \o v)
    OBVIOUS
  <2>1. v = <<>> /\ t \o v = t
    BY EmptySeq, ConcatEmptySeq
  <2> QED
    BY <1>0, <1>4, <2>1
<1>6. ASSUME NEW v \in Seq(Bytes), NEW b \in Bytes, Q(t, t \o v)
      PROVE  /\ Q(t, t \o Append(v, b))
             /\ b = Space => Cardinality(Spaces(t)) < Cardinality(Spaces(t \o Append(v, b)))
  <2>0. t \o Append(v, b) = Append(t \o v, b)
    BY AppendLast
  <2>1. PICK x \in Seq(Bytes) : x = t \o v /\ t \o Append(v, b) = Append(x, b)
    BY <2>0, ConcatProperties
  <2>2. Append(x, b) \in Seq(Bytes)
    BY AppendProperties
  <2>3. /\ Value(x, i) <= Value(Append(x, b), i)
        /\ Cardinality(Spaces(x)) <= Cardinality(Spaces(Append(x, b)))
        /\ b = Space => Cardinality(Spaces(x)) < Cardinality(Spaces(Append(x, b)))
    BY <1>1, <1>4
  <2>4. /\ Value(t, i) \in Nat /\ Value(x, i) \in Nat /\ Value(Append(x, b), i) \in Nat
        /\ Cardinality(Spaces(t)) \in Nat /\ Cardinality(Spaces(x)) \in Nat
        /\ Cardinality(Spaces(Append(x, b))) \in Nat
    BY <1>0, <1>4, <2>2
  <2>5. Value(t, i) <= Value(x, i) /\ Cardinality(Spaces(t)) <= Cardinality(Spaces(x))
    BY <1>6, <2>1
  <2> QED
    BY <2>1, <2>3, <2>4, <2>5
<1>7. ASSUME NEW n \in Nat, n \in M PROVE n + 1 \in M
  <2> SUFFICES ASSUME NEW u \in Seq(Bytes), Len(u) = n + 1 PROVE Q(t, t \o u)
    OBVIOUS
  <2>1. u # <<>>
    BY EmptySeq
  <2>2. PICK v \in Seq(Bytes), b \in Bytes : u = Append(v, b)
    BY <2>1, SequenceEmptyOrAppend
  <2>3. Len(v) = n
    BY <2>2, AppendProperties, LenProperties
  <2>4. Q(t, t \o v)
    BY <1>7, <2>3
  <2> HIDE DEF Q
  <2> QED
    BY <1>6, <2>2, <2>4
<1>8. \A v \in Seq(Bytes) : Q(t, t \o v)
  <2>1. Nat \subseteq M
    <3> HIDE DEF M
    <3> QED
      BY <1>5, <1>7, NatInduct
  <2> HIDE DEF Q
  <2> QED
    BY <2>1, LenProperties
<1>9. ASSUME s # <<>>, s[Len(s)] = Space PROVE Cardinality(Spaces(t)) < Cardinality(Spaces(t \o s))
  <2>1. PICK v \in Seq(Bytes), b \in Bytes : s = Append(v, b)
    BY <1>9, SequenceEmptyOrAppend
  <2>2. b = Space
    BY <1>9, <2>1, AppendProperties
  <2> HIDE DEF Q
  <2> QED
    BY <1>6, <1>8, <2>1, <2>2
<1>10. t \o s \in Seq(Bytes)
  BY ConcatProperties
<1> QED
  BY <1>0, <1>4, <1>8, <1>9, <1>10

-----------------------------------------------------------------------------
(* What is read of a request that is sent.                                 *)

\* The bytes read and those to come are the text of a request, with values of its widths.
Carries(values) ==
    /\ command \in Commands /\ line \in Seq(Bytes) /\ values \in Seq(Nat)
    /\ tail \o line = Encode(command, values)
    /\ Len(values) = Params /\ \A i \in 1 .. Params : values[i] <= Limits(command)[i]

LEMMA EncodeNothing ==
    ASSUME NEW c
    PROVE  Encode(c, <<>>) = <<Space>> /\ <<Space>> \in Seq(Bytes)
BY SpecialBytes DEF Encode

\* As long as bytes are to come, nothing in them has ended the request or refused it.
LEMMA CarriedOn ==
    ASSUME TypeOK, ReadWell, NEW values, Carries(values)
    PROVE  error = "NONE" /\ ~unread
<1>0. /\ tail \in Seq(Bytes) /\ line \in Seq(Bytes) /\ Params \in Nat
      /\ Len(tail) \in Nat /\ Len(line) \in Nat /\ DOMAIN tail = 1 .. Len(tail)
  BY LimitsType, LenProperties DEF TypeOK, Carries, Params
<1> DEFINE E == tail \o line
<1>1. E \in Seq(Bytes) /\ Len(E) = Len(tail) + Len(line) /\ DOMAIN E = 1 .. Len(tail) + Len(line)
  BY <1>0, ConcatProperties, LenProperties
<1>5. /\ \A p \in DOMAIN tail : p \in DOMAIN E /\ E[p] = tail[p]
      /\ line # <<>> => E[Len(E)] = line[Len(line)]
  BY <1>0, <1>1, ConcatProperties, EmptySeq
<1>6. /\ line = <<>> => E = tail
      /\ tail # <<>> => Len(tail) # 0
      /\ line # <<>> => Len(line) # 0
  BY <1>0, EmptySeq, ConcatEmptySeq
<1>2. E = Encode(command, values) /\ values \in Seq(Nat) /\ Len(values) = Params
  BY DEF Carries
<1> HIDE DEF E
<1>3. CASE values = <<>>
  <2>1. E = <<Space>> /\ Params = 0
    BY <1>2, <1>3, EncodeNothing
  <2>2. Len(E) = 1 /\ E[1] = Space
    BY <2>1
  <2>6. PICK m \in Nat, n \in Nat : m = Len(tail) /\ n = Len(line)
    BY <1>0
  <2>7. m + n = 1
    BY <1>1, <2>2, <2>6
  <2>3. error \notin {"INTEGER_OVERFLOW", "INVALID_INTEGER", "INVALID_COMMAND"}
    BY <2>1 DEF ReadWell, ErrorsCaused, Carries
  <2>4. error # "EXPECTED_NEW_LINE"
    <3> SUFFICES ASSUME error = "EXPECTED_NEW_LINE" PROVE FALSE
      OBVIOUS
    <3>1. tail # <<>> /\ tail[Len(tail)] # Space
      BY DEF ReadWell, ErrorsCaused
    <3>2. Len(tail) = 1
      <4>1. m # 0
        BY <1>6, <2>6, <3>1
      <4> QED
        BY <2>6, <2>7, <4>1
    <3> QED
      BY <1>0, <1>5, <2>2, <3>1, <3>2
  <2>5. ~unread
    <3> SUFFICES ASSUME unread PROVE FALSE
      OBVIOUS
    <3>1. Len(tail) > 1
      BY <2>1 DEF ReadWell, ErrorsCaused
    <3> QED
      BY <2>6, <2>7, <3>1
  <2> QED
    BY <2>3, <2>4, <2>5 DEF TypeOK
<1>4. CASE values # <<>>
  <2>1. Reads(E, Params, values, 0) /\ E # <<>> /\ E[Len(E)] = Space
    BY <1>2, <1>4, EncodeReads
  <2>2. Params # 0
    BY <1>2, <1>4, EmptySeq
  <2>3. Cardinality(Spaces(E)) = Params /\ \A p \in DOMAIN E : E[p] # Other
    BY <2>1 DEF Reads
  <2>4. error # "INTEGER_OVERFLOW"
    <3> SUFFICES ASSUME error = "INTEGER_OVERFLOW" PROVE FALSE
      OBVIOUS
    <3>1. LastField \in 1 .. Params /\ ~InRange(LastField)
      BY DEF ReadWell, ErrorsCaused
    <3>2. PICK i \in 1 .. Params : i = LastField
      BY <3>1
    <3>3. Value(tail, i) \in Nat /\ Value(tail, i) <= Value(E, i) /\ Value(E, i) \in Nat
      <4>1. i \in Int
        OBVIOUS
      <4> QED
        BY <1>0, <4>1, LongerLine DEF E
    <3>4. Value(E, i) = values[i] /\ values[i] <= Limits(command)[i] /\ Limits(command)[i] \in Nat
      BY <2>1, LimitsType DEF Reads, Carries, Params
    <3>5. ~(Value(tail, i) <= Limits(command)[i])
      BY <3>1, <3>2 DEF InRange
    <3> QED
      BY <3>3, <3>4, <3>5
  <2>5. error # "INVALID_INTEGER"
    <3> SUFFICES ASSUME error = "INVALID_INTEGER" PROVE FALSE
      OBVIOUS
    <3>1. ~Numeric(LastField)
      BY DEF ReadWell, ErrorsCaused
    <3>2. PICK p \in DOMAIN tail : tail[p] = Other
      BY <3>1 DEF Numeric, Field
    <3> QED
      BY <1>5, <2>3, <3>2
  <2>6. error \notin {"EXPECTED_NEW_LINE", "INVALID_COMMAND"}
    BY <2>2 DEF ReadWell, ErrorsCaused, Carries
  <2>7. ~unread
    <3> SUFFICES ASSUME unread PROVE FALSE
      OBVIOUS
    <3>1. ~Complete /\ Cardinality(Spaces(tail)) >= Params
      BY <2>2 DEF ReadWell, ErrorsCaused
    <3>2. /\ Cardinality(Spaces(tail)) \in Nat
          /\ Cardinality(Spaces(tail)) <= Cardinality(Spaces(E))
          /\ line # <<>> /\ line[Len(line)] = Space
               => Cardinality(Spaces(tail)) < Cardinality(Spaces(E))
      <4>1. 1 \in Int
        OBVIOUS
      <4> QED
        BY <1>0, <4>1, LongerLine DEF E
    <3>3. line = <<>>
      BY <1>0, <1>5, <2>1, <2>3, <3>1, <3>2
    <3>4. tail # <<>> /\ tail[Len(tail)] = Space /\ Cardinality(Spaces(tail)) = Params
      BY <1>6, <2>1, <2>3, <3>3
    <3> QED
      BY <2>2, <3>1, <3>4 DEF Complete
  <2> QED
    BY <2>4, <2>5, <2>6, <2>7 DEF TypeOK
<1> QED
  BY <1>3, <1>4

\* At its end the request has been read as what was sent.
LEMMA CarriedOver ==
    ASSUME TypeOK, ReadWell, NEW values, Carries(values), line = <<>>,
           args = [i \in 1 .. Params |-> args[i]]
    PROVE  Result = "NONE" /\ args = values
<1>0. tail \in Seq(Bytes) /\ Params \in Nat /\ values \in Seq(Nat) /\ Len(values) = Params
  BY LimitsType DEF TypeOK, Carries, Params
<1>1. tail = Encode(command, values)
  BY <1>0, ConcatEmptySeq DEF Carries
<1>2. /\ Complete
      /\ \A i \in 1 .. Params : Numeric(i) /\ Value(tail, i) = values[i]
  <2>1. CASE values = <<>>
    <3>1. tail = <<Space>> /\ Params = 0
      BY <1>0, <1>1, <2>1, EncodeNothing
    <3> QED
      BY <3>1 DEF Complete
  <2>2. CASE values # <<>>
    <3>1. Reads(tail, Params, values, 0) /\ tail # <<>> /\ tail[Len(tail)] = Space
      BY <1>0, <1>1, <2>2, EncodeReads
    <3>2. Params # 0
      BY <1>0, <2>2, EmptySeq
    <3> QED
      BY <3>1, <3>2 DEF Complete, Reads, Numeric, Field
  <2> QED
    BY <2>1, <2>2
<1>3. \A i \in 1 .. Params : InRange(i)
  BY <1>2 DEF Carries, InRange
<1>4. Legal
  BY <1>2, <1>3 DEF Legal, Carries
<1>5. Result = "NONE" /\ \A i \in 1 .. Params : args[i] = Value(tail, i)
  BY <1>4, MeaningHolds DEF DecodesExactly
<1>6. values = [i \in 1 .. Params |-> values[i]]
  BY <1>0, LenProperties
<1> QED
  BY <1>2, <1>5, <1>6

\* The arguments are a function.
LEMMA ArgumentsStay ==
    ASSUME TypeOK, args = [i \in 1 .. Params |-> args[i]], [Next]_vars \/ NewDecoder
    PROVE  (args = [i \in 1 .. Params |-> args[i]])'
<1>1. CASE args' = args /\ command' = command
  BY <1>1 DEF Params
<1>2. ASSUME NEW b, TakeDigit(b) PROVE (args = [i \in 1 .. Params |-> args[i]])'
  <2>1. command' = command /\ DOMAIN args = 1 .. Params
    BY <1>2 DEF TakeDigit, TypeOK
  <2>2. args' = [args EXCEPT ![Current] = @ * Base + b]
    BY <1>2 DEF TakeDigit
  <2>3. args' = [i \in 1 .. Params |-> args'[i]]
    BY <2>1, <2>2
  <2> QED
    BY <2>1, <2>3 DEF Params
<1>3. ASSUME NEW c, RunCommand(c) PROVE (args = [i \in 1 .. Params |-> args[i]])'
  BY <1>3 DEF RunCommand, Params
<1>4. CASE NewDecoder \/ InvalidCommand
  <2>1. Limits("none") = <<>> /\ Limits("unknown") = <<>>
    BY DEF Limits
  <2>2. Params' = 0
    BY <1>4, <2>1 DEF NewDecoder, InvalidCommand, Params
  <2>3. args' = <<>>
    <3>1. CASE NewDecoder
      BY <3>1 DEF NewDecoder
    <3>2. CASE InvalidCommand
      <4>1. Params = 0
        BY <3>2, LimitsType DEF InvalidCommand, TypeOK, Params, Limits
      <4> QED
        BY <3>2, <4>1 DEF InvalidCommand
    <3> QED
      BY <1>4, <3>1, <3>2
  <2> QED
    BY <2>2, <2>3
<1> QED
  BY <1>1, <1>2, <1>3, <1>4 DEF Next, Overflow, ExpectedNewLine, Rest, SkipUnderscore,
     InvalidInteger, NextArgument, EndOfLine, Decided, Fail, vars

-----------------------------------------------------------------------------
(* Flags.                                                                  *)

FlagNames == {"send", "receive", "debt"}

\* The byte in which the flags of S are set.
Weight(S) ==
    (IF "send" \in S THEN 1 ELSE 0) + (IF "receive" \in S THEN 2 ELSE 0)
      + (IF "debt" \in S THEN 4 ELSE 0)

LEMMA BitIs == Bit("send") = 1 /\ Bit("receive") = 2 /\ Bit("debt") = 4
BY DEF Bit

\* The sum of bits that RequestSurvives and AnswerSurvives speak of.
LEMMA SumOfBits ==
    ASSUME NEW S \in SUBSET FlagNames
    PROVE  MapThenSumSet(Bit, S) = Weight(S)
<1> DEFINE f == [x \in FlagNames |-> Bit(x)]
           A(g) == [s \in SUBSET S |->
                      IF s = {} THEN 0 ELSE Bit(CHOOSE x \in s : TRUE) + g[s \ {CHOOSE x \in s : TRUE}]]
           T == CHOOSE g : g = A(g)
<1>1. IsFiniteSet(FlagNames) /\ \A s \in SUBSET FlagNames : IsFiniteSet(s)
  <2>1. IsFiniteSet(({} \cup {"send"}) \cup {"receive"})
    BY FS_AddElement, FS_EmptySet
  <2>2. FlagNames = (({} \cup {"send"}) \cup {"receive"}) \cup {"debt"}
    BY DEF FlagNames
  <2>3. IsFiniteSet(FlagNames)
    BY <2>1, <2>2, FS_AddElement
  <2> QED
    BY <2>3, FS_Subset
<1>2. \A x \in FlagNames : f[x] = Bit(x) /\ f[x] \in Int
  BY BitIs DEF FlagNames
<1>3. \A g : A(g) = SumsOf(f, S, g)
  <2> SUFFICES ASSUME NEW g PROVE A(g) = SumsOf(f, S, g)
    OBVIOUS
  <2>1. \A s \in SUBSET S : s # {} => f[Chosen(s)] = Bit(Chosen(s))
    BY <1>2, ChosenIn
  <2> HIDE DEF f
  <2> QED
    BY <2>1 DEF SumsOf, Chosen
<1>4. MapThenSumSet(Bit, S) = T[S]
  BY DEF MapThenSumSet, MapThenFoldSet
<1> HIDE DEF A, f
<1>5. T = A(T)
  <2>1. PICK g : g = SumsOf(f, S, g)
    BY <1>1, <1>2, SumsExist
  <2> QED
    BY <1>3, <2>1
<1> HIDE DEF T
<1>6. T = SumsOf(f, S, T)
  BY <1>3, <1>5
<1>8. MapThenSumSet(Bit, S) = SumFunctionOnSet(f, S)
  <2>1. IsFiniteSet(S) /\ \A x \in S : f[x] \in Int
    BY <1>1, <1>2
  <2>2. SumFunctionOnSet(f, S) = T[S]
    BY <1>6, <2>1, SumByFolding
  <2> QED
    BY <1>4, <2>2
<1>9. ASSUME NEW s \in SUBSET FlagNames, NEW x \in FlagNames
      PROVE  /\ SumFunctionOnSet(f, s) = (IF x \in s THEN Bit(x) ELSE 0) + SumFunctionOnSet(f, s \ {x})
             /\ SumFunctionOnSet(f, s) \in Int
  <2>1. IsFiniteSet(s) /\ (\A y \in s : f[y] \in Int)
    BY <1>1, <1>2
  <2>2. SumFunctionOnSet(f, s) \in Int /\ \A y \in s : SumFunctionOnSet(f, s) = f[y] + SumFunctionOnSet(f, s \ {y})
    BY <2>1, SumWithout
  <2>3. CASE x \in s
    BY <1>2, <2>2, <2>3
  <2>4. CASE x \notin s
    <3>1. s \ {x} = s
      BY <2>4
    <3> QED
      BY <2>2, <2>4, <3>1
  <2> QED
    BY <2>3, <2>4
<1>10. PICK a \in SUBSET FlagNames, b \in SUBSET FlagNames :
         /\ a = S \ {"send"} /\ b = a \ {"receive"} /\ b \ {"debt"} = {}
         /\ ("receive" \in a <=> "receive" \in S) /\ ("debt" \in b <=> "debt" \in S)
  <2>1. (S \ {"send"}) \in SUBSET FlagNames /\ ((S \ {"send"}) \ {"receive"}) \in SUBSET FlagNames
    OBVIOUS
  <2>2. ((S \ {"send"}) \ {"receive"}) \ {"debt"} = {}
    BY DEF FlagNames
  <2>3. "receive" # "send" /\ "debt" # "send" /\ "debt" # "receive"
    OBVIOUS
  <2> QED
    BY <2>1, <2>2, <2>3, ZenonT(30)
<1>11. SumFunctionOnSet(f, {}) = 0
  BY SumOfNone
<1>12. /\ SumFunctionOnSet(f, S) = (IF "send" \in S THEN 1 ELSE 0) + SumFunctionOnSet(f, a)
       /\ SumFunctionOnSet(f, a) = (IF "receive" \in S THEN 2 ELSE 0) + SumFunctionOnSet(f, b)
       /\ SumFunctionOnSet(f, b) = (IF "debt" \in S THEN 4 ELSE 0) + 0
       /\ SumFunctionOnSet(f, a) \in Int /\ SumFunctionOnSet(f, b) \in Int
  <2>1. "send" \in FlagNames /\ "receive" \in FlagNames /\ "debt" \in FlagNames
    BY DEF FlagNames
  <2> QED
    BY <1>9, <1>10, <1>11, <2>1, BitIs
<1> QED
  BY <1>8, <1>12 DEF Weight

\* A bit is set in the weight of the flags it stands for, and is added once.
LEMMA WeightBits ==
    ASSUME NEW S \in SUBSET FlagNames, NEW x \in FlagNames
    PROVE  /\ Weight(S) \in 0 .. 7
           /\ HasBit(Weight(S), x) <=> x \in S
           /\ Weight(S \cup {x}) = IF x \in S THEN Weight(S) ELSE Weight(S) + Bit(x)
<1>1. Weight(S) \in 0 .. 7
  BY DEF Weight
<1>2. HasBit(Weight(S), x) <=> x \in S
  <2>1. CASE x = "send"
    BY <2>1, BitIs DEF Weight, HasBit
  <2>2. CASE x = "receive"
    BY <2>2, BitIs DEF Weight, HasBit
  <2>3. CASE x = "debt"
    BY <2>3, BitIs DEF Weight, HasBit
  <2> QED
    BY <2>1, <2>2, <2>3 DEF FlagNames
<1>3. Weight(S \cup {x}) = IF x \in S THEN Weight(S) ELSE Weight(S) + Bit(x)
  <2>1. CASE x = "send"
    BY <2>1, BitIs DEF Weight
  <2>2. CASE x = "receive"
    BY <2>2, BitIs DEF Weight
  <2>3. CASE x = "debt"
    BY <2>3, BitIs DEF Weight
  <2> QED
    BY <2>1, <2>2, <2>3 DEF FlagNames
<1> QED
  BY <1>1, <1>2, <1>3

\* A list of flags becomes the byte of its flags, each once.
LEMMA FlagsSet ==
    ASSUME NEW list \in Seq(FlagNames)
    PROVE  LET S == {list[i] : i \in DOMAIN list}
           IN  S \in SUBSET FlagNames /\ ToUint8(list) = Weight(S) /\ ToUint8(list) \in 0 .. 7
<1> DEFINE n == Len(list)
           N == 1 .. n
           op(flags, name) == IF HasBit(flags, name) THEN flags ELSE flags + Bit(name)
           A(g) == [s \in SUBSET N |->
                      IF s = {} THEN 0 ELSE op(g[s \ {Largest(s)}], list[Largest(s)])]
           G == [y \in Nat \X N |-> op(y[1], list[y[2]])]
           T == CHOOSE g : g = A(g)
           S(i) == {list[j] : j \in 1 .. i}
           P(i) == S(i) \in SUBSET FlagNames /\ T[1 .. i] = Weight(S(i))
           I == {i \in Nat : i <= n => P(i)}
<1>0. n \in Nat /\ DOMAIN list = N /\ \A i \in N : list[i] \in FlagNames
  BY LenProperties, ElementOfSeq
<1>1. ToUint8(list) = T[N]
  BY <1>0 DEF ToUint8, FoldLeft, MapThenFoldSet, Max, Largest
<1>2. T = A(T)
  <2>1. \A x \in FlagNames : Bit(x) \in Nat
    BY BitIs DEF FlagNames
  <2>2. 0 \in Nat /\ G \in [Nat \X N -> Nat]
    BY <1>0, <2>1
  <2>3. \A v \in Nat, i \in N : G[<<v, i>>] = op(v, list[i])
    OBVIOUS
  <2>4. \A s \in SUBSET N : s # {} => Largest(s) \in N
    <3> SUFFICES ASSUME NEW s \in SUBSET N, s # {} PROVE Largest(s) \in N
      OBVIOUS
    <3>1. s \in SUBSET (0 .. n)
      BY <1>0
    <3>2. Largest(s) \in s
      BY <1>0, <3>1, LargestIs
    <3> QED
      BY <3>2
  <2> HIDE DEF G, op
  <2>5. PICK g : LeftFolds(n, Nat, 0, G, g)
    <3>1. Foldable(n, Nat, 0, G)
      BY <1>0, <2>2 DEF Foldable
    <3> QED
      BY <3>1, LeftFoldsExist
  <2>6. \A s \in SUBSET N : s # {} => g[s \ {Largest(s)}] \in Nat
    BY <2>5 DEF LeftFolds
  <2>7. g = A(g)
    BY <2>3, <2>4, <2>5, <2>6 DEF LeftFolds
  <2> HIDE DEF A
  <2> QED
    BY <2>7
<1> HIDE DEF T
<1>3. P(0)
  <2>1. 1 .. 0 = {} /\ S(0) = {} /\ {} \in SUBSET N
    OBVIOUS
  <2>2. T[{}] = 0 /\ Weight({}) = 0
    BY <1>2, <2>1 DEF Weight
  <2> QED
    BY <2>1, <2>2
<1>4. ASSUME NEW i \in Nat, i + 1 <= n, P(i) PROVE P(i + 1)
  <2>1. Largest(1 .. i + 1) = i + 1 /\ (1 .. i + 1) \ {i + 1} = 1 .. i
    BY LargestOfInterval
  <2>2. /\ 1 .. i + 1 \in SUBSET N /\ 1 .. i + 1 # {}
        /\ i + 1 \in N /\ list[i + 1] \in FlagNames
    BY <1>0, <1>4
  <2>3. T[1 .. i + 1] = op(T[1 .. i], list[i + 1])
    <3>1. T[1 .. i + 1] = A(T)[1 .. i + 1]
      <4> HIDE DEF A
      <4> QED
        BY <1>2
    <3> HIDE DEF op
    <3> QED
      BY <2>1, <2>2, <3>1
  <2>4. S(i + 1) = S(i) \cup {list[i + 1]}
    BY <2>1, <2>2
  <2>5. S(i) \in SUBSET FlagNames /\ T[1 .. i] = Weight(S(i))
    BY <1>4
  <2>6. S(i + 1) \in SUBSET FlagNames
    BY <2>2, <2>4, <2>5
  <2> HIDE DEF S
  <2>7. /\ HasBit(Weight(S(i)), list[i + 1]) <=> list[i + 1] \in S(i)
        /\ Weight(S(i) \cup {list[i + 1]})
             = IF list[i + 1] \in S(i) THEN Weight(S(i)) ELSE Weight(S(i)) + Bit(list[i + 1])
    BY <2>2, <2>5, WeightBits
  <2> QED
    BY <2>3, <2>4, <2>5, <2>6, <2>7
<1>5. P(n)
  <2>1. 0 \in I
    BY <1>3
  <2>2. ASSUME NEW i \in Nat, i \in I PROVE i + 1 \in I
    <3>1. i + 1 <= n => i <= n
      BY <1>0
    <3> HIDE DEF P
    <3> QED
      BY <1>4, <2>2, <3>1
  <2>3. Nat \subseteq I
    <3> HIDE DEF I
    <3> QED
      BY <2>1, <2>2, NatInduct
  <2> HIDE DEF P
  <2> QED
    BY <1>0, <2>3
<1>6. Weight(S(n)) \in 0 .. 7
  <2> HIDE DEF S
  <2> QED
    BY <1>5 DEF Weight
<1> QED
  BY <1>0, <1>1, <1>5, <1>6

-----------------------------------------------------------------------------
(* Amounts, and the text of a response.                                    *)

\* An amount that is read has 128 bits, and is the one of the body unless that is below 0.
LEMMA AmountIs ==
    ASSUME NEW n \in Int, n <= U128Max
    PROVE  ParseAmount(n) \in 0 .. U128Max /\ (n >= 0 => ParseAmount(n) = n)
<1> DEFINE half == U64Max + 1
           high == IF n >= 0 THEN n \div half ELSE (U64Max - n) \div half
<1>0. half \in Nat \ {0} /\ U128Max = half * half - 1 /\ U64Max \in Nat
  BY DecoderAssumption, CodecAssumption
<1>1. ParseAmount(n) = (high % half) * half + (n % half)
  BY DEF ParseAmount
<1>2. high \in Int
  <2>1. n >= 0 => n \in Nat /\ n \div half \in Int
    BY <1>0, Division
  <2>2. ~(n >= 0) => (U64Max - n) \in Int /\ (U64Max - n) \div half \in Int
    BY <1>0, Division
  <2> QED
    BY <2>1, <2>2
<1> HIDE DEF half
<1>3. PICK h \in 0 .. half - 1, l \in 0 .. half - 1 : h = high % half /\ l = n % half
  <2> HIDE DEF high
  <2>1. high % half \in 0 .. half - 1 /\ n % half \in 0 .. half - 1
    BY <1>0, <1>2, Division
  <2> QED
    BY <2>1
<1>4. h * half <= (half - 1) * half /\ h * half >= 0
  BY <1>0, <1>3
<1>5. h * half + l \in 0 .. U128Max
  BY <1>0, <1>3, <1>4
<1>6. ASSUME n >= 0 PROVE h * half + l = n
  <2>1. PICK q \in Nat : q = n \div half /\ n = q * half + l
    <3>1. n \in Nat
      BY <1>6
    <3>2. n \div half \in Nat /\ n = (n \div half) * half + (n % half)
      BY <1>0, <3>1, Quotient
    <3> QED
      BY <1>3, <3>2
  <2>2. q < half
    <3> SUFFICES ASSUME q >= half PROVE FALSE
      BY <1>0, <2>1
    <3>1. q * half >= half * half
      BY <1>0
    <3> QED
      BY <1>0, <1>3, <2>1, <3>1
  <2>3. h = q
    <3>1. high = q
      BY <1>6, <2>1
    <3>2. q % half = q
      BY <1>0, <2>1, <2>2, Quotient
    <3> QED
      BY <1>3, <3>1, <3>2
  <2> QED
    BY <2>1, <2>3
<1> QED
  BY <1>1, <1>3, <1>5, <1>6

LEMMA ByteScaleIs ==
    /\ Byte \in Nat \ {0, 1} /\ ByteScale[0] = 1
    /\ \A n \in Nat : ByteScale[n] \in Nat \ {0} /\ ByteScale[n + 1] = Byte * ByteScale[n]
<1>1. ByteScale = CHOOSE f : f = [n \in Nat |-> IF n = 0 THEN 1 ELSE Byte * f[n - 1]]
  BY DEF ByteScale
<1>2. Byte \in Nat \ {0, 1}
  <2>1. Nibble \in Nat /\ Nibble >= 2
    BY CodecAssumption
  <2>2. Nibble * Nibble >= 2 * Nibble
    BY <2>1
  <2> QED
    BY <2>1, <2>2 DEF Byte
<1>3. ByteScale[0] = 1 /\ \A n \in Nat : ByteScale[n] \in Nat /\ ByteScale[n + 1] = Byte * ByteScale[n]
  BY <1>1, <1>2, PowersOf
<1> DEFINE S == {k \in Nat : ByteScale[k] # 0}
<1>4. 0 \in S
  BY <1>3
<1>5. ASSUME NEW k \in Nat, k \in S PROVE k + 1 \in S
  <2>1. PICK s \in Nat \ {0} : s = ByteScale[k] /\ ByteScale[k + 1] = Byte * s
    BY <1>3, <1>5
  <2>2. Byte * s >= 1 * s
    BY <1>2
  <2> QED
    BY <1>2, <2>1, <2>2
<1>6. Nat \subseteq S
  <2> HIDE DEF S
  <2> QED
    BY <1>4, <1>5, NatInduct
<1> QED
  BY <1>2, <1>3, <1>6

\* What is left of a number when its low bytes are taken away, one more at a time.
LEMMA BytesAbove ==
    ASSUME NEW v \in Nat, NEW i \in Nat
    PROVE  /\ v \div ByteScale[i] \in Nat /\ v \div ByteScale[i + 1] \in Nat
           /\ ByteOf(v, i + 1) \in 0 .. Byte - 1
           /\ v \div ByteScale[i] = (v \div ByteScale[i + 1]) * Byte + ByteOf(v, i + 1)
<1>1. PICK s \in Nat \ {0} : s = ByteScale[i] /\ ByteScale[i + 1] = Byte * s
  BY ByteScaleIs
<1>2. v \div (Byte * s) = (v \div s) \div Byte
  BY ByteScaleIs, QuotientTwice
<1>3. PICK q \in Nat : q = v \div s
  BY Quotient
<1>4. q \div Byte \in Nat /\ (q % Byte) \in 0 .. Byte - 1 /\ q = (q \div Byte) * Byte + (q % Byte)
  BY ByteScaleIs, Quotient
<1>5. ByteOf(v, i + 1) = q % Byte
  <2>1. (i + 1) - 1 = i
    OBVIOUS
  <2> QED
    BY <1>1, <1>3, <2>1 DEF ByteOf
<1> QED
  BY <1>1, <1>2, <1>3, <1>4, <1>5

\* The bytes that are kept hold the number.
LEMMA KeptIs ==
    ASSUME NEW v \in Nat, NEW size \in Nat \ {0}, v < ByteScale[size]
    PROVE  Kept(v, size) \in 1 .. size /\ v < ByteScale[Kept(v, size)]
<1> DEFINE U == {1} \cup {i \in 1 .. size : ByteOf(v, i) # 0}
           k == Kept(v, size)
<1>1. U \in SUBSET (0 .. size) /\ U # {} /\ size \in Nat
  OBVIOUS
<1>2. k = Largest(U)
  BY DEF Kept, Max, Largest
<1>3. k \in U /\ \A y \in U : k >= y
  BY <1>1, <1>2, LargestIs
<1> HIDE DEF k
<1>4. k \in 1 .. size /\ \A i \in 1 .. size : i > k => ByteOf(v, i) = 0
  BY <1>3
<1> HIDE DEF U
<1> DEFINE S == {j \in Nat : j <= size - k => v < ByteScale[size - j]}
<1>5. 0 \in S
  <2>1. size - 0 = size
    OBVIOUS
  <2> QED
    BY <2>1
<1>6. ASSUME NEW j \in Nat, j \in S PROVE j + 1 \in S
  <2> SUFFICES ASSUME j + 1 <= size - k PROVE v < ByteScale[size - (j + 1)]
    OBVIOUS
  <2>1. PICK i \in Nat : i = size - (j + 1) /\ i + 1 = size - j /\ i + 1 \in 1 .. size /\ i + 1 > k
    <3>1. /\ size - (j + 1) \in Nat /\ (size - (j + 1)) + 1 = size - j
          /\ size - j \in 1 .. size /\ size - j > k
      BY <1>4
    <3> QED
      BY <3>1
  <2>2. v < ByteScale[i + 1]
    <3>1. j <= size - k
      BY <1>4
    <3> QED
      BY <1>6, <2>1, <3>1
  <2>3. ByteOf(v, i + 1) = 0
    BY <1>4, <2>1
  <2>4. v \div ByteScale[i + 1] = 0
    <3>1. PICK s \in Nat \ {0} : s = ByteScale[i + 1]
      BY ByteScaleIs
    <3>2. v < s
      BY <2>2, <3>1
    <3> QED
      BY <3>1, <3>2, Quotient
  <2>5. v \div ByteScale[i] = 0
    BY <2>3, <2>4, BytesAbove, ByteScaleIs
  <2>6. PICK s \in Nat \ {0} : s = ByteScale[i]
    BY ByteScaleIs
  <2>7. v = (v \div s) * s + (v % s) /\ (v % s) \in 0 .. s - 1
    BY Quotient
  <2>8. v = v % s
    BY <2>5, <2>6, <2>7
  <2> QED
    BY <2>1, <2>6, <2>7, <2>8
<1>7. size - k \in S
  <2>1. Nat \subseteq S
    <3> HIDE DEF S
    <3> QED
      BY <1>5, <1>6, NatInduct
  <2>2. size - k \in Nat
    BY <1>4
  <2> HIDE DEF S
  <2> QED
    BY <2>1, <2>2
<1>8. size - (size - k) = k /\ size - k <= size - k
  BY <1>4
<1> QED
  BY <1>4, <1>7, <1>8 DEF k

\* h holds the values of the first places of a hexadecimal number.
ReadsNibbles(text, h) ==
    /\ h[0] = 0
    /\ \A i \in 0 .. Len(text) - 1 : h[i + 1] = h[i] * Nibble + text[i + 1]
    /\ Hexadecimal(text) = h[Len(text)]

LEMMA NibblesRead ==
    ASSUME NEW text \in Seq(Nat)
    PROVE  \E h : ReadsNibbles(text, h)
<1> DEFINE n == Len(text)
           N == 1 .. n
           A(g) == [s \in SUBSET N |->
                      IF s = {} THEN 0 ELSE g[s \ {Largest(s)}] * Nibble + text[Largest(s)]]
           G == [y \in Nat \X N |-> y[1] * Nibble + text[y[2]]]
           T == CHOOSE g : g = A(g)
           h == [i \in Nat |-> T[1 .. i]]
<1>0. n \in Nat /\ DOMAIN text = N /\ (\A i \in N : text[i] \in Nat) /\ Nibble \in Nat
  BY LenProperties, ElementOfSeq, CodecAssumption
<1>1. Hexadecimal(text) = T[N]
  BY <1>0 DEF Hexadecimal, FoldLeft, MapThenFoldSet, Max, Largest
<1>2. T = A(T)
  <2>1. G \in [Nat \X N -> Nat]
    <3>1. \A v \in Nat, w \in Nat : v * Nibble + w \in Nat
      BY <1>0
    <3>2. \A y \in Nat \X N : y[1] \in Nat /\ text[y[2]] \in Nat
      BY <1>0
    <3> QED
      BY <3>1, <3>2
  <2>2. \A v \in Nat, i \in N : G[<<v, i>>] = v * Nibble + text[i]
    OBVIOUS
  <2>3. \A s \in SUBSET N : s # {} => Largest(s) \in N
    <3> SUFFICES ASSUME NEW s \in SUBSET N, s # {} PROVE Largest(s) \in N
      OBVIOUS
    <3>1. s \in SUBSET (0 .. n)
      BY <1>0
    <3>2. Largest(s) \in s
      BY <1>0, <3>1, LargestIs
    <3> QED
      BY <3>2
  <2> HIDE DEF G
  <2>4. PICK g : LeftFolds(n, Nat, 0, G, g)
    <3>1. Foldable(n, Nat, 0, G)
      BY <1>0, <2>1 DEF Foldable
    <3> QED
      BY <3>1, LeftFoldsExist
  <2>5. \A s \in SUBSET N : s # {} => g[s \ {Largest(s)}] \in Nat
    BY <2>4 DEF LeftFolds
  <2>6. g = A(g)
    BY <2>2, <2>3, <2>4, <2>5 DEF LeftFolds
  <2> HIDE DEF A
  <2> QED
    BY <2>6
<1> HIDE DEF T
<1>3. h[0] = 0
  <2>1. 1 .. 0 = {} /\ {} \in SUBSET N
    OBVIOUS
  <2> QED
    BY <1>2, <2>1
<1>4. ASSUME NEW i \in 0 .. n - 1 PROVE h[i + 1] = h[i] * Nibble + text[i + 1]
  <2>0. i \in Nat /\ i + 1 <= n
    BY <1>0
  <2>1. Largest(1 .. i + 1) = i + 1 /\ (1 .. i + 1) \ {i + 1} = 1 .. i
    BY <2>0, LargestOfInterval
  <2>2. 1 .. i + 1 \in SUBSET N /\ 1 .. i + 1 # {}
    <3>1. i + 1 \in 1 .. i + 1
      BY <2>0
    <3>2. \A j \in 1 .. i + 1 : j \in 1 .. n
      BY <1>0, <2>0
    <3> QED
      BY <3>1, <3>2
  <2>3. T[1 .. i + 1] = A(T)[1 .. i + 1]
    <3> HIDE DEF A
    <3> QED
      BY <1>2
  <2>4. T[1 .. i + 1] = T[1 .. i] * Nibble + text[i + 1]
    BY <2>1, <2>2, <2>3
  <2> QED
    BY <2>4
<1>5. Hexadecimal(text) = h[n]
  BY <1>0, <1>1
<1> QED
  BY <1>3, <1>4, <1>5 DEF ReadsNibbles

\* A digit more stands behind the others.
LEMMA HexadecimalIs ==
    ASSUME NEW text \in Seq(Nat), NEW d \in Nat
    PROVE  /\ Hexadecimal(<<>>) = 0
           /\ Hexadecimal(text) \in Nat
           /\ Hexadecimal(Append(text, d)) = Hexadecimal(text) * Nibble + d
<1> DEFINE u == Append(text, d)
           n == Len(text)
<1>0. /\ n \in Nat /\ u \in Seq(Nat) /\ Len(u) = n + 1 /\ u[n + 1] = d
      /\ \A i \in 1 .. n : u[i] = text[i] /\ text[i] \in Nat
  BY LenProperties, ElementOfSeq, AppendProperties
<1>1. Hexadecimal(<<>>) = 0
  <2>1. <<>> \in Seq(Nat) /\ Len(<<>>) = 0
    BY EmptySeq
  <2> QED
    BY <2>1, NibblesRead DEF ReadsNibbles
<1>2. PICK h : ReadsNibbles(text, h)
  BY NibblesRead
<1>3. PICK g : ReadsNibbles(u, g)
  BY <1>0, NibblesRead
<1> DEFINE S == {i \in Nat : i <= n => g[i] = h[i] /\ h[i] \in Nat}
<1>4. 0 \in S
  BY <1>2, <1>3 DEF ReadsNibbles
<1>5. ASSUME NEW i \in Nat, i \in S PROVE i + 1 \in S
  <2> SUFFICES ASSUME i + 1 <= n PROVE g[i + 1] = h[i + 1] /\ h[i + 1] \in Nat
    OBVIOUS
  <2>1. i \in 0 .. n - 1 /\ i \in 0 .. (n + 1) - 1 /\ i + 1 \in 1 .. n
    BY <1>0
  <2>2. h[i + 1] = h[i] * Nibble + text[i + 1] /\ g[i + 1] = g[i] * Nibble + u[i + 1]
    BY <1>0, <1>2, <1>3, <2>1 DEF ReadsNibbles
  <2>3. g[i] = h[i] /\ h[i] \in Nat
    BY <1>0, <1>5, <2>1
  <2>4. u[i + 1] = text[i + 1] /\ text[i + 1] \in Nat /\ Nibble \in Nat
    BY <1>0, <2>1, CodecAssumption
  <2>5. PICK x \in Nat, y \in Nat, m \in Nat : x = h[i] /\ y = text[i + 1] /\ m = Nibble
    BY <2>3, <2>4
  <2>6. h[i + 1] = x * m + y /\ g[i + 1] = x * m + y
    BY <2>2, <2>3, <2>4, <2>5
  <2>7. x * m + y \in Nat
    OBVIOUS
  <2> QED
    BY <2>6, <2>7
<1>6. g[n] = h[n] /\ h[n] \in Nat
  <2>1. Nat \subseteq S
    <3> HIDE DEF S
    <3> QED
      BY <1>4, <1>5, NatInduct
  <2> QED
    BY <1>0, <2>1
<1>7. g[n + 1] = g[n] * Nibble + d
  <2>1. n \in 0 .. (n + 1) - 1
    BY <1>0
  <2> QED
    BY <1>0, <1>3, <2>1 DEF ReadsNibbles
<1>8. Hexadecimal(text) = h[n] /\ Hexadecimal(u) = g[n + 1]
  BY <1>0, <1>2, <1>3 DEF ReadsNibbles
<1> QED
  BY <1>1, <1>6, <1>7, <1>8

LEMMA PairRead ==
    ASSUME NEW text \in Seq(Nat), NEW b \in 0 .. Byte - 1
    PROVE  LET u == text \o <<b \div Nibble, b % Nibble>>
           IN  /\ u \in Seq(Nat) /\ Len(u) = Len(text) + 2
               /\ Hexadecimal(u) = Hexadecimal(text) * Byte + b
<1>0. Nibble \in Nat \ {0} /\ b \in Nat
  BY CodecAssumption, ByteScaleIs
<1>1. PICK x \in Nat, y \in Nat : x = b \div Nibble /\ y = b % Nibble /\ b = x * Nibble + y
  <2>1. b \div Nibble \in Nat /\ (b % Nibble) \in 0 .. Nibble - 1
    BY <1>0, Quotient
  <2>2. b = (b \div Nibble) * Nibble + (b % Nibble)
    BY <1>0, Quotient
  <2>3. (b % Nibble) \in Nat
    BY <1>0, <2>1
  <2> QED
    BY <2>1, <2>2, <2>3
<1>2. text \o <<x, y>> = Append(Append(text, x), y)
  <2>1. <<x, y>> = Append(<<x>>, y) /\ <<x>> = Append(<<>>, x) /\ <<x>> \in Seq(Nat) /\ <<>> \in Seq(Nat)
    OBVIOUS
  <2>2. text \o Append(<<x>>, y) = Append(text \o <<x>>, y)
    BY <2>1, AppendLast
  <2>3. text \o Append(<<>>, x) = Append(text \o <<>>, x)
    BY <2>1, AppendLast
  <2>4. text \o <<>> = text
    BY ConcatEmptySeq
  <2> QED
    BY <2>1, <2>2, <2>3, <2>4
<1>3. /\ Append(text, x) \in Seq(Nat) /\ Len(Append(text, x)) = Len(text) + 1 /\ Len(text) \in Nat
      /\ Append(Append(text, x), y) \in Seq(Nat) /\ Len(Append(Append(text, x), y)) = Len(text) + 1 + 1
  BY AppendProperties, LenProperties
<1>4. /\ Hexadecimal(text) \in Nat
      /\ Hexadecimal(Append(text, x)) = Hexadecimal(text) * Nibble + x
      /\ Hexadecimal(Append(Append(text, x), y)) = Hexadecimal(Append(text, x)) * Nibble + y
  BY <1>3, HexadecimalIs
<1>5. PICK m \in Nat : m = Hexadecimal(text)
  BY <1>4
<1>6. (m * Nibble + x) * Nibble + y = m * Byte + b
  <2>1. PICK k \in Nat : k = Nibble
    BY <1>0
  <2>2. (m * k + x) * k = m * (k * k) + x * k
    OBVIOUS
  <2>3. Byte = k * k /\ b = x * k + y
    BY <1>1, <2>1 DEF Byte
  <2> QED
    BY <2>1, <2>2, <2>3
<1>7. text \o <<b \div Nibble, b % Nibble>> = Append(Append(text, x), y)
  BY <1>1, <1>2
<1>8. Len(text) + 1 + 1 = Len(text) + 2
  BY <1>3
<1>9. Hexadecimal(Append(Append(text, x), y)) = Hexadecimal(text) * Byte + b
  BY <1>4, <1>5, <1>6
<1> QED
  BY <1>3, <1>7, <1>8, <1>9

\* The hexadecimal digits of an integer of some bytes: not none, two for each byte that is
\* kept, and they are read as the integer.
LEMMA IntegerRead ==
    ASSUME NEW v \in Nat, NEW size \in Nat \ {0}, v < ByteScale[size]
    PROVE  LET text == RunInteger(v, size)
           IN  /\ text \in Seq(Nat) /\ text # <<>> /\ Len(text) \in Nat /\ Len(text) <= 2 * size
               /\ Hexadecimal(text) = v
<1> DEFINE skip == Kept(v, size)
           pair(b) == <<b \div Nibble, b % Nibble>>
           seqs == [i \in 1 .. skip |-> pair(ByteOf(v, skip + 1 - i))]
<1>0. skip \in 1 .. size /\ v < ByteScale[skip] /\ skip \in Nat
  BY KeptIs
<1>1. \A b \in 0 .. Byte - 1 : pair(b) \in Seq(Nat)
  <2> SUFFICES ASSUME NEW b \in 0 .. Byte - 1 PROVE pair(b) \in Seq(Nat)
    OBVIOUS
  <2>0. b \in Nat /\ Nibble \in Nat \ {0}
    BY ByteScaleIs, CodecAssumption
  <2>1. b \div Nibble \in Nat /\ (b % Nibble) \in 0 .. Nibble - 1
    BY <2>0, Quotient
  <2>2. (b % Nibble) \in Nat
    BY <2>0, <2>1
  <2> QED
    BY <2>1, <2>2
<1>2. \A i \in 1 .. skip : ByteOf(v, skip + 1 - i) \in 0 .. Byte - 1
  <2> SUFFICES ASSUME NEW i \in 1 .. skip PROVE ByteOf(v, skip + 1 - i) \in 0 .. Byte - 1
    OBVIOUS
  <2>1. skip - i \in Nat /\ (skip - i) + 1 = skip + 1 - i
    BY <1>0
  <2> QED
    BY <2>1, BytesAbove
<1> HIDE DEF pair
<1>3. seqs \in Seq(Seq(Nat)) /\ Len(seqs) = skip
  <2> HIDE DEF skip
  <2>1. seqs \in [1 .. skip -> Seq(Nat)]
    BY <1>1, <1>2
  <2> QED
    BY <1>0, <2>1, IsASeq, LenProperties
<1>4. PICK f : Flattens(seqs, f)
  <2>1. Len(seqs) # 0
    BY <1>0, <1>3
  <2> HIDE DEF seqs
  <2> QED
    BY <1>3, <2>1, Flattened
<1> HIDE DEF skip
<1> DEFINE P(i) == /\ f[i] \in Seq(Nat) /\ Len(f[i]) = 2 * i
                   /\ Hexadecimal(f[i]) = v \div ByteScale[skip - i]
           S == {i \in Nat : i + 1 <= skip => P(i + 1)}
<1>5. \A i \in 1 .. skip : seqs[i] = pair(ByteOf(v, skip + 1 - i))
  OBVIOUS
<1>6. f[1] = seqs[1] /\ \A i \in 1 .. skip - 1 : f[i + 1] = f[i] \o seqs[i + 1]
  BY <1>3, <1>4 DEF Flattens
<1>7. RunInteger(v, size) = f[skip]
  BY <1>3, <1>4 DEF Flattens, RunInteger, skip, pair
<1> HIDE DEF seqs
\* A byte behind others, the first of which are those above it.
<1>8. ASSUME NEW text \in Seq(Nat), NEW i \in 0 .. skip - 1, Len(text) = 2 * i,
             Hexadecimal(text) = v \div ByteScale[skip - i]
      PROVE  LET u == text \o seqs[i + 1]
             IN  /\ u \in Seq(Nat) /\ Len(u) = 2 * (i + 1)
                 /\ Hexadecimal(u) = v \div ByteScale[skip - (i + 1)]
  <2>1. PICK j \in Nat : j = skip - (i + 1) /\ j + 1 = skip - i /\ skip + 1 - (i + 1) = j + 1
    <3>1. /\ skip - (i + 1) \in Nat /\ (skip - (i + 1)) + 1 = skip - i
          /\ skip + 1 - (i + 1) = skip - i
      BY <1>0
    <3> QED
      BY <3>1
  <2>2. PICK b \in 0 .. Byte - 1 : b = ByteOf(v, j + 1)
    BY BytesAbove
  <2>3. seqs[i + 1] = <<b \div Nibble, b % Nibble>>
    <3>1. i + 1 \in 1 .. skip
      BY <1>0
    <3>2. seqs[i + 1] = pair(ByteOf(v, skip + 1 - (i + 1)))
      BY <1>5, <3>1
    <3> QED
      BY <2>1, <2>2, <3>2 DEF pair
  <2>4. LET u == text \o <<b \div Nibble, b % Nibble>>
        IN  /\ u \in Seq(Nat) /\ Len(u) = Len(text) + 2
            /\ Hexadecimal(u) = Hexadecimal(text) * Byte + b
    BY PairRead
  <2>5. v \div ByteScale[j] = (v \div ByteScale[j + 1]) * Byte + b
    BY <2>2, BytesAbove
  <2>6. 2 * i + 2 = 2 * (i + 1)
    BY <1>0
  <2> QED
    BY <1>8, <2>1, <2>3, <2>4, <2>5, <2>6
<1>9. 0 \in S
  <2>1. <<>> \in Seq(Nat) /\ Len(<<>>) = 2 * 0 /\ Hexadecimal(<<>>) = 0 /\ 0 \in 0 .. skip - 1
    <3>1. <<>> \in Seq(Nat) /\ 0 \in Nat /\ Len(<<>>) = 0
      BY EmptySeq
    <3>2. Hexadecimal(<<>>) = 0
      BY <3>1, HexadecimalIs
    <3> QED
      BY <1>0, <3>1, <3>2
  <2>2. v \div ByteScale[skip - 0] = 0
    <3>1. PICK s \in Nat \ {0} : s = ByteScale[skip] /\ v < s
      BY <1>0, ByteScaleIs
    <3>2. skip - 0 = skip
      BY <1>0
    <3> QED
      BY <3>1, <3>2, Quotient
  <2>3. LET u == <<>> \o seqs[0 + 1]
        IN  /\ u \in Seq(Nat) /\ Len(u) = 2 * (0 + 1)
            /\ Hexadecimal(u) = v \div ByteScale[skip - (0 + 1)]
    BY <1>8, <2>1, <2>2
  <2>4. <<>> \o seqs[1] = f[1] /\ 0 + 1 = 1
    <3>1. seqs[1] \in Seq(Nat)
      <4>1. 1 \in 1 .. skip
        BY <1>0
      <4> QED
        BY <1>1, <1>2, <1>5, <4>1
    <3> QED
      BY <1>6, <3>1, ConcatEmptySeq
  <2> QED
    BY <2>3, <2>4
<1>10. ASSUME NEW i \in Nat, i \in S PROVE i + 1 \in S
  <2> SUFFICES ASSUME (i + 1) + 1 <= skip PROVE P((i + 1) + 1)
    OBVIOUS
  <2>1. PICK j \in 1 .. skip - 1 : j = i + 1
    BY <1>0
  <2>2. P(j)
    BY <1>0, <1>10, <2>1
  <2>3. j \in 0 .. skip - 1 /\ f[j + 1] = f[j] \o seqs[j + 1]
    <3>1. j \in 0 .. skip - 1
      BY <1>0
    <3>2. f[j + 1] = f[j] \o seqs[j + 1]
      BY <1>6
    <3> QED
      BY <3>1, <3>2
  <2>4. LET u == f[j] \o seqs[j + 1]
        IN  /\ u \in Seq(Nat) /\ Len(u) = 2 * (j + 1)
            /\ Hexadecimal(u) = v \div ByteScale[skip - (j + 1)]
    BY <1>8, <2>2, <2>3
  <2> QED
    BY <2>1, <2>3, <2>4
<1>11. P(skip)
  <2>1. Nat \subseteq S
    <3> HIDE DEF S
    <3> QED
      BY <1>9, <1>10, NatInduct
  <2>2. skip - 1 \in Nat /\ (skip - 1) + 1 = skip
    BY <1>0
  <2> HIDE DEF P
  <2> QED
    BY <1>0, <2>1, <2>2
<1>12. v \div ByteScale[skip - skip] = v
  <2>1. skip - skip = 0 /\ ByteScale[0] = 1
    BY <1>0, ByteScaleIs
  <2> QED
    BY <2>1
<1>13. f[skip] # <<>> /\ 2 * skip <= 2 * size /\ 2 * skip \in Nat
  BY <1>0, <1>11
<1> QED
  BY <1>7, <1>11, <1>12, <1>13

\* The place where a field begins is behind the field before and a space.
LEMMA LengthBeforeIs ==
    ASSUME NEW m \in Nat, NEW fields, \A j \in 1 .. m : Len(fields[j]) \in Nat
    PROVE  /\ LengthBefore(fields, 1) = 4
           /\ \A i \in 1 .. m : /\ LengthBefore(fields, i) \in Int
                                /\ LengthBefore(fields, i + 1) = LengthBefore(fields, i) + Len(fields[i]) + 1
<1> DEFINE f == [j \in 1 .. m |-> Len(fields[j]) + 1]
<1>1. \A j \in 1 .. m : f[j] = Len(fields[j]) + 1 /\ f[j] \in Int
  OBVIOUS
<1>2. ASSUME NEW S \in SUBSET (1 .. m)
      PROVE  /\ MapThenSumSet(LAMBDA j : Len(fields[j]) + 1, S) = SumFunctionOnSet(f, S)
             /\ IsFiniteSet(S)
  <2> DEFINE A(g) == [s \in SUBSET S |->
                        IF s = {} THEN 0
                        ELSE (Len(fields[CHOOSE x \in s : TRUE]) + 1) + g[s \ {CHOOSE x \in s : TRUE}]]
             T == CHOOSE g : g = A(g)
  <2>1. IsFiniteSet(S)
    <3>1. 1 \in Int /\ m \in Int
      OBVIOUS
    <3> QED
      BY <3>1, FS_Interval, FS_Subset
  <2>2. \A g : A(g) = SumsOf(f, S, g)
    <3> SUFFICES ASSUME NEW g PROVE A(g) = SumsOf(f, S, g)
      OBVIOUS
    <3>1. \A s \in SUBSET S : s # {} => f[Chosen(s)] = Len(fields[Chosen(s)]) + 1
      BY <1>1, ChosenIn
    <3> HIDE DEF f
    <3> QED
      BY <3>1 DEF SumsOf, Chosen
  <2>3. MapThenSumSet(LAMBDA j : Len(fields[j]) + 1, S) = T[S]
    BY DEF MapThenSumSet, MapThenFoldSet
  <2> HIDE DEF A, f
  <2>4. PICK g : g = SumsOf(f, S, g)
    BY <1>1, <2>1, SumsExist
  <2>5. T = A(T)
    BY <2>2, <2>4
  <2> HIDE DEF T
  <2>6. T = SumsOf(f, S, T)
    BY <2>2, <2>5
  <2>7. SumFunctionOnSet(f, S) = T[S]
    <3>1. \A x \in S : f[x] \in Int
      BY <1>1
    <3> QED
      BY <2>1, <2>6, <3>1, SumByFolding
  <2> QED
    BY <2>1, <2>3, <2>7
<1>3. ASSUME NEW i \in 1 .. m + 1
      PROVE  LengthBefore(fields, i) = 4 + SumFunctionOnSet(f, 1 .. i - 1)
  <2>1. 1 .. i - 1 \in SUBSET (1 .. m)
    OBVIOUS
  <2> HIDE DEF f
  <2>2. MapThenSumSet(LAMBDA j : Len(fields[j]) + 1, 1 .. i - 1) = SumFunctionOnSet(f, 1 .. i - 1)
    BY <1>2, <2>1
  <2> QED
    BY <2>2 DEF LengthBefore
<1> HIDE DEF f
<1>4. LengthBefore(fields, 1) = 4
  <2>1. 1 \in 1 .. m + 1 /\ 1 .. 1 - 1 = {}
    OBVIOUS
  <2>2. SumFunctionOnSet(f, {}) = 0
    BY SumOfNone
  <2> QED
    BY <1>3, <2>1, <2>2
<1>5. ASSUME NEW i \in 1 .. m
      PROVE  /\ LengthBefore(fields, i) \in Int
             /\ LengthBefore(fields, i + 1) = LengthBefore(fields, i) + Len(fields[i]) + 1
  <2>1. i \in 1 .. m + 1 /\ i + 1 \in 1 .. m + 1 /\ (i + 1) - 1 = i
    OBVIOUS
  <2>2. /\ 1 .. i - 1 \in SUBSET (1 .. m) /\ 1 .. i \in SUBSET (1 .. m)
        /\ (1 .. i) \ {i} = 1 .. i - 1 /\ i \in 1 .. i
    OBVIOUS
  <2>3. /\ LengthBefore(fields, i) = 4 + SumFunctionOnSet(f, 1 .. i - 1)
        /\ LengthBefore(fields, i + 1) = 4 + SumFunctionOnSet(f, 1 .. i)
    BY <1>3, <2>1
  <2>4. IsFiniteSet(1 .. i - 1) /\ IsFiniteSet(1 .. i)
    BY <1>2, <2>2
  <2>5. (\A j \in 1 .. i - 1 : f[j] \in Int) /\ (\A j \in 1 .. i : f[j] \in Int)
    BY <1>1, <2>2
  <2>6. SumFunctionOnSet(f, 1 .. i - 1) \in Int
    BY <2>4, <2>5, SumWithout
  <2>7. SumFunctionOnSet(f, 1 .. i) = f[i] + SumFunctionOnSet(f, (1 .. i) \ {i})
    BY <2>2, <2>4, <2>5, SumWithout
  <2>8. f[i] = Len(fields[i]) + 1 /\ Len(fields[i]) \in Nat
    BY <1>1
  <2>9. PICK x \in Int, y \in Nat : x = SumFunctionOnSet(f, 1 .. i - 1) /\ y = Len(fields[i])
    BY <2>6, <2>8
  <2>10. LengthBefore(fields, i) = 4 + x /\ LengthBefore(fields, i + 1) = 4 + ((y + 1) + x)
    BY <2>2, <2>3, <2>7, <2>8, <2>9
  <2>11. 4 + ((y + 1) + x) = (4 + x) + y + 1 /\ 4 + x \in Int
    OBVIOUS
  <2> QED
    BY <2>9, <2>10, <2>11, Zenon
<1> QED
  BY <1>4, <1>5

\* A response of the code: as many values as its kind has, each of its width.
Responses == {"AID", "ACC", "LEN", "ERR", "OKE"}
Encodable(r) ==
    /\ r.kind \in Responses /\ r.values \in Seq(Nat)
    /\ Len(r.values) = Len(Widths(r.kind))
    /\ \A i \in 1 .. Len(Widths(r.kind)) : r.values[i] <= Widths(r.kind)[i]

LEMMA WidthsOfSizes ==
    ASSUME NEW kind \in Responses
    PROVE  /\ Len(Widths(kind)) = Len(Sizes(kind)) /\ Len(Sizes(kind)) \in 0 .. 3
           /\ \A i \in 1 .. Len(Sizes(kind)) :
                Sizes(kind)[i] \in Nat \ {0} /\ Widths(kind)[i] = ByteScale[Sizes(kind)[i]] - 1
<1>0. /\ U8Size \in Nat \ {0} /\ U16Size \in Nat \ {0} /\ U64Size \in Nat \ {0} /\ U128Size \in Nat \ {0}
      /\ U8Max = ByteScale[U8Size] - 1 /\ U16Max = ByteScale[U16Size] - 1
      /\ U64Max = ByteScale[U64Size] - 1 /\ U128Max = ByteScale[U128Size] - 1
  BY CodecAssumption
<1>1. CASE kind = "AID"
  BY <1>0, <1>1 DEF Widths, Sizes
<1>2. CASE kind = "ACC"
  BY <1>0, <1>2 DEF Widths, Sizes
<1>3. CASE kind = "LEN"
  BY <1>0, <1>3 DEF Widths, Sizes
<1>4. CASE kind = "ERR"
  BY <1>0, <1>4 DEF Widths, Sizes
<1>5. CASE kind = "OKE"
  BY <1>0, <1>5 DEF Widths, Sizes
<1> QED
  BY <1>1, <1>2, <1>3, <1>4, <1>5 DEF Responses

\* A response that fits is never cut off, and is read as what was written.
LEMMA ResponseRead ==
    ASSUME NEW r, Encodable(r)
    PROVE  ParseResponse(EncodeResponse(r)) = [kind |-> r.kind, values |-> r.values]
<1> DEFINE n == Len(r.values)
           sizes == Sizes(r.kind)
           widths == Widths(r.kind)
           fields == [i \in DOMAIN r.values |-> RunInteger(r.values[i], Sizes(r.kind)[i])]
<1>0. /\ r.kind \in Responses /\ r.values \in Seq(Nat) /\ n = Len(widths) /\ n = Len(sizes)
      /\ n \in 0 .. 3 /\ DOMAIN r.values = 1 .. n /\ n \in Nat
      /\ \A i \in 1 .. n : /\ r.values[i] \in Nat /\ r.values[i] <= widths[i]
                           /\ sizes[i] \in Nat \ {0} /\ widths[i] = ByteScale[sizes[i]] - 1
  BY WidthsOfSizes, LenProperties, ElementOfSeq DEF Encodable
<1>1. ASSUME NEW i \in 1 .. n
      PROVE  /\ fields[i] # <<>> /\ Len(fields[i]) \in Nat /\ Len(fields[i]) <= 2 * sizes[i]
             /\ Hexadecimal(fields[i]) = r.values[i]
  <2>1. PICK v \in Nat, size \in Nat \ {0} : v = r.values[i] /\ size = sizes[i]
    BY <1>0
  <2>2. v < ByteScale[size]
    <3>1. PICK s \in Nat : s = ByteScale[size]
      BY ByteScaleIs
    <3>2. v <= s - 1
      BY <1>0, <2>1, <3>1
    <3> QED
      BY <3>1, <3>2
  <2>3. fields[i] = RunInteger(v, size)
    BY <1>0, <2>1
  <2> HIDE DEF fields
  <2> QED
    BY <2>1, <2>2, <2>3, IntegerRead
<1>2. DOMAIN fields = 1 .. n /\ Len(fields) = n
  <2>1. DOMAIN fields = 1 .. n
    BY <1>0
  <2>2. fields = [i \in 1 .. n |-> fields[i]]
    BY <1>0
  <2>3. \A i \in 1 .. n : fields[i] \in {fields[j] : j \in 1 .. n}
    OBVIOUS
  <2> HIDE DEF fields, n
  <2>4. PICK V : V = {fields[j] : j \in 1 .. n}
    OBVIOUS
  <2>6. fields \in [1 .. n -> V]
    BY <2>2, <2>3, <2>4
  <2>5. fields \in Seq(V)
    BY <1>0, <2>6, IsASeq
  <2> QED
    BY <1>0, <2>1, <2>5, LenProperties
<1>3. EncodeResponse(r) = [kind |-> r.kind, fields |-> fields, error |-> "NONE"]
  <2>1. ASSUME NEW i \in 1 .. n PROVE LengthBefore(fields, i) + Len(fields[i]) <= Capacity
    <3>1. \A j \in 1 .. n : Len(fields[j]) \in Nat /\ Len(fields[j]) <= 2 * sizes[j]
      BY <1>1
    <3> HIDE DEF fields
    <3>2. /\ LengthBefore(fields, 1) = 4
          /\ \A j \in 1 .. n : /\ LengthBefore(fields, j) \in Int
                               /\ LengthBefore(fields, j + 1) = LengthBefore(fields, j) + Len(fields[j]) + 1
      <4>1. n \in Nat /\ \A j \in 1 .. n : Len(fields[j]) \in Nat
        BY <1>0, <3>1
      <4> HIDE DEF n
      <4> QED
        BY <4>1, LengthBeforeIs
    <3>0. r.kind \in Responses /\ n = Len(Sizes(r.kind))
      BY <1>0
    <3>3. /\ U8Size \in Nat /\ U16Size \in Nat /\ U64Size \in Nat /\ U128Size \in Nat
          /\ Capacity \in Nat
          /\ 4 + (2 * U128Size + 1) + (2 * U128Size + 1) + 2 * U8Size <= Capacity
          /\ 4 + (2 * U64Size + 1) + 2 * U64Size <= Capacity
          /\ 4 + 2 * U16Size <= Capacity
      BY CodecAssumption, CapacityAssumption
    <3> HIDE DEF n
    <3>4. CASE r.kind = "ACC"
      <4>1. n = 3 /\ sizes[1] = U128Size /\ sizes[2] = U128Size /\ sizes[3] = U8Size
        BY <3>0, <3>4 DEF Sizes
      <4>2. 1 \in 1 .. n /\ 2 \in 1 .. n /\ 3 \in 1 .. n /\ 1 + 1 = 2 /\ 2 + 1 = 3
        BY <4>1
      <4>3. PICK x \in Nat, y \in Nat, z \in Nat :
                 x = Len(fields[1]) /\ y = Len(fields[2]) /\ z = Len(fields[3])
        BY <3>1, <4>2
      <4>4. x <= 2 * U128Size /\ y <= 2 * U128Size /\ z <= 2 * U8Size
        BY <3>1, <4>1, <4>2, <4>3
      <4>5. /\ LengthBefore(fields, 1) = 4 /\ LengthBefore(fields, 2) = 4 + x + 1
            /\ LengthBefore(fields, 3) = 4 + x + 1 + y + 1
        BY <3>2, <4>2, <4>3
      <4>6. /\ 4 + x <= Capacity /\ 4 + x + 1 + y <= Capacity /\ 4 + x + 1 + y + 1 + z <= Capacity
        BY <3>3, <4>4
      <4> QED
        <5>1. CASE i = 1
          BY <4>3, <4>5, <4>6, <5>1
        <5>2. CASE i = 2
          BY <4>3, <4>5, <4>6, <5>2
        <5>3. CASE i = 3
          BY <4>3, <4>5, <4>6, <5>3
        <5> QED
          BY <4>1, <5>1, <5>2, <5>3
    <3>5. CASE r.kind = "LEN"
      <4>1. n = 2 /\ sizes[1] = U64Size /\ sizes[2] = U64Size
        BY <3>0, <3>5 DEF Sizes
      <4>2. 1 \in 1 .. n /\ 2 \in 1 .. n /\ 1 + 1 = 2
        BY <4>1
      <4>3. PICK x \in Nat, y \in Nat : x = Len(fields[1]) /\ y = Len(fields[2])
        BY <3>1, <4>2
      <4>4. x <= 2 * U64Size /\ y <= 2 * U64Size
        BY <3>1, <4>1, <4>2, <4>3
      <4>5. LengthBefore(fields, 1) = 4 /\ LengthBefore(fields, 2) = 4 + x + 1
        BY <3>2, <4>2, <4>3
      <4>6. 4 + x <= Capacity /\ 4 + x + 1 + y <= Capacity
        BY <3>3, <4>4
      <4> QED
        <5>1. CASE i = 1
          BY <4>3, <4>5, <4>6, <5>1
        <5>2. CASE i = 2
          BY <4>3, <4>5, <4>6, <5>2
        <5> QED
          BY <4>1, <5>1, <5>2
    <3>6. CASE r.kind \in {"AID", "ERR"}
      <4>1. n = 1 /\ sizes[1] \in {U64Size, U16Size}
        BY <3>0, <3>6 DEF Sizes
      <4>2. 1 \in 1 .. n
        BY <4>1
      <4>3. PICK x \in Nat : x = Len(fields[1])
        BY <3>1, <4>2
      <4>4. x <= 2 * U64Size \/ x <= 2 * U16Size
        BY <3>1, <4>1, <4>2, <4>3
      <4>5. 4 + x <= Capacity
        BY <3>3, <4>4
      <4> QED
        BY <3>2, <4>1, <4>3, <4>5
    <3>7. CASE r.kind = "OKE"
      <4>1. n = 0
        BY <3>0, <3>7 DEF Sizes
      <4> QED
        BY <4>1
    <3> QED
      BY <3>0, <3>4, <3>5, <3>6, <3>7 DEF Responses
  <2> QED
    BY <1>2, <2>1 DEF EncodeResponse
<1> HIDE DEF fields
<1>4. [i \in DOMAIN fields |-> Hexadecimal(fields[i])] = r.values
  <2>1. r.values = [i \in 1 .. n |-> r.values[i]]
    BY <1>0
  <2> QED
    BY <1>1, <1>2, <2>1
<1>5. \A i \in 1 .. n : Hexadecimal(fields[i]) <= widths[i]
  BY <1>0, <1>1
<1>6. PICK written : written = [kind |-> r.kind, fields |-> fields, error |-> "NONE"]
  OBVIOUS
<1>7. written.kind = r.kind /\ written.fields = fields
  BY <1>6
<1>8. ParseResponse(written) = [kind |-> r.kind, values |-> r.values]
  BY <1>0, <1>1, <1>2, <1>4, <1>5, <1>7 DEF ParseResponse
<1> QED
  BY <1>3, <1>6, <1>8

\* A code names one error of one module, in 16 bits.
LEMMA CodePlace ==
    ASSUME NEW e \in Errors, e # "NONE"
    PROVE  \E m \in DOMAIN Modules : \E n \in DOMAIN Modules[m] :
             /\ Modules[m][n] = e /\ Code(e) = CodeStep * m + n
             /\ m \in Nat /\ n \in Nat \ {0} /\ n < CodeStep /\ Code(e) \in 1 .. U16Max
<1> DEFINE k == CHOOSE k \in DOMAIN Modules : e \in NamesOf(k)
           i == CHOOSE i \in DOMAIN Modules[k] : Modules[k][i] = e
<1>1. Code(e) = (CodeStep * k + i) % (U16Max + 1)
  BY DEF Code
<1>2. k \in DOMAIN Modules /\ e \in NamesOf(k)
  BY DEF Errors
<1>3. i \in DOMAIN Modules[k] /\ Modules[k][i] = e
  BY <1>2 DEF NamesOf
<1>5. DOMAIN Modules = 1 .. Len(Modules) /\ Len(Modules) = 6
  BY DEF Modules
<1> HIDE DEF k, i
<1>6. DOMAIN Modules[k] = 1 .. Len(Modules[k]) /\ Len(Modules[k]) \in Nat
  <2>1. CASE k = 1
    BY <2>1 DEF Modules, Account
  <2>2. CASE k = 2
    BY <2>2 DEF Modules, State
  <2>3. CASE k = 3
    BY <2>3 DEF Modules, Guarded
  <2>4. CASE k = 4
    BY <2>4 DEF Modules, Network
  <2>5. CASE k = 5
    BY <2>5 DEF Modules, Storage
  <2>6. CASE k = 6
    BY <2>6 DEF Modules, Cli
  <2> QED
    BY <1>2, <1>5, <2>1, <2>2, <2>3, <2>4, <2>5, <2>6
<1>7. /\ Len(Modules[k]) < CodeStep /\ CodeStep * (Len(Modules) + 1) <= U16Max
      /\ CodeStep \in Nat /\ U16Max \in Nat
  BY <1>2, CodesFit, ErrorsAssumption
<1>8. PICK m \in 1 .. Len(Modules), n \in Nat \ {0}, step \in Nat, len \in Nat, top \in Nat :
           m = k /\ n = i /\ step = CodeStep /\ len = Len(Modules) /\ top = U16Max
  <2>1. k \in 1 .. Len(Modules) /\ i \in 1 .. Len(Modules[k])
    BY <1>2, <1>3, <1>5, <1>6
  <2>2. i \in Nat \ {0}
    BY <1>6, <2>1
  <2> QED
    BY <1>5, <1>7, <2>1, <2>2
<1>9. n < step /\ step * (len + 1) <= top /\ m \in Nat /\ m <= len
  BY <1>3, <1>5, <1>6, <1>7, <1>8
<1>10. step * m + n \in 1 .. top
  <2>1. step * m <= step * len /\ step * m \in Nat /\ step * (len + 1) = step * len + step
    BY <1>9
  <2> QED
    BY <1>9, <2>1
<1>11. (step * m + n) % (top + 1) = step * m + n
  <2>1. step * m + n \in Nat /\ top + 1 \in Nat \ {0} /\ step * m + n < top + 1
    BY <1>10
  <2> QED
    BY <2>1, Quotient
<1> QED
  BY <1>1, <1>2, <1>3, <1>8, <1>9, <1>10, <1>11

LEMMA CodeNamesOne ==
    ASSUME NEW e \in Errors, NEW f \in Errors, Code(e) = Code(f)
    PROVE  e = f
<1>0. Code("NONE") = 0
  BY DEF Code
<1>1. CASE e = "NONE" \/ f = "NONE"
  BY <1>0, <1>1, CodePlace
<1>2. CASE e # "NONE" /\ f # "NONE"
  <2>1. PICK m \in DOMAIN Modules : \E n \in DOMAIN Modules[m] :
             /\ Modules[m][n] = e /\ Code(e) = CodeStep * m + n
             /\ m \in Nat /\ n \in Nat \ {0} /\ n < CodeStep
    BY <1>2, CodePlace
  <2>2. PICK n \in DOMAIN Modules[m] :
             /\ Modules[m][n] = e /\ Code(e) = CodeStep * m + n
             /\ m \in Nat /\ n \in Nat \ {0} /\ n < CodeStep
    BY <2>1
  <2>3. PICK k \in DOMAIN Modules : \E j \in DOMAIN Modules[k] :
             /\ Modules[k][j] = f /\ Code(f) = CodeStep * k + j
             /\ k \in Nat /\ j \in Nat \ {0} /\ j < CodeStep
    BY <1>2, CodePlace
  <2>4. PICK j \in DOMAIN Modules[k] :
             /\ Modules[k][j] = f /\ Code(f) = CodeStep * k + j
             /\ k \in Nat /\ j \in Nat \ {0} /\ j < CodeStep
    BY <2>3
  <2>5. PICK step \in Nat \ {0}, x \in Nat :
             step = CodeStep /\ x = m * step + n /\ x = k * step + j
    <3>1. CodeStep \in Nat \ {0}
      BY <2>2, ErrorsAssumption
    <3>2. CodeStep * m = m * CodeStep /\ CodeStep * k = k * CodeStep /\ m * CodeStep \in Nat
      BY <2>2, <2>4, <3>1
    <3>3. PICK x : x = Code(e) /\ x = Code(f)
      OBVIOUS
    <3>4. x = m * CodeStep + n /\ x = k * CodeStep + j
      <4>1. x = CodeStep * m + n /\ x = CodeStep * k + j
        BY <2>2, <2>4, <3>3
      <4> QED
        BY <3>2, <4>1
    <3>5. m * CodeStep + n \in Nat
      BY <2>2, <3>2
    <3> QED
      BY <3>1, <3>4, <3>5
  <2>6. n \in 0 .. step - 1 /\ j \in 0 .. step - 1
    BY <2>2, <2>4, <2>5
  <2>7. x \div step = m /\ x % step = n
    BY <2>2, <2>5, <2>6, QuotientIs
  <2>8. x \div step = k /\ x % step = j
    BY <2>4, <2>5, <2>6, QuotientIs
  <2> QED
    BY <2>2, <2>4, <2>7, <2>8
<1> QED
  BY <1>1, <1>2

Elements(t) == {t[i] : i \in DOMAIN t}

LEMMA ElementsOfBoth ==
    ASSUME NEW V, NEW t \in Seq(V), NEW u \in Seq(V)
    PROVE  t \o u \in Seq(V) /\ Elements(t \o u) = Elements(t) \cup Elements(u)
<1>1. /\ Len(t) \in Nat /\ DOMAIN t = 1 .. Len(t)
      /\ Len(u) \in Nat /\ DOMAIN u = 1 .. Len(u)
      /\ t \o u \in Seq(V) /\ Len(t \o u) = Len(t) + Len(u)
      /\ \A i \in 1 .. Len(t) + Len(u) :
           (t \o u)[i] = IF i <= Len(t) THEN t[i] ELSE u[i - Len(t)]
  BY LenProperties, ConcatProperties
<1>2. DOMAIN (t \o u) = 1 .. Len(t) + Len(u)
  BY <1>1, LenProperties
<1>3. PICK w \in Seq(V), m \in Nat, n \in Nat : m = Len(t) /\ n = Len(u) /\ w = t \o u
  BY <1>1
<1>4. \A i \in 1 .. m : i \in 1 .. m + n /\ w[i] = t[i]
  BY <1>1, <1>3
<1>5. \A i \in 1 .. n : i + m \in 1 .. m + n /\ w[i + m] = u[i]
  <2> SUFFICES ASSUME NEW i \in 1 .. n PROVE i + m \in 1 .. m + n /\ w[i + m] = u[i]
    OBVIOUS
  <2>1. i + m \in 1 .. m + n /\ ~(i + m <= m) /\ (i + m) - m = i
    OBVIOUS
  <2> QED
    BY <1>1, <1>3, <2>1
<1>6. \A i \in 1 .. m + n :
        (i \in 1 .. m /\ w[i] = t[i]) \/ (i - m \in 1 .. n /\ w[i] = u[i - m])
  <2> SUFFICES ASSUME NEW i \in 1 .. m + n
               PROVE  (i \in 1 .. m /\ w[i] = t[i]) \/ (i - m \in 1 .. n /\ w[i] = u[i - m])
    OBVIOUS
  <2>1. w[i] = IF i <= m THEN t[i] ELSE u[i - m]
    BY <1>1, <1>3
  <2>2. CASE i <= m
    <3>1. i \in 1 .. m
      BY <2>2
    <3>2. w[i] = t[i]
      BY <2>1, <2>2
    <3> QED
      BY <3>1, <3>2
  <2>3. CASE ~(i <= m)
    BY <2>1, <2>3
  <2> QED
    BY <2>2, <2>3
<1>7. {w[i] : i \in 1 .. m + n} = {t[i] : i \in 1 .. m} \cup {u[i] : i \in 1 .. n}
  <2>1. \A i \in 1 .. m + n : w[i] \in {t[j] : j \in 1 .. m} \cup {u[j] : j \in 1 .. n}
    BY <1>6
  <2>2. \A i \in 1 .. m : t[i] \in {w[j] : j \in 1 .. m + n}
    BY <1>4
  <2>3. \A i \in 1 .. n : u[i] \in {w[j] : j \in 1 .. m + n}
    BY <1>5
  <2> QED
    BY <2>1, <2>2, <2>3
<1> QED
  BY <1>1, <1>2, <1>3, <1>7 DEF Elements

\* The flags of an account are those whose bit is set.
LEMMA FlagsShown ==
    ASSUME NEW v \in Nat
    PROVE  LET flags == Uint8ToFlags(v)
           IN  MapThenSumSet(Bit, {flags[i] : i \in DOMAIN flags}) = v % 8
<1> DEFINE flags == Uint8ToFlags(v)
           S == {flags[i] : i \in DOMAIN flags}
           has(x) == x \in S <=> HasBit(v, x)
<1>1. S \in SUBSET FlagNames /\ has("send") /\ has("receive") /\ has("debt")
  <2> DEFINE set(x) == IF HasBit(v, x) THEN <<x>> ELSE <<>>
  <2>1. ASSUME NEW x \in FlagNames
        PROVE  set(x) \in Seq(FlagNames) /\ Elements(set(x)) = IF HasBit(v, x) THEN {x} ELSE {}
    <3>1. <<x>> \in Seq(FlagNames) /\ <<>> \in Seq(FlagNames)
      OBVIOUS
    <3>2. DOMAIN <<x>> = {1} /\ <<x>>[1] = x /\ DOMAIN <<>> = {}
      OBVIOUS
    <3> QED
      BY <3>1, <3>2 DEF Elements
  <2>2. "send" \in FlagNames /\ "receive" \in FlagNames /\ "debt" \in FlagNames
    BY DEF FlagNames
  <2>3. flags = (set("send") \o set("receive")) \o set("debt")
    BY DEF Uint8ToFlags
  <2> HIDE DEF set, flags
  <2>4. \A t, u \in Seq(FlagNames) : t \o u \in Seq(FlagNames) /\ Elements(t \o u) = Elements(t) \cup Elements(u)
    BY ElementsOfBoth
  <2>5. Elements(flags) = (Elements(set("send")) \cup Elements(set("receive"))) \cup Elements(set("debt"))
    <3>1. set("send") \in Seq(FlagNames) /\ set("receive") \in Seq(FlagNames) /\ set("debt") \in Seq(FlagNames)
      BY <2>1, <2>2
    <3>2. PICK t : t = set("send") \o set("receive")
      OBVIOUS
    <3>3. t \in Seq(FlagNames) /\ Elements(t) = Elements(set("send")) \cup Elements(set("receive"))
      BY <2>4, <3>1, <3>2
    <3>4. Elements(t \o set("debt")) = Elements(t) \cup Elements(set("debt"))
      BY <2>4, <3>1, <3>3
    <3> QED
      BY <2>3, <3>2, <3>3, <3>4
  <2>6. S = Elements(flags)
    BY DEF Elements
  <2> HIDE DEF S
  <2> QED
    BY <2>1, <2>2, <2>5, <2>6 DEF FlagNames
<1>2. MapThenSumSet(Bit, S) = Weight(S)
  BY <1>1, SumOfBits
<1> HIDE DEF S
<1>3. Weight(S) = v % 8
  <2>1. PICK p \in Nat, q \in Nat, r \in Nat, x \in 0 .. 1, y \in 0 .. 1, z \in 0 .. 1 :
             v = 8 * p + 4 * z + 2 * y + x
    <3>1. v = 8 * (v \div 8) + 4 * ((v \div 4) % 2) + 2 * ((v \div 2) % 2) + (v % 2)
      OBVIOUS
    <3>2. v \div 8 \in Nat /\ (v \div 4) % 2 \in 0 .. 1 /\ (v \div 2) % 2 \in 0 .. 1 /\ v % 2 \in 0 .. 1
      OBVIOUS
    <3> QED
      BY <3>1, <3>2
  <2>2. /\ (v \div 1) % 2 = x /\ (v \div 2) % 2 = y /\ (v \div 4) % 2 = z
        /\ v % 8 = 4 * z + 2 * y + x
    BY <2>1
  <2>3. ("send" \in S <=> x = 1) /\ ("receive" \in S <=> y = 1) /\ ("debt" \in S <=> z = 1)
    BY <1>1, <2>2, BitIs DEF HasBit
  <2> QED
    BY <2>2, <2>3 DEF Weight
<1> QED
  BY <1>2, <1>3 DEF S

-----------------------------------------------------------------------------
(* The supervisor: powers of two, and sums that wrap.                      *)

LEMMA PowerIs ==
    /\ Power[0] = 1
    /\ \A n \in Nat : Power[n + 1] = 2 * Power[n]
<1>1. Power = CHOOSE f : f = [n \in Nat |-> IF n = 0 THEN 1 ELSE 2 * f[n - 1]]
  BY DEF Power
<1>2. 2 \in Nat
  OBVIOUS
<1> QED
  BY <1>1, <1>2, PowersOf

\* A power of two is at least 1 and no later one is smaller.
LEMMA PowerType ==
    ASSUME NEW n \in Nat
    PROVE  Power[n] \in Nat /\ Power[n] >= 1
<1> DEFINE S == {m \in Nat : Power[m] \in Nat /\ Power[m] >= 1}
<1>1. 0 \in S
  BY PowerIs
<1>2. ASSUME NEW m \in Nat, m \in S PROVE m + 1 \in S
  BY <1>2, PowerIs
<1>3. Nat \subseteq S
  <2> HIDE DEF S
  <2> QED
    BY <1>1, <1>2, NatInduct
<1> QED
  BY <1>3

LEMMA PowerGrows ==
    ASSUME NEW m \in Nat, NEW n \in Nat, m <= n
    PROVE  Power[m] <= Power[n]
<1> DEFINE S == {d \in Nat : Power[m] <= Power[m + d]}
<1>1. 0 \in S
  BY PowerType
<1>2. ASSUME NEW d \in Nat, d \in S PROVE d + 1 \in S
  <2>1. m + d \in Nat /\ m + (d + 1) = (m + d) + 1
    OBVIOUS
  <2>2. Power[m + (d + 1)] = 2 * Power[m + d]
    BY <2>1, PowerIs
  <2>3. Power[m + d] \in Nat /\ Power[m] \in Nat
    BY <2>1, PowerType
  <2>4. Power[m] <= Power[m + d]
    BY <1>2
  <2>5. Power[m] <= 2 * Power[m + d]
    BY <2>3, <2>4
  <2> QED
    BY <2>2, <2>5
<1>3. Nat \subseteq S
  <2> HIDE DEF S
  <2> QED
    BY <1>1, <1>2, NatInduct
<1>4. n - m \in Nat /\ m + (n - m) = n
  OBVIOUS
<1> QED
  BY <1>3, <1>4

LEMMA HalfType == Half \in Nat /\ Half >= 1
<1>1. DurationBits - 1 \in Nat
  BY SupervisorAssumption
<1> QED
  BY <1>1, PowerType DEF Half

\* A signed integer that fits is kept, and one that does not becomes another.
LEMMA WrapType ==
    ASSUME NEW n \in Int
    PROVE  /\ Wrap(n) \in Int
           /\ n \in 0 .. Half - 1 => Wrap(n) = n
<1>1. Half \in Nat /\ Half >= 1
  BY HalfType
<1> DEFINE m == 2 * Half
<1>2. m \in Nat \ {0} /\ n + Half \in Int
  BY <1>1
<1>3. (n + Half) % m \in Int
  <2> HIDE DEF m
  <2> QED
    BY <1>2
<1>4. ASSUME n \in 0 .. Half - 1 PROVE (n + Half) % m = n + Half
  <2>1. n + Half \in 0 .. m - 1
    BY <1>1, <1>4
  <2> HIDE DEF m
  <2> QED
    BY <1>2, <2>1
<1> QED
  BY <1>1, <1>3, <1>4 DEF Wrap

\* The delay is between the limits, and is the power of two where that fits.
LEMMA BackoffType ==
    ASSUME NEW minimum \in Durations, NEW maximum \in Durations, tries \in Nat, tries >= 1
    PROVE  LET backoff == CalculateBackoff(minimum, maximum)
               exact == minimum * Power[tries - 1]
           IN  /\ backoff \in Int
               /\ Smaller(minimum, maximum) <= backoff /\ backoff <= maximum
               /\ exact < Half => backoff = Smaller(exact, maximum)
<1> DEFINE by == tries - 1
           shift == Shift(by)
           product == Wrap(shift * minimum)
           exact == minimum * Power[by]
<1>1. by \in Nat /\ minimum \in Nat /\ minimum >= 1 /\ maximum \in Nat /\ Half \in Nat
  BY HalfType DEF Durations
<1>2. Power[by] \in Nat /\ Power[by] >= 1
  BY <1>1, PowerType
<1>3. shift \in Int
  BY <1>2, WrapType DEF Shift
<1>4. product \in Int
  <2>1. shift * minimum \in Int
    BY <1>1, <1>3
  <2> QED
    BY <2>1, WrapType
<1>5. CalculateBackoff(minimum, maximum) = Smaller(Larger(product, minimum), maximum)
  BY DEF CalculateBackoff
<1>6. ASSUME exact < Half PROVE product = exact /\ minimum <= exact
  <2>1. exact \in Nat /\ Power[by] <= exact /\ minimum <= exact
    <3> HIDE DEF by
    <3>1. PICK q \in Nat : q = Power[by] /\ q >= 1
      BY <1>2
    <3>2. minimum * q \in Nat /\ q <= minimum * q /\ minimum <= minimum * q
      BY <1>1, <3>1
    <3> QED
      BY <3>1, <3>2
  <2>2. by < DurationBits
    <3>1. DurationBits \in Nat /\ DurationBits - 1 \in Nat
      BY SupervisorAssumption
    <3>2. SUFFICES ASSUME DurationBits - 1 <= by PROVE FALSE
      BY <1>1, <3>1
    <3>3. Half <= Power[by]
      BY <1>1, <3>1, <3>2, PowerGrows DEF Half
    <3> HIDE DEF by, exact
    <3> QED
      BY <1>1, <1>2, <1>6, <2>1, <3>3
  <2>3. Power[by] \in 0 .. Half - 1 /\ exact \in 0 .. Half - 1
    <3> HIDE DEF by, exact
    <3> QED
      BY <1>1, <1>2, <1>6, <2>1
  <2>4. shift = Power[by]
    <3>1. ~(by >= DurationBits)
      BY <1>1, <2>2, SupervisorAssumption
    <3>2. Wrap(Power[by]) = Power[by]
      BY <1>2, <2>3, WrapType
    <3> QED
      BY <3>1, <3>2 DEF Shift
  <2>5. shift * minimum = exact
    BY <1>1, <1>2, <2>4
  <2>6. Wrap(exact) = exact
    BY <2>1, <2>3, WrapType
  <2> QED
    BY <2>1, <2>5, <2>6
<1> HIDE DEF by, exact, product
<1>7. PICK b \in Int : b = CalculateBackoff(minimum, maximum)
  BY <1>1, <1>4, <1>5 DEF Smaller, Larger
<1>8. Smaller(minimum, maximum) <= b /\ b <= maximum
  BY <1>1, <1>4, <1>5, <1>7 DEF Smaller, Larger
<1>9. exact < Half => b = Smaller(exact, maximum)
  <2> SUFFICES ASSUME exact < Half PROVE b = Smaller(exact, maximum)
    OBVIOUS
  <2>1. Larger(product, minimum) = exact
    BY <1>1, <1>4, <1>6 DEF Larger
  <2> QED
    BY <1>5, <1>7, <2>1
<1> QED
  BY <1>7, <1>8, <1>9 DEF by, exact

-----------------------------------------------------------------------------
(* The gateway.                                                            *)

\* Where the request has a route.
Routed == {"routed", "bound", "connected", "greeting", "greeted", "sent", "answered"}
Permitted(route) == config.token => PermissionOf(route) \in config.permissions

GatewayType ==
    /\ config \in [token : BOOLEAN, permissions : SUBSET {"read", "write"},
                   delays : Durations \X Durations]
    /\ "route" \in DOMAIN call
    /\ stage \in {"typing", "arriving", "replied", "failed"} \cup Routed

\* A command that is read is the handshake or that of a route that was permitted: the
\* decoder takes a new command only where it is sent one, and is new before every send.
Allowed ==
    /\ stage = "typing" => ~config.token
    /\ stage \in Routed => call.route \in Routes /\ Permitted(call.route)
    /\ stage \in {"arriving", "routed", "bound", "connected"} => command = "none"
    /\ stage \in {"greeting", "sent"} => state # "COMMAND"
    /\ \/ stage = "typing" \/ command \in {"none", "#"}
       \/ call.route \in Routes /\ Permitted(call.route) /\ command = CommandOf(call.route)

IInv ==
    /\ TypeOK
    /\ GatewayType
    /\ Allowed
    /\ tries \in Nat /\ BackoffHolds

LEMMA CommandType ==
    ASSUME NEW route \in Routes
    PROVE  CommandOf(route) \in Commands
BY DEF Routes, CommandOf, Commands

LEMMA ConfigType ==
    ASSUME GatewayType
    PROVE  config.delays[1] \in Durations /\ config.delays[2] \in Durations
BY DEF GatewayType

LEMMA NewDecoderType ==
    ASSUME NewDecoder
    PROVE  TypeOK'
<1>1. Params' = 0
  BY DEF NewDecoder, Params, Limits
<1>2. DOMAIN args' = {} /\ 1 .. Params' = {}
  BY <1>1 DEF NewDecoder
<1>3. tail' \in Seq(Bytes) /\ Len(tail') <= MaxLine
  BY DecoderAssumption, EmptySeq DEF NewDecoder
<1>4. "none" \notin Commands
  BY DEF Commands
<1>5. /\ DOMAIN args' = 1 .. Params'
      /\ \A i \in DOMAIN args' : args'[i] \in 0 .. Limits(command')[i]
      /\ argc' \in 0 .. Params'
  BY <1>1, <1>2 DEF NewDecoder
<1> QED
  BY <1>3, <1>4, <1>5 DEF NewDecoder, TypeOK

\* What a step may do to the decoder.
LEMMA DecoderSteps ==
    ASSUME TypeOK, [Next]_vars \/ NewDecoder
    PROVE  TypeOK'
BY StepType, NewDecoderType

LEMMA SendType ==
    ASSUME TypeOK, NEW c \in Commands, NEW values, Send(c, values)
    PROVE  TypeOK'
BY StepType DEF Send, Next

\* A step of the decoder that is not a new command leaves the command as it is.
LEMMA CommandStays ==
    ASSUME TypeOK, Next, state # "COMMAND"
    PROVE  command' = command /\ state' # "COMMAND"
BY DEF TypeOK, Next, RunCommand, InvalidCommand, TakeDigit, Overflow, ExpectedNewLine, Rest,
       SkipUnderscore, InvalidInteger, NextArgument, EndOfLine, Decided, Fail, Read, vars

\* Where no attempt is counted.
Quiet == {"arriving", "routed", "replied", "failed"}

\* What a step may do to the supervisor.
LEMMA BackoffSteps ==
    ASSUME GatewayType, tries \in Nat, BackoffHolds, config' = config,
           \/ UNCHANGED supervisor /\ (stage' \in Quiet => stage \in Quiet)
           \/ Reset
           \/ /\ Try(config.delays[1], config.delays[2])
              /\ stage' \notin Quiet
    PROVE  tries' \in Nat /\ BackoffHolds'
<1>1. CASE UNCHANGED supervisor /\ (stage' \in Quiet => stage \in Quiet)
  BY <1>1 DEF supervisor, BackoffHolds, Quiet
<1>2. CASE Reset
  BY <1>2, SupervisorAssumption DEF Reset, BackoffHolds, Larger
<1>3. CASE /\ Try(config.delays[1], config.delays[2])
           /\ stage' \notin Quiet
  <2> DEFINE minimum == config.delays[1]
             maximum == config.delays[2]
  <2>1. tries' = tries + 1 /\ tries' \in Nat
    BY <1>3 DEF Try
  <2>2. tries' <= Larger(CancelAfter, 1)
    BY <1>3, SupervisorAssumption DEF Try, Larger
  <2>3. ASSUME tries' > 1
        PROVE  /\ Smaller(minimum, maximum) <= delay' /\ delay' <= maximum
               /\ minimum * Power[tries' - 2] < Half
                    => delay' = Smaller(minimum * Power[tries' - 2], maximum)
    <3>1. tries >= 1 /\ tries' - 2 = tries - 1
      BY <2>1, <2>3
    <3>2. delay' = CalculateBackoff(minimum, maximum)
      BY <1>3, <3>1 DEF Try
    <3>3. minimum \in Durations /\ maximum \in Durations
      BY ConfigType
    <3> HIDE DEF minimum, maximum
    <3> QED
      BY <3>1, <3>2, <3>3, BackoffType
  <2> QED
    BY <1>3, <2>1, <2>2, <2>3 DEF BackoffHolds, Quiet
<1> QED
  BY <1>1, <1>2, <1>3

LEMMA GatewayInitType ==
    ASSUME GatewayInit
    PROVE  IInv
<1>1. TypeOK
  BY InitType DEF GatewayInit
<1>2. GatewayType /\ Allowed
  <2>1. config.delays \in Durations \X Durations
    BY GatewayAssumption DEF GatewayInit
  <2> QED
    BY <2>1 DEF GatewayInit, Init, NoCall, GatewayType, Allowed, Routed
<1>3. tries \in Nat /\ BackoffHolds
  BY SupervisorAssumption DEF GatewayInit, SupervisorInit, BackoffHolds, Larger
<1> QED
  BY <1>1, <1>2, <1>3 DEF IInv

LEMMA GatewayStep ==
    ASSUME IInv, [GatewayNext]_all
    PROVE  IInv'
<1>0. TypeOK /\ GatewayType /\ Allowed /\ tries \in Nat /\ BackoffHolds
  BY DEF IInv
<1>1. ASSUME Typing PROVE IInv'
  <2>1. TypeOK'
    BY <1>0, <1>1, DecoderSteps DEF Typing
  <2>2. GatewayType' /\ Allowed'
    BY <1>0, <1>1 DEF Typing, gateway, GatewayType, Allowed, Routed, Permitted, Goto
  <2>3. tries' \in Nat /\ BackoffHolds'
    BY <1>0, <1>1, BackoffSteps DEF Quiet, Typing, gateway
  <2> QED
    BY <2>1, <2>2, <2>3 DEF IInv
<1>2. ASSUME NEW route \in Routes, NEW matches \in BOOLEAN, Authorize(route, matches) PROVE IInv'
  <2>1. TypeOK'
    BY <1>0, <1>2, DecoderSteps DEF Authorize
  <2>2. GatewayType' /\ Allowed'
    BY <1>0, <1>2 DEF Authorize, vars, GatewayType, Allowed, Routed, Permitted, Goto, Reply
  <2>3. tries' \in Nat /\ BackoffHolds'
    BY <1>0, <1>2, BackoffSteps DEF Quiet, Authorize, Reply, Goto
  <2> QED
    BY <2>1, <2>2, <2>3 DEF IInv
<1>3. ASSUME NEW numbers, NEW flags, Handler(numbers, flags) PROVE IInv'
  <2>1. TypeOK'
    BY <1>0, <1>3, DecoderSteps DEF Handler
  <2>2. GatewayType' /\ Allowed'
    BY <1>0, <1>3 DEF Handler, vars, GatewayType, Allowed, Routed, Permitted, Goto, Reply
  <2>3. tries' \in Nat /\ BackoffHolds'
    BY <1>0, <1>3, BackoffSteps DEF Quiet, Handler, Reply, Goto
  <2> QED
    BY <2>1, <2>2, <2>3 DEF IInv
<1>4. ASSUME NEW numbers, RateLimiter(numbers) PROVE IInv'
  <2>1. TypeOK'
    BY <1>0, <1>4, DecoderSteps DEF RateLimiter
  <2>2. GatewayType' /\ Allowed'
    BY <1>0, <1>4 DEF RateLimiter, vars, GatewayType, Allowed, Routed, Permitted, Goto, Reply
  <2>3. tries' \in Nat /\ BackoffHolds'
    BY <1>0, <1>4, BackoffSteps DEF Quiet, RateLimiter, Reply, Goto
  <2> QED
    BY <2>1, <2>2, <2>3 DEF IInv
<1>5. ASSUME NEW count \in Nonces, KeepConnection(count) PROVE IInv'
  <2>1. TypeOK'
    BY <1>0, <1>5, DecoderSteps DEF KeepConnection
  <2>2. GatewayType' /\ Allowed'
    BY <1>0, <1>5 DEF KeepConnection, Attempt, vars, GatewayType, Allowed, Routed, Permitted, Goto
  <2>3. tries' \in Nat /\ BackoffHolds'
    BY <1>0, <1>5, BackoffSteps DEF Quiet, KeepConnection, Attempt, Goto
  <2> QED
    BY <2>1, <2>2, <2>3 DEF IInv
<1>6. ASSUME DialFails PROVE IInv'
  <2>1. TypeOK'
    BY <1>0, <1>6, DecoderSteps DEF DialFails
  <2>2. GatewayType' /\ Allowed'
    BY <1>0, <1>6 DEF DialFails, Attempt, vars, gateway, GatewayType, Allowed, Routed, Permitted, Goto
  <2>3. tries' \in Nat /\ BackoffHolds'
    BY <1>0, <1>6, BackoffSteps DEF Quiet, DialFails, Attempt, gateway
  <2> QED
    BY <2>1, <2>2, <2>3 DEF IInv
<1>7. ASSUME Greet PROVE IInv'
  <2>1. TypeOK'
    BY <1>0, <1>7, SendType DEF Greet, Commands
  <2>2. GatewayType' /\ Allowed'
    BY <1>0, <1>7, SupervisorAssumption DEF Greet, Attempt, Send, RunCommand, GatewayType, Allowed, Routed, Permitted, Goto
  <2>3. tries' \in Nat /\ BackoffHolds'
    BY <1>0, <1>7, BackoffSteps DEF Quiet, Greet, Attempt, Send, Goto
  <2> QED
    BY <2>1, <2>2, <2>3 DEF IInv
<1>8. ASSUME Synchronize PROVE IInv'
  <2>1. TypeOK'
    BY <1>0, <1>8, DecoderSteps DEF Synchronize, TryAgain, Afresh
  <2>2. GatewayType' /\ Allowed'
    BY <1>0, <1>8 DEF Synchronize, TryAgain, Afresh, NewDecoder, GatewayType, Allowed, Routed, Permitted, Goto
  <2>3. tries' \in Nat /\ BackoffHolds'
    BY <1>0, <1>8, BackoffSteps DEF Quiet, Synchronize, TryAgain, Goto
  <2> QED
    BY <2>1, <2>2, <2>3 DEF IInv
<1>9. ASSUME SendRequest PROVE IInv'
  <2>1. TypeOK'
    BY <1>0, <1>9, SendType, CommandType DEF SendRequest, Allowed, Routed
  <2>2. GatewayType' /\ Allowed'
    BY <1>0, <1>9 DEF SendRequest, Send, RunCommand, GatewayType, Allowed, Routed, Permitted, Goto
  <2>3. tries' \in Nat /\ BackoffHolds'
    BY <1>0, <1>9, BackoffSteps DEF Quiet, SendRequest, Send, Goto
  <2> QED
    BY <2>1, <2>2, <2>3 DEF IInv
<1>10. ASSUME Decode PROVE IInv'
  <2>1. TypeOK'
    BY <1>0, <1>10, DecoderSteps DEF Decode
  <2>2. GatewayType' /\ Allowed'
    BY <1>0, <1>10, CommandStays DEF Decode, GatewayType, Allowed, Routed, Permitted, Goto
  <2>3. tries' \in Nat /\ BackoffHolds'
    BY <1>0, <1>10, BackoffSteps DEF Quiet, Decode
  <2> QED
    BY <2>1, <2>2, <2>3 DEF IInv
<1>11. ASSUME Handle PROVE IInv'
  <2>1. TypeOK'
    BY <1>0, <1>11, DecoderSteps DEF Handle
  <2>2. GatewayType' /\ Allowed'
    BY <1>0, <1>11 DEF Handle, vars, GatewayType, Allowed, Routed, Permitted, Goto
  <2>3. tries' \in Nat /\ BackoffHolds'
    BY <1>0, <1>11, BackoffSteps DEF Quiet, Handle, Goto
  <2> QED
    BY <2>1, <2>2, <2>3 DEF IInv
<1>12. ASSUME AttemptLost PROVE IInv'
  <2>1. TypeOK'
    BY <1>0, <1>12, DecoderSteps DEF AttemptLost, TryAgain, Afresh
  <2>2. GatewayType' /\ Allowed'
    BY <1>0, <1>12 DEF AttemptLost, TryAgain, Afresh, NewDecoder, GatewayType, Allowed, Routed, Permitted, Goto
  <2>3. tries' \in Nat /\ BackoffHolds'
    BY <1>0, <1>12, BackoffSteps DEF Quiet, AttemptLost, TryAgain, Goto
  <2> QED
    BY <2>1, <2>2, <2>3 DEF IInv
<1>13. ASSUME GiveUp PROVE IInv'
  <2>1. TypeOK'
    BY <1>0, <1>13, DecoderSteps DEF GiveUp
  <2>2. GatewayType' /\ Allowed'
    BY <1>0, <1>13 DEF GiveUp, vars, GatewayType, Allowed, Routed, Permitted, Goto, Reply, Abort
  <2>3. tries' \in Nat /\ BackoffHolds'
    BY <1>0, <1>13, BackoffSteps DEF Quiet, GiveUp, Abort, Goto
  <2> QED
    BY <2>1, <2>2, <2>3 DEF IInv
<1>14. ASSUME ReceiveResponse PROVE IInv'
  <2>1. TypeOK'
    BY <1>0, <1>14, DecoderSteps DEF ReceiveResponse, TryAgain, Afresh
  <2>2. GatewayType' /\ Allowed'
    BY <1>0, <1>14 DEF ReceiveResponse, TryAgain, Afresh, NewDecoder, vars, GatewayType, Allowed, Routed, Permitted, Goto, Reply, Abort
  <2>3. tries' \in Nat /\ BackoffHolds'
    BY <1>0, <1>14, BackoffSteps DEF Quiet, ReceiveResponse, TryAgain, Goto, Reply, Abort
  <2> QED
    BY <2>1, <2>2, <2>3 DEF IInv
<1>15. ASSUME UNCHANGED all PROVE IInv'
  <2>1. TypeOK'
    BY <1>0, <1>15, DecoderSteps DEF all
  <2>2. GatewayType' /\ Allowed'
    BY <1>0, <1>15 DEF all, gateway, vars, GatewayType, Allowed, Routed, Permitted, Goto
  <2>3. tries' \in Nat /\ BackoffHolds'
    BY <1>0, <1>15, BackoffSteps DEF Quiet, all, gateway
  <2> QED
    BY <2>1, <2>2, <2>3 DEF IInv
<1> QED
  BY <1>1, <1>2, <1>3, <1>4, <1>5, <1>6, <1>7, <1>8, <1>9, <1>10, <1>11, <1>12, <1>13, <1>14, <1>15
    DEF GatewayNext, Rested

LEMMA GatewayInvariant == GatewaySpec => []IInv
BY GatewayInitType, GatewayStep, PTL DEF GatewaySpec

\* The gateway moves the decoder by its own steps, or replaces it by a new one.
LEMMA DecoderMoves ==
    ASSUME IInv, [GatewayNext]_all
    PROVE  [Next]_vars \/ NewDecoder
<1>0. \A route \in Routes : CommandOf(route) \in Commands
  BY CommandType
<1>1. CASE Greet
  BY <1>1 DEF Greet, Send, Next, Commands
<1>2. CASE SendRequest
  BY <1>0, <1>2 DEF SendRequest, Send, Next, IInv, Allowed, Routed
<1>3. CASE Decode \/ Typing
  BY <1>3 DEF Decode, Typing
<1>4. CASE AttemptLost \/ Synchronize
  BY <1>4 DEF AttemptLost, Synchronize, TryAgain, Afresh
<1>5. CASE ReceiveResponse
  BY <1>5 DEF ReceiveResponse, TryAgain, Afresh
<1>6. CASE DialFails \/ Handle \/ GiveUp \/ UNCHANGED all
  BY <1>6 DEF DialFails, Handle, GiveUp, all
<1>7. CASE \E count \in Nonces : KeepConnection(count)
  BY <1>7 DEF KeepConnection
<1>8. ASSUME NEW numbers, NEW flags, Handler(numbers, flags) \/ RateLimiter(numbers)
      PROVE  UNCHANGED vars
  BY <1>8 DEF Handler, RateLimiter
<1>9. ASSUME NEW route, NEW matches, Authorize(route, matches)
      PROVE  UNCHANGED vars
  BY <1>9 DEF Authorize
<1> QED
  BY <1>1, <1>2, <1>3, <1>4, <1>5, <1>6, <1>7, <1>8, <1>9 DEF GatewayNext, Rested

\* What reaches the decoder through LetDD keeps its widths as well (decoder.c:256-321,
\* request.go).
THEOREM GatewayTypeCorrect == GatewaySpec => []TypeOK
<1>1. IInv => TypeOK
  BY DEF IInv
<1> QED
  BY <1>1, GatewayInvariant, PTL

\* No token makes the server read a request it has no permission for, with whatever
\* attempts are lost and made again (authorization.go, config.go:115).
THEOREM TokensBound == GatewaySpec => []PermissionsHold
<1>1. IInv => PermissionsHold
  <2> SUFFICES ASSUME IInv, config.token PROVE PermissionsHold
    BY DEF PermissionsHold
  <2>1. stage # "typing"
    BY DEF IInv, Allowed
  <2>2. CASE command \in {"none", "#"}
    BY <2>2 DEF PermissionsHold
  <2>3. CASE call.route \in Routes /\ Permitted(call.route) /\ command = CommandOf(call.route)
    BY <2>3 DEF Permitted, PermissionOf, CommandOf, Routes, PermissionsHold
  <2> QED
    BY <2>1, <2>2, <2>3 DEF IInv, Allowed
<1> QED
  BY <1>1, GatewayInvariant, PTL

\* The delay before an attempt stays between its limits, doubling for as long as the
\* product fits, for durations of any width and any number of attempts, and begins anew
\* with every request (supervisor.go:29-78, client.go:87).
THEOREM DelaysBound == GatewaySpec => []BackoffHolds
<1>1. IInv => BackoffHolds
  BY DEF IInv
<1> QED
  BY <1>1, GatewayInvariant, PTL

\* The same of the requests that LetDD writes and sends, of those that are sent again after
\* a lost attempt, and of the lines typed by hand (decoder.c:45-94, 136-321).
THEOREM GatewayDecodesExactly == GatewaySpec => []DecodesExactly
<1>1. GatewayInit => ReadWell
  <2>1. "none" \notin Commands
    BY DEF Commands
  <2> QED
    BY <2>1, NothingRead DEF GatewayInit, Init
<1>2. IInv /\ ReadWell /\ [GatewayNext]_all => ReadWell'
  BY DecoderMoves, ReadStep DEF IInv
<1>3. IInv /\ ReadWell => DecodesExactly
  BY MeaningHolds DEF IInv
<1> QED
  BY <1>1, <1>2, <1>3, GatewayInvariant, PTL DEF GatewaySpec

\* Whatever is sent, an overflow is reported of a value too large in the field that is
\* read, and a missing argument of a missing field (decoder.c:82-91, 256-321).
THEOREM GatewayRefusesForCause == GatewaySpec => []RefusesForCause
<1>1. GatewayInit => ReadWell
  <2>1. "none" \notin Commands
    BY DEF Commands
  <2> QED
    BY <2>1, NothingRead DEF GatewayInit, Init
<1>2. IInv /\ ReadWell /\ [GatewayNext]_all => ReadWell'
  BY DecoderMoves, ReadStep DEF IInv
<1>3. IInv /\ ReadWell => RefusesForCause
  BY MeaningHolds DEF IInv
<1> QED
  BY <1>1, <1>2, <1>3, GatewayInvariant, PTL DEF GatewaySpec

-----------------------------------------------------------------------------
(* What a request says on its way.                                         *)

Numbered(route, numbers) == \E body \in Bodies(route) : numbers = body[1]

\* A call that is bound holds numbers and flags as its route takes them.
Bound ==
    /\ {"route", "numbers", "flags", "id"} \subseteq DOMAIN call
    /\ call.id \in 0 .. U64Max
    /\ stage \in Routed \ {"routed"} =>
         /\ call.route \in Routes /\ Numbered(call.route, call.numbers)
         /\ Binds(call.route, call.numbers)
         /\ call.flags \in Seq(FlagNames)

LEMMA Tuples ==
    ASSUME NEW x \in Int, NEW y \in Int, NEW z \in Int, NEW w \in Int
    PROVE  /\ <<x>> \o <<y, z>> \o <<w>> = <<x, y, z, w>>
           /\ <<x>> \o <<y, z, w>> = <<x, y, z, w>>
<1>0. /\ <<x>> \in Seq(Int) /\ <<y>> \in Seq(Int) /\ <<y, z>> \in Seq(Int) /\ <<>> \in Seq(Int)
      /\ <<x, y, z>> \in Seq(Int)
  OBVIOUS
<1>1. /\ <<y>> = Append(<<>>, y) /\ <<y, z>> = Append(<<y>>, z) /\ <<y, z, w>> = Append(<<y, z>>, w)
      /\ <<w>> = Append(<<>>, w)
      /\ <<x, y>> = Append(<<x>>, y) /\ <<x, y, z>> = Append(<<x, y>>, z)
      /\ <<x, y, z, w>> = Append(<<x, y, z>>, w)
  <2>1. <<y>> = Append(<<>>, y) /\ <<w>> = Append(<<>>, w)
    OBVIOUS
  <2>2. <<y, z>> = Append(<<y>>, z) /\ <<x, y>> = Append(<<x>>, y)
    OBVIOUS
  <2>3. <<y, z, w>> = Append(<<y, z>>, w)
    OBVIOUS
  <2>4. <<x, y, z>> = Append(<<x, y>>, z)
    OBVIOUS
  <2>5. <<x, y, z, w>> = Append(<<x, y, z>>, w)
    OBVIOUS
  <2> QED
    BY <2>1, <2>2, <2>3, <2>4, <2>5
<1>2. <<x>> \o <<>> = <<x>> /\ <<x, y, z>> \o <<>> = <<x, y, z>>
  BY <1>0, ConcatEmptySeq
<1>3. <<x>> \o Append(<<>>, y) = Append(<<x>> \o <<>>, y)
  BY <1>0, AppendLast
<1>4. <<x>> \o Append(<<y>>, z) = Append(<<x>> \o <<y>>, z)
  BY <1>0, AppendLast
<1>5. <<x>> \o Append(<<y, z>>, w) = Append(<<x>> \o <<y, z>>, w)
  BY <1>0, AppendLast
<1>6. <<x, y, z>> \o Append(<<>>, w) = Append(<<x, y, z>> \o <<>>, w)
  BY <1>0, AppendLast
<1>7. <<x>> \o <<y, z>> = <<x, y, z>>
  BY <1>1, <1>2, <1>3, <1>4
<1>8. <<x, y, z>> \o <<w>> = <<x, y, z, w>>
  BY <1>1, <1>2, <1>6
<1> QED
  BY <1>1, <1>5, <1>7, <1>8

\* The fields of a request have the widths of its arguments, and are those of the call.
LEMMA FieldsFit ==
    ASSUME Bound, stage \in Routed \ {"routed"}
    PROVE  LET v == Fields(call.id)
               limits == Limits(CommandOf(call.route))
           IN  /\ v \in Seq(Nat) /\ Len(v) = Len(limits) /\ \A i \in 1 .. Len(v) : v[i] <= limits[i]
               /\ (\A i \in DOMAIN call.numbers : call.numbers[i] >= 0) => v = Meant
<1> DEFINE n == call.numbers
           bits == ToUint8(call.flags)
<1>0. /\ call.route \in Routes /\ Numbered(call.route, n) /\ Binds(call.route, n)
      /\ call.flags \in Seq(FlagNames) /\ call.id \in Nat /\ call.id <= U64Max
      /\ U8Max \in Nat /\ U64Max \in Nat /\ U128Max \in Nat /\ 7 <= U8Max
      /\ Ids \subseteq Int /\ Amounts \subseteq Int
  BY DecoderAssumption, GatewayAssumption DEF Bound
<1>1. bits \in Nat /\ bits <= U8Max
  <2>1. bits \in 0 .. 7
    BY <1>0, FlagsSet
  <2> QED
    BY <1>0, <2>1
<1>2. bits = MapThenSumSet(Bit, {call.flags[i] : i \in DOMAIN call.flags})
  <2> DEFINE S == {call.flags[i] : i \in DOMAIN call.flags}
  <2>1. S \in SUBSET FlagNames /\ bits = Weight(S)
    BY <1>0, FlagsSet
  <2> HIDE DEF S
  <2>2. MapThenSumSet(Bit, S) = Weight(S)
    BY <2>1, SumOfBits
  <2> QED
    BY <2>1, <2>2 DEF S
<1> DEFINE Goal == LET v == Fields(call.id)
                       limits == Limits(CommandOf(call.route))
                   IN  /\ v \in Seq(Nat) /\ Len(v) = Len(limits)
                       /\ \A i \in 1 .. Len(v) : v[i] <= limits[i]
                       /\ (\A i \in DOMAIN n : n[i] >= 0) => v = Meant
<1> HIDE DEF bits
<1>3. CASE call.route = "GetAccount"
  <2>1. PICK x \in Int : n = <<x>>
    BY <1>0, <1>3 DEF Numbered, Bodies
  <2>2. x \in 0 .. U64Max
    BY <1>0, <1>3, <2>1 DEF Binds
  <2>3. CommandOf(call.route) = "?" /\ Limits("?") = <<U64Max>>
    BY <1>3 DEF CommandOf, Limits
  <2>4. Fields(call.id) = <<x>> /\ Meant = <<x>>
    BY <1>3, <2>1 DEF Fields, Meant
  <2> QED
    BY <2>2, <2>3, <2>4
<1>4. CASE call.route = "UpdateAccount"
  <2>1. PICK x \in Int : n = <<x>>
    BY <1>0, <1>4 DEF Numbered, Bodies
  <2>2. x \in 0 .. U64Max
    BY <1>0, <1>4, <2>1 DEF Binds
  <2>3. CommandOf(call.route) = "=" /\ Limits("=") = <<U64Max, U64Max, U8Max>>
    BY <1>4 DEF CommandOf, Limits
  <2>4. Fields(call.id) = <<call.id, x, bits>>
    BY <1>4, <2>1 DEF Fields, bits
  <2>5. Meant = <<call.id, x, bits>>
    BY <1>2, <1>4, <2>1 DEF Meant
  <2> QED
    BY <1>0, <1>1, <2>2, <2>3, <2>4, <2>5
<1>5. CASE call.route = "PostAccount"
  <2>1. PICK x \in Int, y \in Int : n = <<x, y>>
    BY <1>0, <1>5 DEF Numbered, Bodies
  <2>2. x <= U128Max /\ y <= U128Max
    BY <1>0, <1>5, <2>1 DEF Binds
  <2>3. CommandOf(call.route) = "+" /\ Limits("+") = <<U64Max, U128Max, U128Max, U8Max>>
    BY <1>5 DEF CommandOf, Limits
  <2>4. Fields(call.id) = <<call.id, ParseAmount(x), ParseAmount(y), bits>>
    BY <1>5, <2>1 DEF Fields, bits
  <2>5. PICK a \in 0 .. U128Max, b \in 0 .. U128Max :
             /\ a = ParseAmount(x) /\ b = ParseAmount(y)
             /\ (x >= 0 => a = x) /\ (y >= 0 => b = y)
    BY <2>2, AmountIs
  <2>6. Meant = <<call.id>> \o <<x, y>> \o <<bits>>
    BY <1>2, <1>5, <2>1 DEF Meant
  <2>7. PICK id \in Int, bs \in Int : id = call.id /\ bs = bits
    BY <1>0, <1>1
  <2>8. <<id>> \o <<x, y>> \o <<bs>> = <<id, x, y, bs>>
    BY Tuples
  <2>9. /\ id \in Nat /\ a \in Nat /\ b \in Nat /\ bs \in Nat
        /\ id <= U64Max /\ a <= U128Max /\ b <= U128Max /\ bs <= U8Max
    BY <1>0, <1>1, <2>5, <2>7
  <2>10. Fields(call.id) = <<id, a, b, bs>> /\ Meant = <<id, x, y, bs>>
    BY <2>4, <2>5, <2>6, <2>7, <2>8
  <2>11. (\A i \in DOMAIN n : n[i] >= 0) => a = x /\ b = y
    BY <2>1, <2>5
  <2> QED
    BY <2>3, <2>9, <2>10, <2>11
<1>6. CASE call.route = "PostTransfer"
  <2>1. PICK x \in Int, y \in Int, z \in Int : n = <<x, y, z>>
    BY <1>0, <1>6 DEF Numbered, Bodies
  <2>2. x \in 0 .. U64Max /\ y \in 0 .. U64Max /\ z <= U128Max
    BY <1>0, <1>6, <2>1 DEF Binds
  <2>3. CommandOf(call.route) = "%" /\ Limits("%") = <<U64Max, U64Max, U64Max, U128Max>>
    BY <1>6 DEF CommandOf, Limits
  <2>4. Fields(call.id) = <<call.id, x, y, ParseAmount(z)>>
    BY <1>6, <2>1 DEF Fields
  <2>5. PICK c \in 0 .. U128Max : c = ParseAmount(z) /\ (z >= 0 => c = z)
    BY <2>2, AmountIs
  <2>6. Meant = <<call.id>> \o <<x, y, z>>
    BY <1>6, <2>1 DEF Meant
  <2>7. PICK id \in Int : id = call.id
    BY <1>0
  <2>8. <<id>> \o <<x, y, z>> = <<id, x, y, z>>
    BY Tuples
  <2>9. /\ id \in Nat /\ x \in Nat /\ y \in Nat /\ c \in Nat
        /\ id <= U64Max /\ x <= U64Max /\ y <= U64Max /\ c <= U128Max
    BY <1>0, <2>2, <2>5, <2>7
  <2>10. Fields(call.id) = <<id, x, y, c>> /\ Meant = <<id, x, y, z>>
    BY <2>4, <2>5, <2>6, <2>7, <2>8
  <2>11. (\A i \in DOMAIN n : n[i] >= 0) => c = z
    BY <2>1, <2>5
  <2> QED
    BY <2>3, <2>9, <2>10, <2>11
<1> QED
  BY <1>0, <1>3, <1>4, <1>5, <1>6 DEF Routes


-----------------------------------------------------------------------------
(* What an answer says on its way.                                         *)

AnswerFits(a) ==
    /\ Encodable(a)
    /\ a.kind = "ERR" => a.error \in Errors /\ a.values = <<Code(a.error)>>

\* Whatever LetDB refuses a request for is one of its errors.
LEMMA RefusalsNamed ==
    ASSUME NEW c
    PROVE  Refusals(c) \subseteq Errors
<1>1. DOMAIN Modules = 1 .. 6 /\ Modules[1] = Account /\ Modules[3] = Guarded /\ Modules[5] = Storage
  BY DEF Modules
<1>2. \A m \in 1 .. 6 : NamesOf(m) \subseteq Errors
  BY <1>1 DEF Errors
<1>3. "NONCE_MISMATCH" \in NamesOf(5)
  <2>1. 10 \in DOMAIN Storage /\ Storage[10] = "NONCE_MISMATCH"
    BY DEF Storage
  <2> QED
    BY <1>1, <2>1 DEF NamesOf
<1>4. "CAPACITY_OVERFLOW" \in NamesOf(1) /\ "ACCOUNT_NOT_FOUND" \in NamesOf(1)
  <2>1. /\ 2 \in DOMAIN Account /\ Account[2] = "ACCOUNT_NOT_FOUND"
        /\ 3 \in DOMAIN Account /\ Account[3] = "CAPACITY_OVERFLOW"
    BY DEF Account
  <2> QED
    BY <1>1, <2>1 DEF NamesOf
<1>5. 1 \in 1 .. 6 /\ 3 \in 1 .. 6 /\ 5 \in 1 .. 6
  OBVIOUS
<1>6. /\ "NONCE_MISMATCH" \in Errors /\ "CAPACITY_OVERFLOW" \in Errors
      /\ "ACCOUNT_NOT_FOUND" \in Errors /\ NamesOf(3) \subseteq Errors
  BY <1>2, <1>3, <1>4, <1>5
<1> QED
  BY <1>6 DEF Refusals

\* An error is answered with its code.
LEMMA FailureFits ==
    ASSUME NEW e \in Errors
    PROVE  AnswerFits(Failure(e))
<1>1. PICK n \in 0 .. U16Max : n = Code(e)
  <2>1. CASE e = "NONE"
    <3>1. Code(e) = 0 /\ U16Max \in Nat
      BY <2>1, ErrorsAssumption DEF Code
    <3> QED
      BY <3>1
  <2>2. CASE e # "NONE"
    <3>1. Code(e) \in 1 .. U16Max
      BY <2>2, CodePlace
    <3> QED
      BY <3>1
  <2> QED
    BY <2>1, <2>2
<1>2. PICK a : a = Failure(e)
  OBVIOUS
<1>3. a.kind = "ERR" /\ a.values = <<n>> /\ a.error = e
  BY <1>1, <1>2 DEF Failure
<1>4. Widths("ERR") = <<U16Max>> /\ U16Max \in Nat
  BY ErrorsAssumption DEF Widths
<1>5. Encodable(a)
  <2>1. <<n>> \in Seq(Nat) /\ Len(<<n>>) = 1
    OBVIOUS
  <2> QED
    BY <1>3, <1>4, <2>1 DEF Encodable, Responses
<1> QED
  BY <1>1, <1>2, <1>3, <1>5 DEF AnswerFits

\* A balance has 128 bits.
LEMMA BalanceFits ==
    ASSUME NEW b \in Balances
    PROVE  b \in 0 .. U128Max
<1>1. PICK n \in Amounts : n <= U128Max /\ b = ParseAmount(n)
  BY DEF Balances
<1>2. n \in Int
  BY GatewayAssumption
<1> QED
  BY <1>1, <1>2, AmountIs

\* A success is answered with values of its widths.
LEMMA SuccessFits ==
    ASSUME NEW c, NEW a \in Successes(c)
    PROVE  AnswerFits(a)
<1>0. U8Max \in Nat /\ U64Max \in Nat /\ U128Max \in Nat
  BY DecoderAssumption
<1>1. CASE c = "+"
  <2>1. PICK i \in 0 .. U64Max : a = Answer("AID", <<i>>)
    BY <1>1 DEF Successes
  <2>2. a.kind = "AID" /\ a.values = <<i>> /\ Widths("AID") = <<U64Max>>
    BY <2>1 DEF Answer, Widths
  <2>3. i \in Nat /\ i <= U64Max /\ <<i>> \in Seq(Nat)
    BY <1>0
  <2> QED
    BY <2>2, <2>3 DEF AnswerFits, Encodable, Responses
<1>2. CASE c = "#"
  <2>1. PICK i \in Nonces, j \in Nonces : a = Answer("LEN", <<i, j>>)
    BY <1>2 DEF Successes
  <2>2. a.kind = "LEN" /\ a.values = <<i, j>> /\ Widths("LEN") = <<U64Max, U64Max>>
    BY <2>1 DEF Answer, Widths
  <2>3. i \in Nat /\ i <= U64Max /\ j \in Nat /\ j <= U64Max
    BY <1>0, GatewayAssumption
  <2> QED
    BY <2>2, <2>3 DEF AnswerFits, Encodable, Responses
<1>3. CASE c = "?"
  <2>1. PICK i \in Balances, j \in Balances, k \in 0 .. U8Max : a = Answer("ACC", <<i, j, k>>)
    BY <1>3 DEF Successes
  <2>2. a.kind = "ACC" /\ a.values = <<i, j, k>> /\ Widths("ACC") = <<U128Max, U128Max, U8Max>>
    BY <2>1 DEF Answer, Widths
  <2>3. i \in 0 .. U128Max /\ j \in 0 .. U128Max
    BY BalanceFits
  <2>4. i \in Nat /\ i <= U128Max /\ j \in Nat /\ j <= U128Max /\ k \in Nat /\ k <= U8Max
    BY <1>0, <2>3
  <2> QED
    BY <2>2, <2>4 DEF AnswerFits, Encodable, Responses
<1>4. CASE c \in {"%", "="}
  <2>1. a = Answer("OKE", <<>>)
    BY <1>4 DEF Successes
  <2>2. a.kind = "OKE" /\ a.values = <<>> /\ Widths("OKE") = <<>>
    BY <2>1 DEF Answer, Widths
  <2>3. Len(a.values) = 0 /\ a.values \in Seq(Nat)
    BY <2>2, EmptySeq
  <2> QED
    BY <2>2, <2>3 DEF AnswerFits, Encodable, Responses
<1>5. CASE c \notin {"+", "#", "?", "%", "="}
  BY <1>5 DEF Successes
<1> QED
  BY <1>1, <1>2, <1>3, <1>4, <1>5

\* The count is the answer to the handshake only.
LEMMA CountAnswersGreeting ==
    ASSUME NEW c, c # "#", NEW a, a \in Successes(c) \/ \E e \in Refusals(c) : a = Failure(e)
    PROVE  a.kind # "LEN"
<1>1. CASE a \in Successes(c)
  BY <1>1 DEF Successes, Answer
<1>2. CASE \E e \in Refusals(c) : a = Failure(e)
  BY <1>2 DEF Failure
<1> QED
  BY <1>1, <1>2

-----------------------------------------------------------------------------
(* The request and its answer, in every stage.  A request is Bound before  *)
(* it is sent; Sent says that the bytes before and after the decoder are   *)
(* together the text of the call, until all are read; Answered that an     *)
(* answer is one the text of a response can carry, until it is replied,    *)
(* and that none but the handshake's is the count.                         *)

Sent ==
    /\ args = [i \in 1 .. Params |-> args[i]]
    /\ stage = "greeting" => command = "#" /\ Carries(<<>>)
    /\ stage = "sent" => command = CommandOf(call.route) /\ Carries(Fields(call.id))
    /\ stage = "greeted" => command = "#" /\ Result = "NONE" /\ line = <<>>
    /\ stage = "answered" =>
         /\ command = CommandOf(call.route) /\ Result = "NONE" /\ line = <<>>
         /\ args = Fields(call.id)

Told(r) == ToResponse([kind |-> r.kind, values |-> r.values])

Answered ==
    /\ stage \in {"typing", "arriving", "routed", "bound", "connected", "greeting", "sent"} =>
         answer = NoAnswer
    /\ stage \in {"greeted", "answered"} => AnswerFits(answer)
    /\ stage = "answered" => answer.kind # "LEN"
    /\ stage = "replied" =>
         \/ answer = NoAnswer /\ status.code # 500
         \/ AnswerFits(answer) /\ answer.kind # "LEN" /\ status = Told(answer)

Survival == Bound /\ Sent /\ Answered

LEMMA SurvivalInit ==
    ASSUME GatewayInit
    PROVE  Survival
<1>1. 0 \in 0 .. U64Max
  BY DecoderAssumption
<1>2. {"route", "numbers", "flags", "id"} \subseteq DOMAIN NoCall /\ NoCall.id = 0
  BY DEF NoCall
<1>3. Bound
  BY <1>1, <1>2 DEF GatewayInit, Bound, Routed
<1>4. args = [i \in 1 .. Params |-> args[i]]
  <2>1. Params = 0 /\ args = <<>>
    BY DEF GatewayInit, Init, Params, Limits
  <2> QED
    BY <2>1
<1>5. Sent
  BY <1>4 DEF GatewayInit, Sent
<1> QED
  BY <1>3, <1>5 DEF GatewayInit, Answered, Survival

\* What keeps a call that is bound.
LEMMA BoundStays ==
    ASSUME Bound, call' = call,
           stage' \in Routed \ {"routed"} => stage \in Routed \ {"routed"}
    PROVE  Bound'
BY DEF Bound

\* Where no text is on its way there is nothing more to keep.
LEMMA SentNothing ==
    ASSUME IInv, [GatewayNext]_all, Sent, stage' \notin {"greeting", "sent", "greeted", "answered"}
    PROVE  Sent'
<1>1. (args = [i \in 1 .. Params |-> args[i]])'
  BY DecoderMoves, ArgumentsStay DEF Sent, IInv
<1> QED
  BY <1>1 DEF Sent

\* The fields of a request are those of the call, whatever else changes.
LEMMA FieldsStay ==
    ASSUME call' = call
    PROVE  Fields(call.id)' = Fields(call.id)
BY DEF Fields

\* A request that is sent is all to be read.
LEMMA SendCarries ==
    ASSUME TypeOK, ReadWell, command = "none", NEW c \in Commands, NEW values \in Seq(Nat),
           Len(values) = Len(Limits(c)), \A i \in 1 .. Len(values) : values[i] <= Limits(c)[i],
           Send(c, values)
    PROVE  command' = c /\ Carries(values)'
<1>1. tail' = <<>> /\ command' = c /\ line' = Encode(c, values)
  <2>1. "none" \notin Commands
    BY DEF Commands
  <2> QED
    BY <2>1 DEF Send, RunCommand, ReadWell
<1>2. Encode(c, values) \in Seq(Bytes)
  <2>1. CASE values = <<>>
    BY <2>1, EncodeNothing
  <2>2. CASE values # <<>>
    BY <2>2, EncodeReads DEF Reads
  <2> QED
    BY <2>1, <2>2
<1>3. <<>> \o Encode(c, values) = Encode(c, values)
  BY <1>2, ConcatEmptySeq
<1> QED
  BY <1>1, <1>2, <1>3 DEF Carries, Params

\* A byte that is read moves from what is to come to what is behind.
LEMMA DecodeCarries ==
    ASSUME TypeOK, state # "COMMAND", Decode, NEW values, Carries(values)
    PROVE  command' = command /\ Carries(values)'
<1>1. command' = command
  BY CommandStays DEF Decode
<1>2. PICK t \in Seq(Bytes), l \in Seq(Bytes) : t = tail /\ l = line /\ l # <<>>
  BY DEF TypeOK, Carries, Decode
<1>3. Tail(l) \in Seq(Bytes) /\ Head(l) \in Bytes /\ l = <<Head(l)>> \o Tail(l)
  BY <1>2, HeadTailProperties
<1>4. Append(t, Head(l)) = t \o <<Head(l)>>
  BY <1>2, <1>3, AppendIsConcat
<1>5. Append(t, Head(l)) \o Tail(l) = t \o l
  <2>1. <<Head(l)>> \in Seq(Bytes)
    BY <1>3
  <2>2. (t \o <<Head(l)>>) \o Tail(l) = t \o (<<Head(l)>> \o Tail(l))
    BY <1>2, <1>3, <2>1, ConcatAssociative
  <2> QED
    BY <1>3, <1>4, <2>2
<1>6. tail' \o line' = tail \o line /\ line' \in Seq(Bytes)
  BY <1>2, <1>3, <1>5 DEF Decode
<1> QED
  BY <1>1, <1>6 DEF Carries, Params

LEMMA AuthorizeSurvives ==
    ASSUME IInv, Survival, NEW route, NEW matches, Authorize(route, matches), [GatewayNext]_all
    PROVE  Survival'
<1>0. Bound /\ Sent /\ Answered /\ stage = "arriving"
  BY DEF Survival, Authorize
<1>1. stage' \in {"routed", "replied"} /\ answer' = answer
  BY DEF Authorize, Goto, Reply
<1>2. /\ {"route", "numbers", "flags", "id"} \subseteq DOMAIN call'
      /\ call'.id = call.id
  BY <1>0 DEF Authorize, Bound
<1>3. Bound'
  BY <1>0, <1>1, <1>2 DEF Bound, Routed
<1>4. Sent'
  BY <1>0, <1>1, SentNothing
<1>5. stage' = "replied" => status'.code # 500
  BY DEF Authorize, Reply, Goto, Status
<1>6. Answered'
  BY <1>0, <1>1, <1>5 DEF Answered
<1> QED
  BY <1>3, <1>4, <1>6 DEF Survival

LEMMA NamedFlags ==
    ASSUME NEW flags \in FlagLists \cup {<<>>}, Named(flags)
    PROVE  flags \in Seq(FlagNames)
<1>1. flags \in Seq(STRING)
  BY GatewayAssumption, EmptySeq
<1>2. flags \in [1 .. Len(flags) -> FlagNames] /\ Len(flags) \in Nat
  BY <1>1, LenProperties DEF Named, FlagNames
<1> QED
  BY <1>2

LEMMA HandlerSurvives ==
    ASSUME IInv, Survival, stage = "routed", NEW body \in Bodies(call.route),
           Handler(body[1], body[2]), [GatewayNext]_all
    PROVE  Survival'
<1>0. Bound /\ Sent /\ Answered /\ call.route \in Routes
  BY DEF Survival, IInv, Allowed, Routed
<1>1. stage' \in {"bound", "replied"} /\ answer' = answer
  BY DEF Handler, Goto, Reply
<1>2. Bound'
  <2>1. CASE Binds(call.route, body[1]) /\ Named(body[2])
    <3>1. body[2] \in FlagLists \cup {<<>>}
      BY <1>0 DEF Bodies, Routes
    <3>2. body[2] \in Seq(FlagNames)
      BY <2>1, <3>1, NamedFlags
    <3>3. /\ {"route", "numbers", "flags", "id"} \subseteq DOMAIN call'
          /\ call'.id = call.id /\ call'.route = call.route
          /\ call'.numbers = body[1] /\ call'.flags = body[2]
      BY <1>0, <2>1 DEF Handler, Bound
    <3>4. Numbered(call.route, body[1])
      BY DEF Numbered
    <3> QED
      BY <1>0, <2>1, <3>2, <3>3, <3>4 DEF Bound
  <2>2. CASE ~(Binds(call.route, body[1]) /\ Named(body[2]))
    <3>1. call' = call /\ stage' = "replied"
      BY <2>2 DEF Handler, Reply, Goto
    <3> QED
      BY <1>0, <3>1, BoundStays DEF Routed
  <2> QED
    BY <2>1, <2>2
<1>3. Sent'
  BY <1>0, <1>1, SentNothing
<1>4. stage' = "replied" => status'.code # 500
  BY DEF Handler, Reply, Goto, Status
<1>5. stage = "routed"
  BY DEF Handler
<1>6. Answered'
  BY <1>0, <1>1, <1>4, <1>5 DEF Answered
<1> QED
  BY <1>2, <1>3, <1>6 DEF Survival

\* Steps that leave the call and the answer as they are, and put no text on its way.
LEMMA OthersSurvive ==
    ASSUME IInv, Survival, [GatewayNext]_all, call' = call, answer' = answer,
           \/ stage' = stage /\ stage \in {"typing", "bound"}
           \/ /\ stage \in {"routed", "bound"}
              /\ stage' = "failed" \/ (stage' = "replied" /\ status'.code # 500)
    PROVE  Survival'
<1>0. Bound /\ Sent /\ Answered
  BY DEF Survival
<1>1. Bound'
  BY <1>0, BoundStays DEF Routed
<1>2. Sent'
  BY <1>0, SentNothing
<1>3. Answered'
  BY <1>0 DEF Answered
<1> QED
  BY <1>1, <1>2, <1>3 DEF Survival

LEMMA KeepConnectionSurvives ==
    ASSUME IInv, Survival, [GatewayNext]_all, NEW count \in Nonces, KeepConnection(count)
    PROVE  Survival'
<1>0. Bound /\ Sent /\ Answered /\ stage = "bound" /\ count \in 0 .. U64Max
  BY GatewayAssumption DEF Survival, KeepConnection, Attempt
<1>1. stage' = "connected" /\ answer' = answer
  BY DEF KeepConnection, Goto
<1>2. /\ {"route", "numbers", "flags", "id"} \subseteq DOMAIN call' /\ call'.id = count
      /\ call'.route = call.route /\ call'.numbers = call.numbers /\ call'.flags = call.flags
  BY <1>0 DEF KeepConnection, Bound
<1>3. Bound'
  BY <1>0, <1>2 DEF Bound, Routed
<1>4. Sent'
  BY <1>0, <1>1, SentNothing
<1>5. Answered'
  BY <1>0, <1>1 DEF Answered
<1> QED
  BY <1>3, <1>4, <1>5 DEF Survival

LEMMA GreetSurvives ==
    ASSUME IInv, ReadWell, Survival, [GatewayNext]_all, Greet
    PROVE  Survival'
<1>0. /\ Bound /\ Sent /\ Answered /\ stage = "bound" /\ command = "none"
      /\ call' = call /\ stage' = "greeting" /\ answer' = answer
  BY DEF Survival, Greet, Attempt, Send, Goto, IInv, Allowed
<1>1. Bound'
  BY <1>0, BoundStays DEF Routed
<1>2. (args = [i \in 1 .. Params |-> args[i]])'
  BY <1>0, DecoderMoves, ArgumentsStay DEF Sent, IInv
<1>3. command' = "#" /\ Carries(<<>>)'
  <2>1. /\ "#" \in Commands /\ Limits("#") = <<>> /\ Len(<<>>) = 0 /\ <<>> \in Seq(Nat)
        /\ \A i \in 1 .. 0 : FALSE
    BY EmptySeq DEF Commands, Limits
  <2>2. PICK v \in Seq(Nat) : v = <<>>
    BY <2>1
  <2>3. Send("#", v)
    BY <2>2 DEF Greet
  <2>4. command' = "#" /\ Carries(v)'
    BY <1>0, <2>1, <2>2, <2>3, SendCarries DEF IInv
  <2> QED
    BY <2>2, <2>4
<1>4. Sent'
  BY <1>0, <1>2, <1>3 DEF Sent
<1>5. Answered'
  BY <1>0 DEF Answered
<1> QED
  BY <1>1, <1>4, <1>5 DEF Survival

LEMMA SendRequestSurvives ==
    ASSUME IInv, ReadWell, Survival, [GatewayNext]_all, SendRequest
    PROVE  Survival'
<1>0. /\ Bound /\ Sent /\ Answered /\ stage = "connected" /\ command = "none"
      /\ call' = call /\ stage' = "sent" /\ answer' = answer
  BY DEF Survival, SendRequest, Send, Goto, IInv, Allowed
<1>1. Bound'
  BY <1>0, BoundStays DEF Routed
<1>2. (args = [i \in 1 .. Params |-> args[i]])'
  BY <1>0, DecoderMoves, ArgumentsStay DEF Sent, IInv
<1>3. PICK v \in Seq(Nat), c \in Commands :
           /\ v = Fields(call.id) /\ c = CommandOf(call.route)
           /\ Len(v) = Len(Limits(c)) /\ \A i \in 1 .. Len(v) : v[i] <= Limits(c)[i]
  <2>1. CommandOf(call.route) \in Commands
    BY <1>0, CommandType DEF Bound, Routed
  <2> QED
    BY <1>0, <2>1, FieldsFit DEF Routed
<1>4. command' = c /\ Carries(v)'
  <2>1. Send(c, v)
    BY <1>3 DEF SendRequest
  <2> QED
    BY <1>0, <1>3, <2>1, SendCarries DEF IInv
<1>5. v = Fields(call.id)' /\ c = CommandOf(call.route)'
  BY <1>0, <1>3, FieldsStay
<1>6. Sent'
  BY <1>0, <1>2, <1>4, <1>5 DEF Sent
<1>7. Answered'
  BY <1>0 DEF Answered
<1> QED
  BY <1>1, <1>6, <1>7 DEF Survival

LEMMA DecodeSurvives ==
    ASSUME IInv, Survival, [GatewayNext]_all, Decode
    PROVE  Survival'
<1>0. /\ Bound /\ Sent /\ Answered /\ stage \in {"greeting", "sent"} /\ state # "COMMAND"
      /\ call' = call /\ stage' = stage /\ answer' = answer /\ TypeOK
  BY DEF Survival, Decode, IInv, Allowed
<1>1. Bound'
  BY <1>0, BoundStays
<1>2. (args = [i \in 1 .. Params |-> args[i]])'
  BY <1>0, DecoderMoves, ArgumentsStay DEF Sent
<1>3. ASSUME stage = "greeting" PROVE command' = "#" /\ Carries(<<>>)'
  <2>1. PICK v : v = <<>> /\ Carries(v) /\ command = "#"
    BY <1>0, <1>3 DEF Sent
  <2>2. command' = command /\ Carries(v)'
    BY <1>0, <2>1, DecodeCarries
  <2> QED
    BY <2>1, <2>2
<1>4. ASSUME stage = "sent" PROVE command' = CommandOf(call.route)' /\ Carries(Fields(call.id))'
  <2>1. PICK v : v = Fields(call.id) /\ Carries(v) /\ command = CommandOf(call.route)
    BY <1>0, <1>4 DEF Sent
  <2>2. command' = command /\ Carries(v)'
    BY <1>0, <2>1, DecodeCarries
  <2>3. v = Fields(call.id)' /\ CommandOf(call.route)' = CommandOf(call.route)
    BY <1>0, <2>1, FieldsStay
  <2> QED
    BY <2>1, <2>2, <2>3
<1>5. Sent'
  BY <1>0, <1>2, <1>3, <1>4 DEF Sent
<1>6. Answered'
  BY <1>0 DEF Answered
<1> QED
  BY <1>1, <1>5, <1>6 DEF Survival

\* Only what has been read as it was sent is handled.
LEMMA HandleSurvives ==
    ASSUME IInv, ReadWell, Survival, [GatewayNext]_all, Handle
    PROVE  Survival'
<1>0. /\ Bound /\ Sent /\ Answered /\ stage \in {"greeting", "sent"} /\ TypeOK
      /\ call' = call /\ UNCHANGED vars /\ line' = line
      /\ stage' = IF stage = "sent" THEN "answered" ELSE "greeted"
      /\ line = <<>> \/ error # "NONE" \/ unread
  BY DEF Survival, Handle, IInv, Goto
<1>1. Bound'
  BY <1>0, BoundStays DEF Routed
<1>2. (args = [i \in 1 .. Params |-> args[i]])'
  BY <1>0, DecoderMoves, ArgumentsStay DEF Sent
<1>3. ASSUME NEW v, Carries(v) PROVE line = <<>> /\ Result = "NONE" /\ args = v
  <2>1. line = <<>>
    BY <1>0, <1>3, CarriedOn
  <2> QED
    BY <1>0, <1>3, <2>1, CarriedOver DEF Sent
<1>4. Result' = Result /\ command' = command /\ args' = args
  BY <1>0 DEF vars, Result
<1>5. ASSUME stage = "greeting" PROVE command = "#" /\ Result = "NONE" /\ line = <<>>
  <2>1. PICK v : v = <<>> /\ Carries(v) /\ command = "#"
    BY <1>0, <1>5 DEF Sent
  <2> QED
    BY <1>3, <2>1
<1>6. ASSUME stage = "sent"
      PROVE  /\ command = CommandOf(call.route) /\ Result = "NONE" /\ line = <<>>
             /\ args = Fields(call.id)
  <2>1. PICK v : v = Fields(call.id) /\ Carries(v) /\ command = CommandOf(call.route)
    BY <1>0, <1>6 DEF Sent
  <2> QED
    BY <1>3, <2>1
<1>7. Sent'
  <2>1. Fields(call.id)' = Fields(call.id) /\ CommandOf(call.route)' = CommandOf(call.route)
    BY <1>0, FieldsStay
  <2> QED
    BY <1>0, <1>2, <1>4, <1>5, <1>6, <2>1 DEF Sent
<1>8. AnswerFits(answer')
  <2>1. Result = "NONE"
    BY <1>0, <1>5, <1>6
  <2>2. PICK c, a : /\ c = command /\ a = answer'
                    /\ a \in Successes(c) \/ \E e \in Refusals(c) : a = Failure(e)
    BY <2>1 DEF Handle
  <2>3. CASE a \in Successes(c)
    BY <2>2, <2>3, SuccessFits
  <2>4. ASSUME NEW e \in Refusals(c), a = Failure(e) PROVE AnswerFits(a)
    BY <2>4, RefusalsNamed, FailureFits
  <2> QED
    BY <2>2, <2>3, <2>4
<1>9. stage' = "answered" => answer'.kind # "LEN"
  <2>1. SUFFICES ASSUME stage = "sent" PROVE answer'.kind # "LEN"
    BY <1>0
  <2>2. Result = "NONE" /\ command = CommandOf(call.route)
    BY <1>6, <2>1
  <2>3. PICK c, a : /\ c = command /\ a = answer'
                    /\ a \in Successes(c) \/ \E e \in Refusals(c) : a = Failure(e)
    BY <2>2 DEF Handle
  <2>4. c # "#"
    BY <2>1, <2>2, <2>3 DEF IInv, Allowed, Routed, Routes, CommandOf
  <2> QED
    BY <2>3, <2>4, CountAnswersGreeting
<1>10. Answered'
  BY <1>0, <1>8, <1>9 DEF Answered
<1> QED
  BY <1>1, <1>7, <1>10 DEF Survival

LEMMA TryAgainSurvives ==
    ASSUME IInv, Survival, [GatewayNext]_all, TryAgain, call' = call, stage \in Routed \ {"routed"}
    PROVE  Survival'
<1>0. Bound /\ Sent /\ Answered /\ stage' = "bound" /\ answer' = NoAnswer
  BY DEF Survival, TryAgain, Afresh, Goto
<1>1. Bound'
  BY <1>0, BoundStays
<1>2. Sent'
  BY <1>0, SentNothing
<1>3. Answered'
  BY <1>0 DEF Answered
<1> QED
  BY <1>1, <1>2, <1>3 DEF Survival

\* What is received is what was answered.
LEMMA ReceivedIs ==
    ASSUME AnswerFits(answer)
    PROVE  Received = [kind |-> answer.kind, values |-> answer.values]
<1>1. PICK a : a = answer /\ Encodable(a)
  BY DEF AnswerFits
<1> QED
  BY <1>1, ResponseRead DEF Received

LEMMA SynchronizeSurvives ==
    ASSUME IInv, Survival, [GatewayNext]_all, Synchronize
    PROVE  Survival'
<1>0. Bound /\ Sent /\ Answered /\ stage = "greeted" /\ AnswerFits(answer)
  BY DEF Survival, Synchronize, Answered
<1>1. CASE Received.kind # "LEN"
  BY <1>0, <1>1, TryAgainSurvives DEF Synchronize, Routed
<1>2. CASE Received.kind = "LEN"
  <2>1. PICK a : a = answer /\ AnswerFits(a)
    BY <1>0
  <2>2. Received = [kind |-> a.kind, values |-> a.values]
    BY <1>0, <2>1, ReceivedIs
  <2>3. Received.kind = a.kind /\ Received.values = a.values
    BY <2>2
  <2>4. Widths("LEN") = <<U64Max, U64Max>> /\ U64Max \in Nat
    BY DecoderAssumption DEF Widths
  <2>5. Received.values[2] \in 0 .. U64Max
    <3>1. a.values \in Seq(Nat) /\ Len(a.values) = 2 /\ a.values[2] <= U64Max
      BY <1>2, <2>1, <2>3, <2>4 DEF AnswerFits, Encodable
    <3>2. a.values[2] \in Nat
      BY <3>1, ElementOfSeq
    <3> QED
      BY <2>3, <2>4, <3>1, <3>2
  <2>6. stage' = "connected" /\ answer' = NoAnswer
    BY <1>2 DEF Synchronize, Goto, Afresh
  <2>7. /\ {"route", "numbers", "flags", "id"} \subseteq DOMAIN call'
        /\ call'.id = Received.values[2] /\ call'.route = call.route
        /\ call'.numbers = call.numbers /\ call'.flags = call.flags
    BY <1>0, <1>2 DEF Synchronize, Bound
  <2>8. Bound'
    BY <1>0, <2>5, <2>6, <2>7 DEF Bound, Routed
  <2>9. Sent'
    BY <1>0, <2>6, SentNothing
  <2>10. Answered'
    BY <2>6 DEF Answered
  <2> QED
    BY <2>8, <2>9, <2>10 DEF Survival
<1> QED
  BY <1>1, <1>2

LEMMA ReceiveResponseSurvives ==
    ASSUME IInv, Survival, [GatewayNext]_all, ReceiveResponse
    PROVE  Survival'
<1>0. Bound /\ Sent /\ Answered /\ stage = "answered" /\ AnswerFits(answer) /\ call' = call
  BY DEF Survival, ReceiveResponse, Answered
<1>1. CASE Received = Malformed
  BY <1>0, <1>1, TryAgainSurvives DEF ReceiveResponse, Routed
<1>2. CASE Received # Malformed
  <2>1. /\ stage' \in {"replied", "failed"} /\ answer' = answer
        /\ stage' = "replied" => status' = ToResponse(Received)
    BY <1>2 DEF ReceiveResponse, Reply, Abort, Goto
  <2>2. stage' = "replied" => status' = Told(answer)
    BY <1>0, <2>1, ReceivedIs DEF Told
  <2>3. Bound'
    BY <1>0, <2>1, BoundStays DEF Routed
  <2>4. Sent'
    BY <1>0, <2>1, SentNothing
  <2>5. Answered'
    <3>1. answer.kind # "LEN"
      BY <1>0 DEF Answered
    <3>2. Told(answer)' = Told(answer)
      BY <2>1 DEF Told
    <3> QED
      BY <1>0, <2>1, <2>2, <3>1, <3>2 DEF Answered, Told
  <2> QED
    BY <2>3, <2>4, <2>5 DEF Survival
<1> QED
  BY <1>1, <1>2

\* Every step of the gateway keeps the request and its answer as they are.
LEMMA SurvivalStep ==
    ASSUME IInv, ReadWell, Survival, [GatewayNext]_all
    PROVE  Survival'
<1>1. CASE Typing \/ DialFails \/ GiveUp
  <2>1. call' = call /\ answer' = answer
    BY <1>1 DEF Typing, DialFails, GiveUp, gateway
  <2>2. \/ stage' = stage /\ stage \in {"typing", "bound"}
        \/ stage = "bound" /\ stage' = "failed"
    BY <1>1 DEF Typing, DialFails, Attempt, GiveUp, Abort, Goto, gateway
  <2> QED
    BY <2>1, <2>2, OthersSurvive
<1>2. ASSUME NEW route \in Routes, NEW matches \in BOOLEAN, Authorize(route, matches)
      PROVE  Survival'
  BY <1>2, AuthorizeSurvives
<1>3. ASSUME stage = "routed", NEW body \in Bodies(call.route),
             Handler(body[1], body[2]) \/ RateLimiter(body[1])
      PROVE  Survival'
  <2>1. CASE Handler(body[1], body[2])
    BY <1>3, <2>1, HandlerSurvives
  <2>2. CASE RateLimiter(body[1])
    BY <2>2, OthersSurvive DEF RateLimiter, Reply, Goto, Status
  <2> QED
    BY <1>3, <2>1, <2>2
<1>4. ASSUME NEW count \in Nonces, KeepConnection(count) PROVE Survival'
  BY <1>4, KeepConnectionSurvives
<1>5. CASE Greet
  BY <1>5, GreetSurvives
<1>6. CASE Synchronize
  BY <1>6, SynchronizeSurvives
<1>7. CASE SendRequest
  BY <1>7, SendRequestSurvives
<1>8. CASE Decode
  BY <1>8, DecodeSurvives
<1>9. CASE Handle
  BY <1>9, HandleSurvives
<1>10. CASE AttemptLost
  BY <1>10, TryAgainSurvives DEF AttemptLost, Routed
<1>11. CASE ReceiveResponse
  BY <1>11, ReceiveResponseSurvives
<1>12. CASE UNCHANGED all
  <2>1. UNCHANGED <<vars, gateway>>
    BY <1>12 DEF all
  <2>2. /\ call' = call /\ stage' = stage /\ line' = line /\ answer' = answer /\ status' = status
        /\ command' = command /\ args' = args /\ Result' = Result /\ tail' = tail
    BY <2>1 DEF gateway, vars, Result
  <2>3. Bound' /\ Answered'
    BY <2>2 DEF Survival, Bound, Answered
  <2>4. Fields(call.id)' = Fields(call.id)
    BY <2>2, FieldsStay
  <2>5. \A v : Carries(v)' = Carries(v)
    BY <2>2 DEF Carries, Params
  <2>6. Sent'
    BY <2>2, <2>4, <2>5 DEF Survival, Sent, Params
  <2> QED
    BY <2>3, <2>6 DEF Survival
<1> QED
  BY <1>1, <1>2, <1>3, <1>4, <1>5, <1>6, <1>7, <1>8, <1>9, <1>10, <1>11, <1>12
    DEF GatewayNext, Rested

LEMMA SurvivalInvariant == GatewaySpec => [](IInv /\ Survival)
<1>1. GatewayInit => ReadWell /\ Survival
  <2>1. "none" \notin Commands
    BY DEF Commands
  <2> QED
    BY <2>1, NothingRead, SurvivalInit DEF GatewayInit, Init
<1>2. IInv /\ ReadWell /\ Survival /\ [GatewayNext]_all => ReadWell' /\ Survival'
  BY DecoderMoves, ReadStep, SurvivalStep DEF IInv
<1> QED
  BY <1>1, <1>2, GatewayInvariant, PTL DEF GatewaySpec

\* What the HTTP client asked for is what the server reads, whatever the numbers, the
\* flags, the base and the widths, and through every attempt that is lost: no request of
\* LetDD is refused by the decoder, and the handshake is read as what it is
\* (uint128.go:21-56, request.go, flags.go:15-32, decoder.c).
THEOREM GatewayRequestSurvives == GatewaySpec => []RequestSurvives
<1>1. IInv /\ Survival => RequestSurvives
  <2> SUFFICES ASSUME IInv, Survival PROVE RequestSurvives
    OBVIOUS
  <2>1. Bound /\ Sent
    BY DEF Survival
  <2>2. stage = "greeted" => Result = "NONE" /\ line = <<>> /\ command = "#"
    BY <2>1 DEF Sent
  <2>3. ASSUME stage = "answered", \A i \in DOMAIN call.numbers : call.numbers[i] >= 0
        PROVE  Result = "NONE" /\ line = <<>> /\ command = CommandOf(call.route) /\ args = Meant
    <3>1. Fields(call.id) = Meant
      BY <2>1, <2>3, FieldsFit DEF Routed
    <3> QED
      BY <2>1, <2>3, <3>1 DEF Sent
  <2> QED
    BY <2>2, <2>3 DEF RequestSurvives
<1> QED
  BY <1>1, SurvivalInvariant, PTL

\* Every response LetDB writes is read, in any base and for any widths, none cut off, and
\* what is told of it is what was answered: balances and flags arrive as they were, an
\* error code stands for one error only, and no answer is taken for a failure of LetDD's
\* (encoder.c, response.go, error.c:47-57).  Whether it is told is another matter: where
\* the context of the call has ended, Communicate drops it (client.go:89-91).
THEOREM GatewayAnswerSurvives == GatewaySpec => []AnswerSurvives
<1>1. IInv /\ Survival => AnswerSurvives
  <2> SUFFICES ASSUME IInv, Survival PROVE AnswerSurvives
    OBVIOUS
  <2>1. Answered
    BY DEF Survival
  <2>2. ASSUME stage \in {"greeted", "answered"}
        PROVE  Received = [kind |-> answer.kind, values |-> answer.values]
    BY <2>1, <2>2, ReceivedIs DEF Answered
  <2>3. ASSUME stage = "replied", answer.kind \in {"ACC", "ERR"}
        PROVE  AnswerFits(answer) /\ status = Told(answer)
    BY <2>1, <2>3 DEF Answered, NoAnswer
  <2>4. ASSUME stage = "replied", answer.kind = "ACC"
        PROVE  /\ status.code = 200
               /\ <<status.values[1], status.values[2]>> = <<answer.values[1], answer.values[2]>>
               /\ MapThenSumSet(Bit, {status.flags[i] : i \in DOMAIN status.flags})
                    = answer.values[3] % 8
    <3>1. AnswerFits(answer) /\ status = Told(answer)
      BY <2>3, <2>4
    <3>2. Len(Widths("ACC")) = 3
      BY DEF Widths
    <3>3. PICK v \in Seq(Nat) : v = answer.values /\ Len(v) = 3
      BY <2>4, <3>1, <3>2 DEF AnswerFits, Encodable
    <3>4. v[1] \in Nat /\ v[2] \in Nat /\ v[3] \in Nat
      BY <3>3, ElementOfSeq
    <3>5. status = Status(200, SubSeq(v, 1, 2), Uint8ToFlags(v[3]))
      BY <2>4, <3>1, <3>3 DEF Told, ToResponse
    <3>6. /\ status.code = 200 /\ status.values = SubSeq(v, 1, 2)
          /\ status.flags = Uint8ToFlags(v[3])
      BY <3>5 DEF Status
    <3>7. SubSeq(v, 1, 2)[1] = v[1] /\ SubSeq(v, 1, 2)[2] = v[2]
      BY <3>3
    <3>8. MapThenSumSet(Bit, {status.flags[i] : i \in DOMAIN status.flags}) = v[3] % 8
      BY <3>4, <3>6, FlagsShown
    <3> QED
      BY <3>3, <3>6, <3>7, <3>8
  <2>5. ASSUME stage = "replied", answer.kind = "ERR"
        PROVE  status.code = 400 /\ {e \in Errors : status.values = <<Code(e)>>} = {answer.error}
    <3>1. AnswerFits(answer) /\ status = Told(answer)
      BY <2>3, <2>5
    <3>2. status = Status(400, answer.values, <<>>)
      BY <2>5, <3>1 DEF Told, ToResponse
    <3>3. status.code = 400 /\ status.values = <<Code(answer.error)>> /\ answer.error \in Errors
      BY <2>5, <3>1, <3>2 DEF Status, AnswerFits
    <3>4. ASSUME NEW e \in Errors, <<Code(e)>> = <<Code(answer.error)>>
          PROVE  e = answer.error
      <4>1. Code(e) = Code(answer.error)
        BY <3>4
      <4> QED
        BY <3>3, <4>1, CodeNamesOne
    <3> QED
      BY <3>3, <3>4
  <2>6. ASSUME stage = "replied" PROVE status.code # 500
    <3>1. CASE answer = NoAnswer /\ status.code # 500
      BY <3>1
    <3>2. CASE AnswerFits(answer) /\ answer.kind # "LEN" /\ status = Told(answer)
      <4>1. answer.kind \in {"AID", "ACC", "ERR", "OKE"}
        BY <3>2 DEF AnswerFits, Encodable, Responses
      <4> QED
        BY <3>2, <4>1 DEF Told, ToResponse, Status
    <3> QED
      BY <2>1, <2>6, <3>1, <3>2 DEF Answered
  <2> QED
    BY <2>2, <2>4, <2>5, <2>6 DEF AnswerSurvives
<1> QED
  BY <1>1, SurvivalInvariant, PTL
=============================================================================
