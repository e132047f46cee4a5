------------------------------ MODULE Supervisor ------------------------------
(***************************************************************************)
(* The supervisor of LetDD (LetDD/supervisor): how often an attempt is     *)
(* made and the delay before it, a shift and a product of signed integers  *)
(* that wrap, clamped.                                                     *)
(***************************************************************************)
EXTENDS Integers

CONSTANTS DurationBits,   \* 64, the width of time.Duration
          CancelAfter     \* 5, or as --supervisor says

ASSUME SupervisorAssumption == DurationBits \in Nat \ {0} /\ CancelAfter \in Nat

VARIABLES tries,   \* CurrentTry
          delay    \* how long the last attempt has waited
supervisor == <<tries, delay>>

SupervisorInit == tries = 0 /\ delay = 0

\* The powers of two, as a function, so that they can be reasoned about.
Power[n \in Nat] == IF n = 0 THEN 1 ELSE 2 * Power[n - 1]

Half == Power[DurationBits - 1]
Durations == 1 .. Half - 1          \* --supervisor takes no other
Wrap(n) == ((n + Half) % (2 * Half)) - Half

Larger(m, n) == IF m >= n THEN m ELSE n
Smaller(m, n) == IF m <= n THEN m ELSE n

\* A shift by the width or more leaves nothing.
Shift(by) == IF by >= DurationBits THEN 0 ELSE Wrap(Power[by])

\* Mutant: the delay is only cut from above (supervisor.go:72).
CalculateBackoff_NoMinimum(minimum, maximum) ==
    Smaller(Wrap(Shift(tries - 1) * minimum), maximum)

CalculateBackoff(minimum, maximum) ==
    Smaller(Larger(Wrap(Shift(tries - 1) * minimum), minimum), maximum)

\* The first attempt is made at once, and is made even where none is allowed.
Try(minimum, maximum) ==
    /\ tries = 0 \/ tries < CancelAfter
    /\ tries' = tries + 1
    /\ delay' = IF tries = 0 THEN 0 ELSE CalculateBackoff(minimum, maximum)

Reset == tries' = 0 /\ delay' = 0

=============================================================================
