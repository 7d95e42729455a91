------------------------------- MODULE Rates -------------------------------
(***************************************************************************)
(* The conversions of a rate between the flags, the store, tc and the      *)
(* listing of classes (main.go, tcshape.go), in unsigned integers that     *)
(* wrap.  The widths and units are parameters: the code's are 2^64, 2^32   *)
(* and 125000.                                                             *)
(***************************************************************************)
EXTENDS Naturals

CONSTANTS
  U64,                 \* values of a uint64
  U32,                 \* values of a uint32
  bytesPerSecPerMbit

ASSUME RatesAssumption ==
  /\ U64 \in Nat /\ U32 \in Nat /\ bytesPerSecPerMbit \in Nat \ {0}
  /\ 0 < U32 /\ 8 * U32 <= U64

MaxUint32 == U32 - 1

\* A flag value run refuses.
TooLarge == U32

\* Mutant of perUserRate: the product is checked, after it may have wrapped.
perUserRateUnchecked(mbit) ==
  LET rate == (mbit * bytesPerSecPerMbit) % U64
  IN IF rate > MaxUint32 THEN TooLarge ELSE rate

\* -per-user-rate-mbit in bytes per second.
perUserRate(mbit) ==
  IF mbit > MaxUint32 \div bytesPerSecPerMbit THEN TooLarge
  ELSE ((mbit * bytesPerSecPerMbit) % U64) % U32

\* -default-class-rate-mbit, or the detected speed, in bytes per second.
defaultRate(mbit) == ((mbit * 8 * bytesPerSecPerMbit) % U64) \div 8

\* "rate <bits>bit": tc is given bits and keeps, and lists, bytes.
tcRate(rate) == ((rate * 8) % U64) \div 8

\* What parseClasses makes of the rate tc lists.
listedRate(rate) == IF rate < MaxUint32 THEN rate ELSE MaxUint32

-----------------------------------------------------------------------------
(* "a huge value would wrap around uint64 and slip under the limit as a    *)
(* tiny rate" (main.go): whatever -per-user-rate-mbit says, it is refused, *)
(* or it becomes that rate exactly; the class made with it is listed with  *)
(* the same rate, so that the next start adopts it instead of provisioning *)
(* its user once more.                                                     *)
PerUserRateKept(mbit) ==
  LET rate == perUserRate(mbit)
  IN \/ rate = TooLarge /\ mbit * bytesPerSecPerMbit > MaxUint32
     \/ rate = mbit * bytesPerSecPerMbit /\ listedRate(tcRate(rate)) = rate

(* A default class "must not become a bottleneck" (main.go): it is no      *)
(* slower than -default-class-rate-mbit says.  buildLayout multiplies      *)
(* unchecked, so that this is not so of every value: DefaultWrapsBeyond    *)
(* (PartsProofs) says of which.                                            *)
DefaultKeepsUp(mbit) ==
  tcRate(defaultRate(mbit)) >= mbit * bytesPerSecPerMbit
=============================================================================
