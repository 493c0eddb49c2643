----------------------------- MODULE Difficulty -----------------------------
(***************************************************************************)
(* difficulty.rs: the compact encoding of a target and its retargeting, on *)
(* a smaller number format.  The code has 32 bytes of 256 values and       *)
(* doubles of 53 significant bits; here a target has Digits digits of Base *)
(* values and a float the integers below Significand times powers of two.  *)
(* What is kept is the order 3 < significant digits of a float < Digits:   *)
(* a compact target is exact as a float, the largest target is not.        *)
(***************************************************************************)
EXTENDS Integers, Sequences

CONSTANTS
    Base,           \* values of a byte: 256
    Digits,         \* bytes of a target: 32
    Significand     \* 2^53

ASSUME DifficultyAssumption ==
    /\ Base \in Nat \ {0, 1} /\ Digits \in Nat \ {0, 1, 2}
    /\ Base^3 <= Significand /\ Significand < Base^Digits

TargetDigits == [1..Digits -> 0..(Base - 1)]
MaxDigits == [i \in 1..Digits |-> Base - 1]

(* expand_target: the mantissa's three digits, from the place the exponent  *)
(* says on; what would fall off the right end is dropped, and an exponent   *)
(* above Digits leaves nothing.                                             *)
ExpandTarget(bits) ==
    LET exponent == bits \div Base^3
        mantissa == [k \in 1..3 |-> (bits \div Base^(3 - k)) % Base]
        place(i) == i - (Digits - exponent)
    IN  [i \in 1..Digits |->
            IF exponent <= Digits /\ place(i) \in 1..3 THEN mantissa[place(i)] ELSE 0]

(* compact_from_target: the first digit that is not zero and the two after. *)
CompactFromTarget(target) ==
    LET nonzero == {i \in 1..Digits : target[i] # 0}
        first == CHOOSE i \in nonzero : \A j \in nonzero : i <= j
        digit(i) == IF i <= Digits THEN target[i] ELSE 0
    IN  IF nonzero = {} THEN 0
        ELSE (Digits + 1 - first) * Base^3 + digit(first) * Base^2
             + digit(first + 1) * Base + digit(first + 2)

(* The nearest float, ties to even.                                         *)
Rounded(x) ==
    LET ulp == CHOOSE u \in {2^k : k \in 0..20} :
                  x < Significand * u /\ (u = 1 \/ 2 * x >= Significand * u)
        q == x \div ulp
        r == x % ulp
    IN  IF 2 * r > ulp \/ (2 * r = ulp /\ q % 2 = 1) THEN (q + 1) * ulp ELSE q * ulp

TargetAsFloat(target) ==
    LET value[i \in 0..Digits] ==
            IF i = 0 THEN 0 ELSE Rounded(value[i - 1] * Base + target[i])
    IN  value[Digits]

MaxTargetAsFloat == TargetAsFloat(MaxDigits)

(* f64_as_target: the digits below Base^Digits of the value, which is first *)
(* brought down to the float of the largest target.                         *)
FloatAsTarget(value) ==
    LET v == IF value > MaxTargetAsFloat THEN MaxTargetAsFloat ELSE value
    IN  [i \in 1..Digits |-> (v \div Base^(Digits - i)) % Base]

(* Mutant: no limit to what one interval changes.                           *)
ScaledUnclamped(value, actual, expected) == Rounded((value * actual) \div expected)

(* value times actual / expected, the ratio clamped to [1/4, 4].            *)
Scaled(value, actual, expected) ==
    Rounded(CASE actual * 4 < expected -> value \div 4
              [] actual > expected * 4 -> value * 4
              [] OTHER -> (value * actual) \div expected)

(* difficulty::retarget *)
RetargetBits(bits, actual, expected) ==
    CompactFromTarget(FloatAsTarget(
        Scaled(TargetAsFloat(ExpandTarget(bits)), actual, expected)))

(* difficulty::work_of, in units of 1/WorkUnit; no run gives a block to the *)
(* zero target, whose work is f64::MAX.                                     *)
WorkUnit == Base^2
WorkOfBits(bits) ==
    (MaxTargetAsFloat * WorkUnit) \div (TargetAsFloat(ExpandTarget(bits)) + 1)
===============================================================================
