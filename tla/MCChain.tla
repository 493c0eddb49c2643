------------------------------- MODULE MCChain -------------------------------
(* TLC values for the constants of Chain, with the difficulty arithmetic of *)
(* Difficulty.                                                              *)
EXTENDS Chain, Difficulty

(* TARGET_BLOCK_TIME_SECS * RETARGET_INTERVAL_BLOCKS                        *)
ExpectedSpan == 5

MCWorkOf(t) == WorkOfBits(t)
MCRetarget(t, span) == RetargetBits(t, span, ExpectedSpan)

(* A target put in compact form and back keeps its first three significant  *)
(* digits, and its compact form is stable (the round trip of                *)
(* difficulty.rs:89-92), for every target of the runs' format.              *)
ASSUME CompactKeepsLeadingDigits ==
    \A t \in TargetDigits :
        LET bits == CompactFromTarget(t) IN
        /\ ExpandTarget(bits) =
              [i \in 1..Digits |-> IF \E j \in 1..(i - 3) : t[j] # 0 THEN 0 ELSE t[i]]
        /\ CompactFromTarget(ExpandTarget(bits)) = bits

-----------------------------------------------------------------------------
(* Properties *)

TargetValue(bits) == TargetAsFloat(ExpandTarget(bits))

(* Whatever timestamps the two ends of an interval carry, the clock set     *)
(* back included, the next difficulty follows the time the interval took:   *)
(* no easier after a fast one, no harder after a slow one, by a factor of   *)
(* four at most (difficulty.rs:133-139).  One case is different: an         *)
(* interval that was slow although the target was within a factor of four   *)
(* of the largest one.  The clamp in f64_as_target compares with a float    *)
(* that was rounded up past the last digit, whose digits are all zero, so   *)
(* the next target is one that no block meets.                              *)
RetargetFollowsTheSpan ==
    \A p \in Known(chain) :
        (HasAncestry(chain, p) /\ DifficultyKnown(chain, p) /\ OnRetargetBoundary(p)) =>
            LET old == TargetValue(Header(p).target)
                new == TargetValue(ExpectedDifficulty(p))
                span == Header(p).timestamp - Header(Prefix(p, IntervalStart(p))).timestamp
            IN  /\ new <= 4 * old
                /\ span <= ExpectedSpan => new <= old /\ old < 4 * (new + 1)
                /\ span >= ExpectedSpan => \/ new >= old
                                           \/ new = 0 /\ 4 * old >= MaxTargetAsFloat
===============================================================================
