------------------------------ MODULE MCChainStore ------------------------------
(* TLC values for the constants of ChainStore, with a toy difficulty.       *)
EXTENDS ChainStore

MaxTarget == 4
MCWorkOf(t) == MaxTarget \div t

(* Expected span 2, clamped to a factor of two each way and to MaxTarget.   *)
MCRetarget(t, span) ==
    LET scaled == IF span = 1 THEN t \div 2
                  ELSE IF span >= 4 THEN t * 2 ELSE (t * span) \div 2
    IN  IF scaled < 1 THEN 1 ELSE IF scaled > MaxTarget THEN MaxTarget ELSE scaled

(* Every interval took as long as it should. *)
MCOnSchedule(t, span) == t
=================================================================================
