---------------------------- MODULE MCNodeLedger ----------------------------
(* TLC values for the constants of NodeLedger.                              *)
EXTENDS NodeLedger

CONSTANTS
    alice,      \* two nodes
    bob

(* One difficulty: every block weighs the same.                             *)
MCWorkOf(t) == 1
MCRetarget(t, span) == t

(* Ids order claims by anchor, then alice's before bob's.                   *)
MCTxId(tx) == Len(tx.anchor) * 2 + (IF tx.owner = alice THEN 0 ELSE 1)

(* alice's clock is behind, by less than MaxFutureDrift.                    *)
WithinDrift == [n \in Node |-> IF n = alice THEN 2 ELSE 3]
===============================================================================
