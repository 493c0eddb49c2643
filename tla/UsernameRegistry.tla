--------------------------- MODULE UsernameRegistry ---------------------------
(***************************************************************************)
(* What the ledger promises the app, with no blocks in it: a map from       *)
(* usernames to owners in which a registration stays, unless the network    *)
(* puts more work into another history, and in which what is final is       *)
(* never taken back.                                                        *)
(***************************************************************************)
EXTENDS Integers

VARIABLES
    owner,      \* username -> owner, as looked up now
    final,      \* the part of it no reorg can reach
    work        \* the work behind it

Includes(f, g) ==
    /\ DOMAIN g \subseteq DOMAIN f
    /\ \A n \in DOMAIN g : f[n] = g[n]

Init ==
    /\ DOMAIN owner = {}
    /\ DOMAIN final = {}
    /\ work = 0

(* More work on the current history: names may be added, none is lost.      *)
Register ==
    /\ work' > work
    /\ Includes(owner', owner)
    /\ UNCHANGED final

(* Another history has more work: names may change hands, final ones keep.  *)
Reorganise ==
    /\ work' > work
    /\ Includes(owner', final)
    /\ UNCHANGED final

(* Part of the current history becomes irreversible.                        *)
Finalise ==
    /\ Includes(final', final)
    /\ Includes(owner, final')
    /\ UNCHANGED <<owner, work>>

Next == Register \/ Reorganise \/ Finalise

Spec == Init /\ [][Next]_<<owner, final, work>>
===============================================================================
