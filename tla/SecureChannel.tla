---------------------------- MODULE SecureChannel ----------------------------
(***************************************************************************)
(* What a Double Ratchet session promises its two parties: a party accepts *)
(* only what the other one sent, and each message once.  The network in    *)
(* between may lose, repeat, reorder and garble.                           *)
(***************************************************************************)
EXTENDS Naturals

CONSTANTS
    Party,
    Peer(_)     \* the other party

VARIABLES
    sent,       \* party -> the messages it sent
    received,   \* party -> the messages it accepted
    accepted    \* party -> how many times it accepted a message

vars == <<sent, received, accepted>>

Init ==
    /\ sent = [p \in Party |-> {}]
    /\ received = [p \in Party |-> {}]
    /\ accepted = [p \in Party |-> 0]

Send(p) ==
    /\ \E s \in {sent'[p]} : sent[p] \subseteq s /\ sent' = [sent EXCEPT ![p] = s]
    /\ UNCHANGED <<received, accepted>>

Accept(p) ==
    /\ \E m \in sent[Peer(p)] \ received[p] : received' = [received EXCEPT ![p] = @ \cup {m}]
    /\ accepted' = [accepted EXCEPT ![p] = @ + 1]
    /\ UNCHANGED sent

Next == \E p \in Party : Send(p) \/ Accept(p)

Spec == Init /\ [][Next]_vars
===============================================================================
