------------------------------- MODULE Mailbox -------------------------------
(***************************************************************************)
(* One relay's mailbox cache (p2p-core's mailbox.rs) and the deposits the  *)
(* mix brings it (node.rs).  Deposits are keyed by their time and a digest *)
(* of all their fields, so the DEPOSITS table is a set of deposits, and    *)
(* BY_TAG, written in the same transactions, is the same set seen by tag.  *)
(***************************************************************************)
EXTENDS Integers, FiniteSets, FiniteSetsExt

CONSTANTS
    Pair,           \* sender and recipient pairs, one shared material each
    Envelope,       \* encrypted messages
    SizeOf(_),      \* an envelope's length in bytes
    Digest(_),      \* a deposit's digest, which orders deposits of one second
    MaxEnvelope,    \* MAX_ENVELOPE_BYTES
    Overhead,       \* what bincode adds to an envelope in a StoredDeposit
    Limit,          \* limit_bytes
    MaxDrift,       \* MAX_CLOCK_DRIFT_SECS
    Retention,      \* RETENTION_SECS
    EpochLength,    \* TAG_EPOCH_SECS
    MaxTime,        \* bound: the relay's clock stops here
    MaxArrivals     \* bound: deposits that reach the relay

ASSUME MailboxAssumption ==
    /\ \A e \in Envelope : SizeOf(e) \in Nat
    /\ {MaxEnvelope, Overhead, Limit, MaxDrift, Retention, MaxTime} \subseteq Nat
    /\ EpochLength \in Nat \ {0}

VARIABLES
    deposits,       \* DEPOSITS
    total_bytes,    \* TOTAL_BYTES_KEY
    now,            \* the clock of the relay
    arrivals        \* deposits that reached the relay so far

mailbox_vars == <<deposits, total_bytes, now, arrivals>>

(* The tag is derived from the shared material and the epoch.               *)
TagAt(pair, time) == <<pair, time \div EpochLength>>

(* What DepositToMailbox makes of an envelope at a time on the sender's     *)
(* clock; the stamp is a function of the rest.                              *)
DepositOf(pair, envelope, time) ==
    [tag |-> TagAt(pair, time), envelope |-> envelope, deposited_at |-> time]

(* Different deposits have different digests.                               *)
ASSUME DigestAssumption ==
    \A p, q \in Pair, e, f \in Envelope, t \in 0..(MaxTime + MaxDrift + 1) :
        LET d == DepositOf(p, e, t)
            g == DepositOf(q, f, t)
        IN  Digest(d) \in Nat /\ (Digest(d) = Digest(g) => d = g)

(* bincode(StoredDeposit).len() *)
StoredSize(d) == SizeOf(d.envelope) + Overhead

StoredBytes == MapThenSumSet(StoredSize, deposits)

(* deposit_key order *)
Older(d, e) ==
    \/ d.deposited_at < e.deposited_at
    \/ d.deposited_at = e.deposited_at /\ Digest(d) < Digest(e)

(* Mutant: the other end of the table.                                      *)
YoungestOf(ds) == CHOOSE d \in ds : \A e \in ds \ {d} : Older(e, d)

OldestStored(ds) == CHOOSE d \in ds : \A e \in ds \ {d} : Older(d, e)

MailboxInit ==
    /\ deposits = {} /\ total_bytes = 0
    /\ now = 0 /\ arrivals = 0

-----------------------------------------------------------------------------
(* Removing and accepting *)

(* remove_locked takes the envelope's length off, not what accept added.    *)
Reduced(total, d) ==
    IF total > SizeOf(d.envelope) THEN total - SizeOf(d.envelope) ELSE 0

(* Mutant: room for what is stored already.                                 *)
RoomForStored(total, added) == total <= Limit

Room(total, added) == total + added <= Limit

(* One eviction, of nothing when nothing is left.                           *)
OneEvicted(s) ==
    IF s.deposits = {} THEN s
    ELSE LET d == OldestStored(s.deposits)
         IN  [deposits |-> s.deposits \ {d}, total |-> Reduced(s.total, d)]

(* The store after the k oldest are gone.                                   *)
Evicted[k \in Nat] ==
    IF k = 0 THEN [deposits |-> deposits, total |-> total_bytes]
    ELSE OneEvicted(Evicted[k - 1])

(* How many evict_until_room_for evicts: until there is room or nothing is  *)
(* left.                                                                    *)
Evictions(added) ==
    LET all == Cardinality(deposits) IN
    CHOOSE k \in 0..all :
        /\ k = all \/ Room(Evicted[k].total, added)
        /\ \A i \in 0..(k - 1) : ~ Room(Evicted[i].total, added)

(* validate; the proof of work is the sender's business.                    *)
Valid(d) ==
    /\ SizeOf(d.envelope) > 0 /\ SizeOf(d.envelope) <= MaxEnvelope
    /\ d.deposited_at - now <= MaxDrift /\ now - d.deposited_at <= MaxDrift

(* A deposit routed to this relay (handle_mix_event): accept counts its     *)
(* bytes though the table may hold it already.                              *)
Deposit(d) ==
    LET s == Evicted[Evictions(StoredSize(d))] IN
    /\ arrivals < MaxArrivals
    /\ Valid(d)
    /\ deposits' = s.deposits \cup {d}
    /\ total_bytes' = s.total + StoredSize(d)
    /\ arrivals' = arrivals + 1
    /\ UNCHANGED <<now>>

(* The relay dies between two of accept's transactions.                     *)
DepositCut(d) ==
    /\ arrivals < MaxArrivals
    /\ Valid(d)
    /\ \E k \in 1..Evictions(StoredSize(d)) :
          deposits' = Evicted[k].deposits /\ total_bytes' = Evicted[k].total
    /\ arrivals' = arrivals + 1
    /\ UNCHANGED <<now>>

Tick ==
    /\ now < MaxTime
    /\ now' = now + 1
    /\ UNCHANGED <<deposits, total_bytes, arrivals>>

Arrival == \E p \in Pair, e \in Envelope, t \in 0..(MaxTime + MaxDrift + 1) :
               Deposit(DepositOf(p, e, t)) \/ DepositCut(DepositOf(p, e, t))

-----------------------------------------------------------------------------
(* The operations nothing in node.rs calls *)

Remove(d) ==
    /\ d \in deposits
    /\ deposits' = deposits \ {d}
    /\ total_bytes' = Reduced(total_bytes, d)
    /\ UNCHANGED <<now, arrivals>>

Expired(d) == now - d.deposited_at > Retention

(* From the oldest on, until one is not expired.                            *)
ExpiredCount == Cardinality({d \in deposits : Expired(d)})

EvictExpired ==
    /\ ExpiredCount > 0
    /\ deposits' = Evicted[ExpiredCount].deposits
    /\ total_bytes' = Evicted[ExpiredCount].total
    /\ UNCHANGED <<now, arrivals>>

(* node.rs only deposits; its queries (in MixNetwork) change nothing here.  *)
MailboxNext == Arrival \/ Tick \/ EvictExpired \/ \E d \in deposits : Remove(d)

MailboxSpec == MailboxInit /\ [][MailboxNext]_mailbox_vars

-----------------------------------------------------------------------------
(* Properties *)

(* The cache stays within its budget whatever is deposited twice, removed,  *)
(* expired or cut short, unless one deposit alone exceeds it                *)
(* (mailbox.rs:300-305, 334-338).                                           *)
WithinBudget == StoredBytes <= Limit \/ Cardinality(deposits) = 1

(* No deposit is given up for a younger one, however the mix reorders,      *)
(* delays or repeats them: what an arrival evicts is older than all that    *)
(* stays, but for the arrival itself (mailbox.rs:226-231).                  *)
OldestGivenUpFirst ==
    [][arrivals' = arrivals \/ deposits \subseteq deposits' \/ deposits' = {} \/
       \E arrival \in deposits' :
          \A gone \in deposits \ deposits', kept \in (deposits \cap deposits') \ {arrival} :
              Older(gone, kept)]_mailbox_vars
===============================================================================
