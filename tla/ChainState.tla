------------------------------ MODULE ChainState ------------------------------
(***************************************************************************)
(* The in-memory username ledger of packages/ledger-core: the values a     *)
(* `Chain` can take and every operation on it, as operators on a record c. *)
(* Chain.tla turns them into a state machine; ChainStore.tla adds the disk.*)
(*                                                                         *)
(* A block hash commits to the whole header, `prev_hash` included, so two  *)
(* blocks with equal hashes have equal ancestries.  A block is therefore   *)
(* modelled as the sequence of the headers from the first block above      *)
(* genesis up to itself: genesis is << >>, the parent of b drops b's last  *)
(* element, and following prev_hash is taking prefixes.  Hashes do not     *)
(* collide in the model.                                                   *)
(***************************************************************************)
EXTENDS Integers, Sequences, FiniteSets

CONSTANTS
    Name,               \* normalised usernames
    Owner,              \* identity public keys
    Target,             \* compact difficulty targets
    GenesisTarget,      \* INITIAL_DIFFICULTY_BITS
    GenesisTime,        \* GENESIS_TIMESTAMP
    WorkOf(_),          \* difficulty.rs work_of
    Retarget(_, _),     \* difficulty.rs retarget(bits, actual_span), fixed expected span
    RetargetInterval,   \* RETARGET_INTERVAL_BLOCKS
    MedianWindow,       \* MEDIAN_TIME_PAST_WINDOW
    AnchorMaxAge,       \* ANCHOR_MAX_AGE_BLOCKS
    MaxFutureDrift,     \* MAX_FUTURE_DRIFT_SECS
    MaxTxs              \* MAX_TXS_PER_BLOCK

ASSUME WorkAssumption == \A t \in Target : WorkOf(t) \in Nat \ {0}

ASSUME BoundsAssumption ==
    /\ GenesisTarget \in Target
    /\ GenesisTime \in Nat
    /\ RetargetInterval \in Nat \ {0}
    /\ MedianWindow \in Nat \ {0}
    /\ AnchorMaxAge \in Nat
    /\ MaxFutureDrift \in Nat
    /\ MaxTxs \in Nat

-----------------------------------------------------------------------------
(* Blocks *)

Genesis == << >>

(* `sealed` stands for the checks that read a block alone: its size, its    *)
(* tx_commitment, its proof of work against its own target, and every       *)
(* transaction's own signature and format.                                  *)
GenesisHeader ==
    [height |-> 0, timestamp |-> GenesisTime, target |-> GenesisTarget,
     txs |-> {}, sealed |-> TRUE]

(* The block whose height is n in b's ancestry. *)
Prefix(b, n) == [i \in 1..n |-> b[i]]

Parent(b) == Prefix(b, Len(b) - 1)

(* A block extending p with header and body x. *)
Extend(p, x) == [i \in 1..(Len(p) + 1) |-> IF i <= Len(p) THEN p[i] ELSE x]

IsBlock(b) == Len(b) \in Nat /\ b = [i \in 1..Len(b) |-> b[i]]

Header(b) == IF b = Genesis THEN GenesisHeader ELSE b[Len(b)]

IsPrefixOf(a, b) == Len(a) <= Len(b) /\ Prefix(b, Len(a)) = a

(* A @username claim; the anchor is the block its signature is bound to.    *)
Claim(anchors) == [name : Name, owner : Owner, anchor : anchors]

-----------------------------------------------------------------------------
(* Chain values.  `meta` maps every accepted block to its cumulative work:  *)
(* the other fields of BlockMeta are those of the block's own header.       *)
(* floor_height is the length of floor_hash.                                *)

Known(c) == DOMAIN c.meta
FloorHeight(c) == Len(c.floor_hash)
TipHeight(c) == Len(c.tip_hash)
TipWork(c) == c.meta[c.tip_hash]

NoOwners == [n \in {} |-> Genesis]

NewChain ==
    [meta                 |-> [b \in {Genesis} |-> 0],
     blocks               |-> {Genesis},
     tip_hash             |-> Genesis,
     canonical_index      |-> [h \in {0} |-> Genesis],
     username_owner       |-> NoOwners,
     floor_hash           |-> Genesis,
     floor_username_owner |-> NoOwners]

(* Mutant: the walk stops at the floor's height, whatever block is there.   *)
HasAncestryToFloorHeight(c, b) ==
    /\ Len(b) >= FloorHeight(c)
    /\ \A h \in FloorHeight(c)..Len(b) : Prefix(b, h) \in Known(c)

(* Walking prev_hash from b meets the floor and only passes known blocks.   *)
HasAncestry(c, b) ==
    /\ IsPrefixOf(c.floor_hash, b)
    /\ \A h \in FloorHeight(c)..Len(b) : Prefix(b, h) \in Known(c)

(* Keyed by height: the floor first, b itself last. *)
Ancestors(c, b) == [h \in FloorHeight(c)..Len(b) |-> Prefix(b, h)]

-----------------------------------------------------------------------------
(* The materialised username -> owner view *)

(* The heights above lo at which b's history claims n. *)
ClaimHeights(b, lo, n) ==
    {h \in (lo + 1)..Len(b) : \E tx \in b[h].txs : tx.name = n}

ClaimedNames(b, lo) == {n \in Name : ClaimHeights(b, lo, n) # {}}

UsernameOwner(b, h, n) ==
    [owner |-> (CHOOSE tx \in b[h].txs : tx.name = n).owner,
     claimed_at_height |-> h,
     claimed_in_block |-> Prefix(b, h)]

(* Replaying b's blocks above lo over a snapshot: the last claim stands.    *)
Replay(snapshot, lo, b) ==
    [n \in DOMAIN snapshot \cup ClaimedNames(b, lo) |->
        LET hs == ClaimHeights(b, lo, n) IN
        IF hs = {} THEN snapshot[n]
        ELSE UsernameOwner(b, CHOOSE h \in hs : \A g \in hs : g <= h, n)]

(* state_at fails when a body between the floor and b is missing.           *)
HasState(c, b) ==
    /\ HasAncestry(c, b)
    /\ \A h \in (FloorHeight(c) + 1)..Len(b) : Prefix(b, h) \in c.blocks

StateAt(c, b) == Replay(c.floor_username_owner, FloorHeight(c), b)

-----------------------------------------------------------------------------
(* Timestamps and difficulty *)

(* The upper median of the timestamps of p and of the blocks before it,     *)
(* MedianWindow of them or as many as there are above the floor.            *)
MedianTimePast(c, p) ==
    LET from == IF Len(p) - MedianWindow + 1 > FloorHeight(c)
                THEN Len(p) - MedianWindow + 1 ELSE FloorHeight(c)
        window == from..Len(p)
        Time(h) == Header(Prefix(p, h)).timestamp
        rank == (Len(p) - from + 1) \div 2
    IN  CHOOSE t \in {Time(h) : h \in window} :
            /\ Cardinality({h \in window : Time(h) < t}) <= rank
            /\ Cardinality({h \in window : Time(h) <= t}) > rank

OnRetargetBoundary(p) == (Header(p).height + 1) % RetargetInterval = 0

IntervalStart(p) == Header(p).height + 1 - RetargetInterval

(* expected_difficulty fails only on a boundary: no ancestry to the floor,  *)
(* or an interval that began below it.                                      *)
DifficultyKnown(c, p) ==
    OnRetargetBoundary(p) => HasAncestry(c, p) /\ IntervalStart(p) >= FloorHeight(c)

ExpectedDifficulty(p) ==
    IF ~ OnRetargetBoundary(p) THEN Header(p).target
    ELSE LET span == Header(p).timestamp - Header(Prefix(p, IntervalStart(p))).timestamp
         IN  Retarget(Header(p).target, IF span > 1 THEN span ELSE 1)

-----------------------------------------------------------------------------
(* Validation *)

(* Mutant: any block of this node will do as an anchor.                     *)
AnchorKnown(c, anchor, p, height) ==
    /\ anchor \in Known(c)
    /\ height - Len(anchor) <= AnchorMaxAge

(* The anchor is an ancestor of p, no further below height than AnchorMaxAge. *)
AnchorOK(c, anchor, p, height) ==
    /\ \E h \in DOMAIN Ancestors(c, p) : Ancestors(c, p)[h] = anchor
    /\ height - Len(anchor) <= AnchorMaxAge

(* Mutant: the name is looked up in the canonical view, not in the parent's. *)
UnclaimedOnTip(c, p, n) == n \notin DOMAIN c.username_owner

(* Mutant: the name is looked up above the floor only.                      *)
UnclaimedAboveFloor(c, p, n) == n \notin ClaimedNames(p, FloorHeight(c))

Unclaimed(c, p, n) == n \notin DOMAIN StateAt(c, p)

ValidTransactions(c, b) ==
    LET p == Parent(b)
        txs == Header(b).txs
    IN  /\ HasState(c, p)
        /\ \A tx \in txs :
              /\ AnchorOK(c, tx.anchor, p, Header(b).height)
              /\ Unclaimed(c, p, tx.name)
        /\ \A t, u \in txs : t.name = u.name => t = u

FollowsParent(x, p) == x.height = Header(p).height + 1

(* Mutants: without the drift allowance, without the lower bound.           *)
TimestampNotAhead(c, x, p, now) == MedianTimePast(c, p) < x.timestamp /\ x.timestamp <= now
TimestampNotInFuture(c, x, p, now) == x.timestamp <= now + MaxFutureDrift

ValidTimestamp(c, x, p, now) ==
    /\ x.timestamp > MedianTimePast(c, p)
    /\ x.timestamp <= now + MaxFutureDrift

ValidBlock(c, b, now) ==
    LET p == Parent(b)
        x == Header(b)
    IN  /\ Cardinality(x.txs) <= MaxTxs
        /\ x.sealed
        /\ p \in Known(c)
        /\ FollowsParent(x, p)
        /\ DifficultyKnown(c, p)
        /\ x.target = ExpectedDifficulty(p)
        /\ HasAncestry(c, p)
        /\ ValidTimestamp(c, x, p, now)
        /\ x.txs # {} => ValidTransactions(c, b)

(* b, accepted once, is valid again when nothing below height f is visible. *)
SelfContained(b, f) ==
    LET cut == [floor_hash |-> Prefix(b, f)] IN
    /\ OnRetargetBoundary(Parent(b)) => IntervalStart(Parent(b)) >= f
    /\ Header(b).timestamp > MedianTimePast(cut, Parent(b))
    /\ \A tx \in Header(b).txs : Len(tx.anchor) >= f

(* Whether a miner would put tx in a candidate extending the tip.           *)
ValidForMempool(c, tx, height) ==
    /\ HasAncestry(c, c.tip_hash)
    /\ AnchorOK(c, tx.anchor, c.tip_hash, height)
    /\ HasState(c, c.tip_hash)
    /\ Unclaimed(c, c.tip_hash, tx.name)

-----------------------------------------------------------------------------
(* Accepting a block *)

BlockWork(c, b) == c.meta[Parent(b)] + WorkOf(Header(b).target)

Inserted(c, b) ==
    [c EXCEPT !.meta = [k \in Known(c) \cup {b} |->
                            IF k = b THEN BlockWork(c, b) ELSE c.meta[k]],
              !.blocks = @ \cup {b}]

(* Mutant: the index is overwritten, not rebuilt.                           *)
WithCanonicalTipKeptIndex(c, b) ==
    [c EXCEPT !.canonical_index =
                  [h \in DOMAIN @ \cup DOMAIN Ancestors(c, b) |->
                      IF h \in DOMAIN Ancestors(c, b) THEN Ancestors(c, b)[h] ELSE @[h]],
              !.username_owner = StateAt(c, b), !.tip_hash = b]

(* set_canonical_tip: the index is rebuilt before state_at can fail.        *)
WithCanonicalTip(c, b) ==
    IF ~ HasAncestry(c, b) THEN c
    ELSE LET indexed == [c EXCEPT !.canonical_index = Ancestors(c, b)] IN
         IF ~ HasState(c, b) THEN indexed
         ELSE [indexed EXCEPT !.username_owner = StateAt(c, b), !.tip_hash = b]

(* Mutants: a tie suffices; the longer branch wins.                         *)
AsHeavyAsTip(d, b) == d.meta[b] >= TipWork(d)
LongerThanTip(d, b) == Len(b) > TipHeight(d)

Outweighs(d, b) == ~ (d.meta[b] <= TipWork(d))

ApplyOutcome(c, b, now) ==
    CASE b \in Known(c)                    -> "AlreadyKnown"
      [] b \notin Known(c) /\ ~ ValidBlock(c, b, now) -> "Rejected"
      [] OTHER ->
           LET d == Inserted(c, b) IN
           IF ~ Outweighs(d, b) THEN "AddedToFork"
           ELSE IF ~ HasState(d, b) THEN "Failed"
           ELSE IF Parent(b) = c.tip_hash THEN "ExtendedTip" ELSE "ReorgedTo"

TryApply(c, b, now) ==
    LET outcome == ApplyOutcome(c, b, now) IN
    CASE outcome \in {"AlreadyKnown", "Rejected"} -> c
      [] outcome = "AddedToFork"                  -> Inserted(c, b)
      [] OTHER -> WithCanonicalTip(Inserted(c, b), b)

-----------------------------------------------------------------------------
(* Checkpoints and pruning *)

CanCheckpoint(c, h) ==
    /\ h \in DOMAIN c.canonical_index
    /\ c.canonical_index[h] \in Known(c)
    /\ HasState(c, c.canonical_index[h])

CheckpointAt(c, h) ==
    LET b == c.canonical_index[h] IN
    [hash |-> b, cumulative_work |-> c.meta[b], username_owner |-> StateAt(c, b)]

FromCheckpoint(k) ==
    [meta                 |-> [b \in {k.hash} |-> k.cumulative_work],
     blocks               |-> {},
     tip_hash             |-> k.hash,
     canonical_index      |-> [h \in {Len(k.hash)} |-> k.hash],
     username_owner       |-> k.username_owner,
     floor_hash           |-> k.hash,
     floor_username_owner |-> k.username_owner]

(* Mutants: the snapshot is the tip's; one body too many goes.              *)
PrunedWithTipSnapshot(c, h) ==
    IF h <= FloorHeight(c) \/ h \notin DOMAIN c.canonical_index THEN c
    ELSE [c EXCEPT !.blocks = {k \in @ : Header(k).height > h},
                   !.floor_username_owner = c.username_owner,
                   !.floor_hash = c.canonical_index[h]]
PrunedOneTooMany(c, h) ==
    IF h <= FloorHeight(c) \/ h \notin DOMAIN c.canonical_index THEN c
    ELSE [c EXCEPT !.blocks = {k \in @ : Header(k).height > h + 1},
                   !.floor_username_owner = StateAt(c, c.canonical_index[h]),
                   !.floor_hash = c.canonical_index[h]]

(* prune_bodies_up_to: bodies at or below h go, metadata stays. *)
Pruned(c, h) ==
    IF h <= FloorHeight(c) \/ h \notin DOMAIN c.canonical_index
       \/ ~ HasState(c, c.canonical_index[h])
    THEN c
    ELSE LET b == c.canonical_index[h] IN
         [c EXCEPT !.blocks = {k \in @ : Header(k).height > h},
                   !.floor_username_owner = StateAt(c, b),
                   !.floor_hash = b]
===============================================================================
