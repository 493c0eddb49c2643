------------------------------ MODULE ChainStore ------------------------------
(***************************************************************************)
(* ledger-core's ChainStore: a Chain in memory beside a database on disk.  *)
(* Blocks are applied in memory first and written after, pruning takes two *)
(* write transactions, the process may die at any moment and a write may   *)
(* fail; opening the store replays what the disk holds.                    *)
(***************************************************************************)
EXTENDS Chain

CONSTANTS
    Retentions,     \* arguments prune_with_retention is called with
    WritesMayFail   \* whether a write transaction may return an error

ASSUME StoreAssumption == Retentions \subseteq Nat /\ WritesMayFail \in BOOLEAN

(* Chain's variable `chain` is the in-memory Chain, meaningful while open.  *)
VARIABLES
    status,     \* "closed", "open", or "failed": open returned an error
    disk        \* the tables; tip and checkpoint are sets of at most one value

vars == <<status, chain, disk>>

EmptyDisk ==
    [bodies |-> {}, headers |-> [b \in {} |-> 0], heights |-> [h \in {} |-> Genesis],
     tip |-> {}, checkpoint |-> {}, max_height |-> 0]

StoreInit == status = "closed" /\ chain = NewChain /\ disk = EmptyDisk

-----------------------------------------------------------------------------
(* Transactions on the disk *)

(* Mutants: entries above the new tip stay; the tip's own entry goes with   *)
(* them.                                                                    *)
HeightsKeepingStale(d, c) ==
    LET index == Ancestors(c, c.tip_hash) IN
    [h \in DOMAIN d.heights \cup DOMAIN index |->
        IF h \in DOMAIN index THEN index[h] ELSE d.heights[h]]
HeightsMissingTip(d, c) ==
    LET index == Ancestors(c, c.tip_hash)
        stale == TipHeight(c)..d.max_height
    IN  [h \in (DOMAIN d.heights \cup DOMAIN index) \ stale |->
            IF h \in DOMAIN index THEN index[h] ELSE d.heights[h]]

(* The index from the floor to the tip over the old one, minus what the old *)
(* one had above the tip.                                                   *)
HeightsAfter(d, c) ==
    LET index == Ancestors(c, c.tip_hash)
        stale == (TipHeight(c) + 1)..d.max_height
    IN  [h \in (DOMAIN d.heights \cup DOMAIN index) \ stale |->
            IF h \in DOMAIN index THEN index[h] ELSE d.heights[h]]

(* persist_after_apply *)
Persisted(d, c, b) ==
    [d EXCEPT !.bodies = @ \cup {b},
              !.headers = [k \in DOMAIN @ \cup {b} |-> IF k = b THEN c.meta[b] ELSE @[k]],
              !.heights = HeightsAfter(d, c),
              !.max_height = IF @ > TipHeight(c) THEN @ ELSE TipHeight(c),
              !.tip = {c.tip_hash}]

WithCheckpoint(d, k) == [d EXCEPT !.checkpoint = {k}]

WithoutBodies(d, h) == [d EXCEPT !.bodies = {b \in @ : Header(b).height > h}]

(* Mutant: the bodies go before the checkpoint is saved.                    *)
BodiesFirst(d, k, h) == WithoutBodies(d, h)

(* What the first of prune's two transactions leaves.                       *)
PruneBegun(d, k, h) == WithCheckpoint(d, k)

-----------------------------------------------------------------------------
(* Restoring *)

RestoreBase(d) ==
    IF d.checkpoint = {} THEN NewChain ELSE FromCheckpoint(CHOOSE k \in d.checkpoint : TRUE)

(* The last height of the unbroken run of index entries above the floor.    *)
ReplayEnd(d, floor) ==
    CHOOSE h \in {floor} \cup DOMAIN d.heights :
        /\ h >= floor /\ ((floor + 1)..h) \subseteq DOMAIN d.heights
        /\ h + 1 \notin DOMAIN d.heights

(* One turn of restore's loop, with the block's own timestamp as the clock; *)
(* r is the chain so far, and whether every turn succeeded.                 *)
ReplayBlock(d, r, b) ==
    IF /\ r.ok
       /\ b \in d.bodies
       /\ ApplyOutcome(r.chain, b, Header(b).timestamp) \notin {"Rejected", "Failed"}
    THEN [ok |-> TRUE, chain |-> TryApply(r.chain, b, Header(b).timestamp)]
    ELSE [ok |-> FALSE, chain |-> r.chain]

Restored(d) ==
    LET base == RestoreBase(d)
        floor == FloorHeight(base)
        upto[h \in floor..ReplayEnd(d, floor)] ==
            IF h = floor THEN [ok |-> TRUE, chain |-> base]
            ELSE ReplayBlock(d, upto[h - 1], d.heights[h])
    IN  upto[ReplayEnd(d, floor)]

-----------------------------------------------------------------------------
(* Actions *)

(* ChainStore::open *)
Open ==
    /\ status = "closed"
    /\ IF disk.tip = {}
       THEN /\ status' = "open" /\ chain' = NewChain
            /\ disk' = Persisted(disk, NewChain, Genesis)
       ELSE /\ status' = IF Restored(disk).ok THEN "open" ELSE "failed"
            /\ chain' = IF Restored(disk).ok THEN Restored(disk).chain ELSE NewChain
            /\ UNCHANGED disk

Seen == Known(chain) \cup disk.bodies

OfferedClaims(c) == {{}} \cup {{t} : t \in Claim(Known(c))}

Offers(c, p) ==
    [height : {Header(p).height + 1}, timestamp : Times, target : Target,
     txs : OfferedClaims(c), sealed : {TRUE}]

(* ChainStore::try_apply of an acceptable or a refused block, written through. *)
Apply(p, x, now) ==
    LET b == Extend(p, x)
        outcome == ApplyOutcome(chain, b, now)
    IN  /\ status = "open"
        /\ Len(p) < MaxHeight /\ Cardinality(Seen) < MaxBlocks
        /\ chain' = TryApply(chain, b, now)
        /\ disk' = IF outcome \in {"AlreadyKnown", "Rejected", "Failed"} THEN disk
                   ELSE Persisted(disk, chain', b)
        /\ UNCHANGED status

(* The same, when the write fails: the block stays accepted in memory.      *)
ApplyUnsaved(p, x, now) ==
    /\ WritesMayFail
    /\ status = "open"
    /\ Len(p) < MaxHeight /\ Cardinality(Seen) < MaxBlocks
    /\ chain' = TryApply(chain, Extend(p, x), now)
    /\ UNCHANGED <<status, disk>>

(* Mutant: one block less is kept than asked for.                           *)
NewFloorTooHigh(c, retention) == TipHeight(c) - retention + 1

NewFloorHeight(c, retention) == TipHeight(c) - retention

MayPrune(retention) ==
    /\ status = "open"
    /\ NewFloorHeight(chain, retention) > FloorHeight(chain)
    /\ CanCheckpoint(chain, NewFloorHeight(chain, retention))

(* ChainStore::prune_with_retention: the checkpoint, then memory, then the  *)
(* bodies on disk.                                                          *)
PruneStore(retention) ==
    LET h == NewFloorHeight(chain, retention) IN
    /\ MayPrune(retention)
    /\ chain' = Pruned(chain, h)
    /\ disk' = WithoutBodies(WithCheckpoint(disk, CheckpointAt(chain, h)), h)
    /\ UNCHANGED status

(* The process dies between prune's two transactions.                       *)
PruneCut(retention) ==
    LET h == NewFloorHeight(chain, retention) IN
    /\ MayPrune(retention)
    /\ disk' = PruneBegun(disk, CheckpointAt(chain, h), h)
    /\ status' = "closed" /\ chain' = NewChain

(* The second transaction fails: memory is pruned, the bodies stay.         *)
PruneUnsaved(retention) ==
    LET h == NewFloorHeight(chain, retention) IN
    /\ WritesMayFail
    /\ MayPrune(retention)
    /\ chain' = Pruned(chain, h)
    /\ disk' = PruneBegun(disk, CheckpointAt(chain, h), h)
    /\ UNCHANGED status

(* The app is closed or killed; a transaction under way is rolled back.     *)
Crash ==
    /\ status # "closed"
    /\ status' = "closed" /\ chain' = NewChain
    /\ UNCHANGED disk

StoreNext ==
    \/ Open
    \/ \E p \in Seen, now \in Clocks : \E x \in Offers(chain, p) :
          Apply(p, x, now) \/ ApplyUnsaved(p, x, now)
    \/ \E r \in Retentions : PruneStore(r) \/ PruneCut(r) \/ PruneUnsaved(r)
    \/ Crash

StoreSpec == StoreInit /\ [][StoreNext]_vars

-----------------------------------------------------------------------------
(* Properties *)

DiskTip == CHOOSE b \in disk.tip : TRUE
DiskFloor == FloorHeight(RestoreBase(disk))

(* Killed at any moment, a store that never pruned and lost no write comes  *)
(* back with the tip, the work and the owners it had (store.rs:80-83).      *)
RestartIsInvisible ==
    status = "open" /\ disk.checkpoint = {} /\ chain.blocks \subseteq disk.bodies =>
        LET r == Restored(disk) IN
        /\ r.ok
        /\ r.chain.tip_hash = chain.tip_hash
        /\ TipWork(r.chain) = TipWork(chain)
        /\ r.chain.username_owner = chain.username_owner

(* The durable height index is the durable tip's ancestry: nothing stale    *)
(* above it after a reorg onto a shorter branch, no height of an abandoned  *)
(* branch below it, and every body a replay reads is there, wherever a      *)
(* prune was interrupted (store.rs:44-50, 274-279).                         *)
DiskHoldsItsTip ==
    disk.tip # {} =>
        /\ \A h \in DOMAIN disk.heights : h <= Len(DiskTip)
        /\ \A h \in DiskFloor..Len(DiskTip) :
              h \in DOMAIN disk.heights /\ disk.heights[h] = Prefix(DiskTip, h)
        /\ \A h \in (DiskFloor + 1)..Len(DiskTip) : Prefix(DiskTip, h) \in disk.bodies

(* Exactly when a restart succeeds: when the saved tip descends from the    *)
(* checkpoint and no block between them lost its body, or was validated     *)
(* against something below the checkpoint.  Then it lands on the saved tip, *)
(* or on the checkpoint when writes failed since, with the owners of that   *)
(* block's whole history (store.rs:127-153).                                *)
RestoresUnlessCut ==
    disk.tip # {} =>
        LET r == Restored(disk)
            base == RestoreBase(disk).tip_hash
            last == IF Len(DiskTip) > Len(base) THEN DiskTip ELSE base
        IN  /\ r.ok <=> /\ IsPrefixOf(base, last)
                        /\ \A h \in (Len(base) + 1)..Len(last) :
                              /\ Prefix(last, h) \in disk.bodies
                              /\ SelfContained(Prefix(last, h), Len(base))
            /\ r.ok => /\ r.chain.tip_hash = last
                       /\ r.chain.username_owner = Replay(NoOwners, 0, last)

(* c as a node would have it that never pruned and only knows the tip's branch. *)
NeverPruned(c) ==
    LET branch == {Prefix(c.tip_hash, h) : h \in 0..TipHeight(c)} IN
    [NewChain EXCEPT !.meta = [b \in branch |-> 0], !.blocks = branch,
                     !.tip_hash = c.tip_hash]

(* Pruning never changes the verdict on a block that extends the tip: a     *)
(* node that pruned and one that did not accept the same blocks, as long as *)
(* the retention covers the windows validation reads (store.rs:52-56).      *)
PruningKeepsVerdicts ==
    status = "open" =>
        \A now \in Clocks : \A x \in Offers(chain, chain.tip_hash) :
            LET b == Extend(chain.tip_hash, x) IN
            ValidBlock(chain, b, now) <=> ValidBlock(NeverPruned(chain), b, now)

(* What was durably registered survives every crash: the registry as the    *)
(* disk has it takes names back only for more work, and never a name the    *)
(* checkpoint recorded.                                                     *)
DurableRegistry == INSTANCE UsernameRegistry
    WITH owner <- IF disk.tip = {} THEN NoOwners ELSE Replay(NoOwners, 0, DiskTip),
         final <- RestoreBase(disk).username_owner,
         work  <- IF disk.tip = {} THEN 0 ELSE disk.headers[DiskTip]

DiskImplementsRegistry == DurableRegistry!Spec
===============================================================================
