------------------------------ MODULE NodeLedger ------------------------------
(***************************************************************************)
(* The ledger side of p2p-core's event loop (node.rs): every node keeps a  *)
(* chain and a mempool, mines on its tip, gossips blocks and claims and    *)
(* catches up by chain sync.  The links are gossipsub's: what a node       *)
(* publishes reaches every other node in the order published, unless the   *)
(* link loses it.  The disk below the chain is ChainStore's subject.       *)
(***************************************************************************)
EXTENDS ChainState

CONSTANTS
    Node,
    Clock,          \* node -> reading of its wall clock, which stands still
    TxId(_),        \* a claim's id; ids are hashes, they order claims arbitrarily
    MaxBatch,       \* MAX_SYNC_BATCH
    Claimants,      \* nodes whose app submits claims
    Miners,         \* nodes whose app starts mining
    Syncers,        \* nodes whose app requests chain syncs
    LinksLose,      \* whether gossip and sync messages may be lost
    MaxHeight,      \* bound: nobody finds a block above this height
    MaxClaims,      \* bound: claims submitted
    MaxStarts       \* bound: StartMining is given while fewer attempts were made

ASSUME NodeAssumption ==
    /\ Clock \in [Node -> Nat] /\ MaxBatch \in Nat \ {0}
    /\ Claimants \cup Miners \cup Syncers \subseteq Node
    /\ LinksLose \in BOOLEAN /\ MaxHeight \in Nat

VARIABLES
    node,       \* node -> its chain, mempool and mining loop
    link,       \* link[m][n]: gossip on its way from m to n
    sync,       \* node -> its chain sync: how far it got and what it was told
    submitted   \* the claims apps submitted so far

vars == <<node, link, sync, submitted>>

(* active is the current attempt's generation, 0 when not mining; attempts  *)
(* are the nonce searches in flight, superseded ones included.              *)
NewNode == [chain |-> NewChain, mempool |-> {}, active |-> 0, started |-> 0, attempts |-> {}]

Init ==
    /\ node = [n \in Node |-> NewNode]
    /\ link = [m \in Node |-> [n \in Node |-> << >>]]
    /\ sync = [n \in Node |-> [phase |-> "idle"]]
    /\ submitted = {}

-----------------------------------------------------------------------------
(* Mining: operators on one node's record s *)

(* In id order, the first claim of a name stands for that name, valid or not. *)
FirstOfEachName(pool) ==
    {tx \in pool : \A u \in pool : u.name = tx.name => TxId(tx) <= TxId(u)}

Includable(s) ==
    {tx \in s.mempool : ValidForMempool(s.chain, tx, TipHeight(s.chain) + 1)}

(* Mutant: claims are not checked against the tip again.                    *)
SelectedUnchecked(s) ==
    LET firsts == FirstOfEachName(s.mempool) IN
    {tx \in firsts : Cardinality({u \in firsts : TxId(u) < TxId(tx)}) < MaxTxs}

Selected(s) ==
    LET valid == FirstOfEachName(s.mempool) \cap Includable(s) IN
    {tx \in valid : Cardinality({u \in valid : TxId(u) < TxId(tx)}) < MaxTxs}

Candidate(n, s) ==
    LET tip == s.chain.tip_hash
        earliest == MedianTimePast(s.chain, tip) + 1
    IN  Extend(tip, [height |-> Len(tip) + 1,
                     timestamp |-> IF Clock[n] > earliest THEN Clock[n] ELSE earliest,
                     target |-> ExpectedDifficulty(tip),
                     txs |-> Selected(s), sealed |-> TRUE, miner |-> n])

NextGeneration(s) == s.started + 1

(* Mining::start: a new generation; no attempt when the difficulty or the   *)
(* median of the tip cannot be computed.                                    *)
Started(n, s) ==
    LET tip == s.chain.tip_hash
        attempt == [generation |-> NextGeneration(s), block |-> Candidate(n, s)]
    IN  [s EXCEPT !.started = NextGeneration(s), !.active = NextGeneration(s),
                  !.attempts = IF DifficultyKnown(s.chain, tip) /\ HasAncestry(s.chain, tip)
                               THEN @ \cup {attempt} ELSE @]

RestartIfActive(n, s) == IF s.active = 0 THEN s ELSE Started(n, s)

(* Mutant: a result counts whatever its generation.                         *)
AnyGeneration(s, a) == TRUE

IsCurrent(s, a) == s.active # 0 /\ a.generation = s.active

-----------------------------------------------------------------------------
(* Applying a block *)

Outcome(n, s, b) == ApplyOutcome(s.chain, b, Clock[n])

Accepts(n, s, b) == Outcome(n, s, b) \notin {"AlreadyKnown", "Rejected", "Failed"}

TipChanges(n, s, b) == Outcome(n, s, b) \in {"ExtendedTip", "ReorgedTo"}

(* apply_and_broadcast_block: an accepted block's claims leave the mempool, *)
(* whatever branch it is on, and mining restarts when the tip changed.      *)
Applied(n, s, b) ==
    LET t == [s EXCEPT !.chain = TryApply(@, b, Clock[n]), !.mempool = @ \ Header(b).txs] IN
    IF ~ Accepts(n, s, b) THEN s
    ELSE IF TipChanges(n, s, b) THEN RestartIfActive(n, t) ELSE t

(* and an accepted block is gossiped on.                                    *)
Gossip(n, s, b) == IF Accepts(n, s, b) THEN << [kind |-> "block", block |-> b] >> ELSE << >>

Published(links, n, msgs) ==
    [links EXCEPT ![n] = [m \in Node |-> IF m = n THEN @[m] ELSE @[m] \o msgs]]

Taken(m, n) == [link EXCEPT ![m][n] = Tail(@)]

-----------------------------------------------------------------------------
(* Commands *)

(* Command::SubmitUsernameClaim, anchored at the tip the app was told; the  *)
(* attempt in flight goes on.                                               *)
SubmitUsernameClaim(n, name) ==
    LET tx == [name |-> name, owner |-> n, anchor |-> node[n].chain.tip_hash] IN
    /\ Cardinality(submitted) < MaxClaims /\ tx \notin submitted
    /\ submitted' = submitted \cup {tx}
    /\ node' = [node EXCEPT ![n].mempool = @ \cup {tx}]
    /\ link' = Published(link, n, << [kind |-> "tx", tx |-> tx] >>)
    /\ UNCHANGED sync

StartMining(n) ==
    /\ node[n].started < MaxStarts
    /\ node' = [node EXCEPT ![n] = Started(n, @)]
    /\ UNCHANGED <<link, sync, submitted>>

StopMining(n) ==
    /\ node[n].active # 0
    /\ node' = [node EXCEPT ![n].active = 0]
    /\ UNCHANGED <<link, sync, submitted>>

-----------------------------------------------------------------------------
(* Mining results and gossip *)

(* mining_result_rx: a superseded attempt's result is dropped, the current  *)
(* one's block is applied and gossiped; a block that did not advance the    *)
(* tip is followed by another attempt.                                      *)
MiningResult(n, a) ==
    LET s == [node[n] EXCEPT !.attempts = @ \ {a}]
        t == Applied(n, s, a.block)
    IN  /\ Len(a.block) <= MaxHeight
        /\ node' = [node EXCEPT ![n] =
                       IF ~ IsCurrent(s, a) THEN s
                       ELSE IF TipChanges(n, s, a.block) THEN t ELSE RestartIfActive(n, t)]
        /\ link' = IF IsCurrent(s, a) THEN Published(link, n, Gossip(n, s, a.block)) ELSE link
        /\ UNCHANGED <<sync, submitted>>

(* Mutant: a claim heard of waits for the next attempt.                     *)
WithClaimNoRestart(n, s, tx) == [s EXCEPT !.mempool = @ \cup {tx}]

WithClaim(n, s, tx) == RestartIfActive(n, [s EXCEPT !.mempool = @ \cup {tx}])

(* handle_ledger_gossip_event *)
DeliverBlock(m, n) ==
    LET msg == Head(link[m][n]) IN
    /\ link[m][n] # << >> /\ msg.kind = "block"
    /\ node' = [node EXCEPT ![n] = Applied(n, @, msg.block)]
    /\ link' = Published(Taken(m, n), n, Gossip(n, node[n], msg.block))
    /\ UNCHANGED <<sync, submitted>>

DeliverClaim(m, n) ==
    LET msg == Head(link[m][n]) IN
    /\ link[m][n] # << >> /\ msg.kind = "tx"
    /\ node' = [node EXCEPT ![n] = WithClaim(n, @, msg.tx)]
    /\ link' = Taken(m, n)
    /\ UNCHANGED <<sync, submitted>>

(* n was not connected when m published.                                    *)
LoseGossip(m, n) ==
    /\ LinksLose
    /\ link[m][n] # << >>
    /\ link' = Taken(m, n)
    /\ UNCHANGED <<node, sync, submitted>>

-----------------------------------------------------------------------------
(* Chain sync: GetTip, then one GetBlocks for what is above the own tip *)

RequestChainSync(n, m) ==
    /\ sync[n].phase \in {"idle", "completed", "failed"}
    /\ sync' = [sync EXCEPT ![n] = [phase |-> "tip asked", peer |-> m]]
    /\ UNCHANGED <<node, link, submitted>>

(* build_chain_sync_response to GetTip *)
AnswerTip(n) ==
    LET c == node[sync[n].peer].chain IN
    /\ sync[n].phase = "tip asked"
    /\ sync' = [sync EXCEPT ![n] =
                   [phase |-> "tip told", peer |-> sync[n].peer,
                    height |-> TipHeight(c), work |-> TipWork(c)]]
    /\ UNCHANGED <<node, link, submitted>>

(* Mutant: from the own tip on.                                             *)
FromOwnTip(c) == TipHeight(c)

FromHeight(c) == TipHeight(c) + 1

(* height - tip_height on u64, then capped: below zero it wraps to far      *)
(* above the cap.                                                           *)
BatchSize(c, height) ==
    LET missing == height - TipHeight(c) IN
    IF missing < 0 \/ missing > MaxBatch THEN MaxBatch ELSE missing

HandleTip(n) ==
    LET c == node[n].chain IN
    /\ sync[n].phase = "tip told"
    /\ sync' = [sync EXCEPT ![n] =
                   IF @.work <= TipWork(c) THEN [phase |-> "completed"]
                   ELSE [phase |-> "blocks asked", peer |-> @.peer,
                         from |-> FromHeight(c), count |-> BatchSize(c, @.height)]]
    /\ UNCHANGED <<node, link, submitted>>

CanServe(c, h) == h \in DOMAIN c.canonical_index /\ c.canonical_index[h] \in c.blocks

(* build_chain_sync_response to GetBlocks: all of the batch or nothing.     *)
AnswerBlocks(n) ==
    LET c == node[sync[n].peer].chain
        from == sync[n].from
        heights == from..(from + sync[n].count - 1)
    IN  /\ sync[n].phase = "blocks asked"
        /\ sync' = [sync EXCEPT ![n] =
                       IF \A h \in heights : CanServe(c, h)
                       THEN [phase |-> "blocks told", peer |-> @.peer,
                             blocks |-> [i \in 1..@.count |-> c.canonical_index[from + i - 1]]]
                       ELSE [phase |-> "failed"]]
        /\ UNCHANGED <<node, link, submitted>>

(* s after the first i blocks of a batch: claims leave the mempool before   *)
(* their block is tried, the first error ends the batch.                    *)
BatchApplied(n, s, blocks) ==
    LET upto[i \in 0..Len(blocks)] ==
            IF i = 0 THEN [s |-> s, ok |-> TRUE]
            ELSE LET r == upto[i - 1]
                     b == blocks[i]
                 IN  IF ~ r.ok THEN r
                     ELSE [s |-> [r.s EXCEPT !.mempool = @ \ Header(b).txs,
                                             !.chain = TryApply(@, b, Clock[n])],
                           ok |-> Outcome(n, r.s, b) \notin {"Rejected", "Failed"}]
    IN  upto[Len(blocks)]

(* handle_chain_sync_response to Blocks: after an error nothing is said of  *)
(* the tip, and mining is not restarted.                                    *)
HandleBlocks(n) ==
    LET r == BatchApplied(n, node[n], sync[n].blocks)
        moved == r.s.chain.tip_hash # node[n].chain.tip_hash
    IN  /\ sync[n].phase = "blocks told"
        /\ node' = [node EXCEPT ![n] = IF r.ok /\ moved THEN RestartIfActive(n, r.s) ELSE r.s]
        /\ sync' = [sync EXCEPT ![n] =
                       IF r.ok THEN [phase |-> "completed"]
                       ELSE [phase |-> "failed"]]
        /\ UNCHANGED <<link, submitted>>

(* OutboundFailure: the peer went away.                                     *)
SyncLost(n) ==
    /\ LinksLose
    /\ sync[n].phase \in {"tip asked", "tip told", "blocks asked", "blocks told"}
    /\ sync' = [sync EXCEPT ![n] = [phase |-> "failed"]]
    /\ UNCHANGED <<node, link, submitted>>

-----------------------------------------------------------------------------
Sync(n) == AnswerTip(n) \/ HandleTip(n) \/ AnswerBlocks(n) \/ HandleBlocks(n)

Deliver(n) == \E m \in Node : DeliverBlock(m, n) \/ DeliverClaim(m, n)

FindBlock(n) == \E a \in node[n].attempts : MiningResult(n, a)

Next ==
    \/ \E n \in Claimants, name \in Name : SubmitUsernameClaim(n, name)
    \/ \E n \in Miners : StartMining(n) \/ StopMining(n)
    \/ \E n \in Node : FindBlock(n) \/ Deliver(n) \/ Sync(n) \/ SyncLost(n)
    \/ \E m, n \in Node : LoseGossip(m, n)
    \/ \E n \in Syncers : \E m \in Node \ {n} : RequestChainSync(n, m)

Spec == Init /\ [][Next]_vars

(* The network goes on delivering what it does not lose, to some node if    *)
(* not to every one, and the event loop takes what is delivered.            *)
FairSpec == Spec /\ WF_vars(\E n \in Node : Deliver(n))

(* Gossip may be lost for good, but every connection brings another sync    *)
(* request (_layout.tsx:133-135), and not every sync is lost.               *)
SyncingSpec ==
    /\ Spec
    /\ \A n \in Syncers : \A m \in Node \ {n} : SF_vars(RequestChainSync(n, m))
    /\ \A n \in Syncers : SF_vars(AnswerTip(n)) /\ SF_vars(HandleTip(n))
                       /\ SF_vars(AnswerBlocks(n)) /\ SF_vars(HandleBlocks(n))

-----------------------------------------------------------------------------
(* Properties *)

(* While mining is on, an attempt is under way, and what it grinds on would *)
(* be accepted and become the tip: no gossip, race or restart leaves it     *)
(* stalled or stale (node.rs:266-270, 528-535).                             *)
MinerAlwaysAtWork ==
    \A n \in Node : node[n].active # 0 =>
        \E a \in node[n].attempts :
            /\ IsCurrent(node[n], a)
            /\ Outcome(n, node[n], a.block) = "ExtendedTip"

(* The attempt under way includes every claim a fresh one would, but for    *)
(* claims of the node's own app, which wait for the next attempt            *)
(* (node.rs:266-270, 703-707, 1541-1543).  True of one miner: with a second *)
(* one, a side block removes claims from the mempool without a restart.     *)
CandidateIsFresh ==
    \A n \in Node : \A a \in node[n].attempts :
        IsCurrent(node[n], a) =>
            {tx \in Selected(node[n]) : tx.owner # n} \subseteq Header(a.block).txs

(* Only what a running miner finds becomes its own new block: once mining   *)
(* is stopped or restarted, no earlier attempt's result counts              *)
(* (node.rs:255-258, 541-544).                                              *)
StoppedMinerAddsNothing ==
    [][\A n \in Node : node[n].active = 0 =>
          \A b \in Known(node'[n].chain) \ Known(node[n].chain) : Header(b).miner # n]_vars

(* Gossip alone brings every node to the same amount of work, whatever      *)
(* forks mining in parallel made and however the clocks differ within the   *)
(* drift, as long as links do not lose.                                     *)
NodesConverge ==
    <>[](\A m, n \in Node : TipWork(node[m].chain) = TipWork(node[n].chain))

(* A node that missed blocks catches up, when it keeps asking and has mined *)
(* nothing of its own (tests/ledger_sync.rs:193).                           *)
SyncersCatchUp ==
    <>[](\A n \in Syncers, m \in Node : TipWork(node[n].chain) >= TipWork(node[m].chain))
===============================================================================
