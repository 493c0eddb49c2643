# SpiritChat: TLA+ models and proofs

SpiritChat is a messenger without servers. Phones form a libp2p network, keep a
small proof-of-work ledger of @usernames, exchange end-to-end encrypted
envelopes directly, and fall back on mailboxes that relays hold and that are
reached through a mix network. This directory models the parts whose
correctness depends on order, failure, concurrency or numeric edges: the ledger,
its difficulty and its disk, both sides of the network node, the mix network and
its mailboxes, the handshake, the Double Ratchet session, and the chat manager
that puts them together. Every definition is translated from the Rust source
under `src/packages` or, for the chat manager, from the Swift source under
`src/apps/mobile/ios`; `PROJECT.json` names, definition by definition, the lines.

Contents: 1 the system's parts, 2 the modules and how they follow the code,
3 what is checked, 4 what is proved, 5 where code and comments disagree,
6 what is left out, 7 the plan.

## 1. The parts of the system

| Part (source) | State it keeps | Operations | Talks to |
|---|---|---|---|
| **Ledger chain** (`ledger-core`: chain_state, validation, block, transaction) | accepted blocks with cumulative work, bodies, tip, canonical height index, username owners, pruning floor with its owner snapshot | `try_apply`, `prune_bodies_up_to`, `checkpoint_at`, `from_checkpoint` | owned by the store |
| **Difficulty** (`ledger-core`: difficulty) | none | `work_of`, `retarget`, compact targets | chain |
| **Ledger store** (`ledger-core`: store) | a chain in memory; four redb tables: bodies, headers, height index, and one for tip and checkpoint | `open`/`restore`, `try_apply` with `persist_after_apply`, `prune_with_retention` | owned by the node |
| **Node, ledger side** (`p2p-core`: node, ledger_sync, command, event) | chain store, mempool, mining generation, attempts on a blocking thread | username claims, start/stop mining, mining results, gossip, chain sync | other nodes (gossipsub, request-response), the app (commands and events) |
| **Node, dialling, DHT, envelopes, blobs** (`p2p-core`: node, behaviour, bootstrap) | tables of outstanding queries (`Pending`), deferred commands, local blobs | put/get contact card, dial, send envelope, blobs | DHT, peers, the app |
| **Mix network** (`p2p-core`: mix, node) | connected relays by address, their routing keys, delayed forwards, cover traffic switch | path choice, forward, reply, dummy traffic | peers, mailbox |
| **Mailbox** (`p2p-core`: mailbox; the deposit and query arms of node) | deposits by time and by tag, byte counter, budget | accept, evict, expire, remove, look up by tag | mix network |
| **Double Ratchet** (`crypto-core`: ratchet) | root key, two chains, counters, skipped message keys | init, encrypt, decrypt, to/from bytes | chat manager |
| **Prekeys and X3DH** (`crypto-core`: prekey, handshake) | identity, signed and one-time prekeys | bundle, initiate, respond | chat manager |
| **Chat manager** (iOS `ChatManager.swift`, `ChatStore.swift`) | per peer: session file, outbox, connection state | send message, attempt to send, react to node events, mailbox sweep | node, sessions, disk |
| **iOS controllers** (`MiningController`, `MixRelayController`, `UsernameClaim`, `IdentitySession`, `P2pSession`) | whether mining and relaying are on, the claim to resubmit, key material | start/stop on power and network changes, identity creation | node |
| **Identity and encodings** (`crypto-core`: identity, encoding) | none | key derivation, recovery phrase, fingerprint, base64url, varint | everything above |
| **FFI** (`crypto-core-ffi`) | a mutex around each object | one wrapper per call | apps |
| **Apps** (React Native screens, Android) | presentation state | | FFI |

How they interact. The app sends `Command`s into one event loop per node
(`run_event_loop`), which owns the chain store, the mempool, the mailbox and the
swarm and answers with `P2pEvent`s. The nonce search and the proof of work of
deposits run on blocking threads and report back through channels, so their
results arrive when the loop has moved on. Gossip, chain sync, envelopes, blobs
and mix packets are libp2p protocols: a message can be lost with a connection.
Blocks are accepted in memory first and written afterwards. The chat manager
keeps its sessions and outbox in files and runs on two threads: the pump that
takes the node's events and the user interface's calls.

What is hard, and what makes each part correct:

* *Chain.* Blocks arrive in any order on any branch and the node may prune at
  any height. The tip must stay the heaviest block, the index and the owner view
  must belong to the tip, a username must be claimed once per history, and what
  the floor recorded must survive every reorg.
* *Difficulty.* Integers of 256 bits go through a compact form and a double. The
  next target must follow the time the last interval took, at the edges too.
* *Store.* The process dies between transactions and a write may fail. A restart
  must come back at the saved tip with its owners, or fail, and never land on
  another state; pruning must not change a verdict.
* *Node, ledger side.* The tip and the mempool move while a miner grinds. A
  running miner must always hold a candidate worth finding; a stopped one must
  add nothing; nodes must converge, and one that missed blocks must catch up.
* *Node, requests.* Commands are queued, some held back until a first
  connection, and answered much later by whatever libp2p reports, several times
  for one query. No call may be lost on the way, none answered twice, each must
  end.
* *Mix network.* A hop looks up its successor when the packet arrives, and the
  directory changes with every connection. No hop may hand a packet to itself,
  the relay that sees a mailbox tag must not hear from its user, and depositor
  and asker must choose the same relay.
* *Mailbox.* A full cache, repeated and reordered deposits, a kill between
  transactions. The cache must stay within its budget and give up the oldest.
* *Ratchet.* Messages of two chains are lost, repeated, reordered and garbled.
  Nothing that can still be decrypted may become undecryptable, keys must be
  used once and then be gone.
* *Handshake and chat manager.* One prekey served to many peers, simultaneous
  handshakes, outbox items removed by the wrong delivery event, kills between
  saving a session and sending, two threads on one file. One step at a time must
  be under way for a peer, no saved message lost, no envelope shown twice, and
  none given up without a cause.

`PROJECT.json` lists these hazards one by one, at the line where each bites,
with the property that watches it or the reason none does.

## 2. The modules

    UsernameRegistry (abstract)            SecureChannel (abstract)
        ^           ^                           ^
        | refines   | refines                   | refines
      Chain --- ChainStore                 DoubleRatchet
        |                                       |
        +---------------- NodeLedger       RatchetBytes
        |                                       |
    ChainState                              Encoding --- Prekeys --- ChatDelivery
                         (MCChain adds Difficulty to Chain)

    Mailbox            MixNetwork            NodeRequests

    ChainFacts of ChainState,  ChainProofs of Chain and ChainStore,
    NodeLedgerProofs of NodeLedger,  NodeRequestsProofs of NodeRequests,
    RelayProofs of MixNetwork and Mailbox,
    DoubleRatchetProofs of DoubleRatchet and RatchetBytes,
    ChatDeliveryProofs of ChatDelivery;  DataFacts: what several proofs need of data

A line joins a module to the one above or beside it that extends it. The
modules `MCChain`, `MCChainStore`, `MCNodeLedger`, `MCMailbox`, `MCMixNetwork` and
`MCChatDelivery` give values to constants; `MCChain` also states what relates the
chain to the difficulty arithmetic. What crosses the boundary of two modules
that do not extend each other: a node's mailbox in `MixNetwork` keeps or refuses
a deposit by the rules of `Mailbox`; the envelopes of `ChatDelivery` open as
`DoubleRatchet` shows they do; its node reports what `NodeRequests` answers.

### ChainState, Chain, UsernameRegistry

`ChainState` holds the values a Rust `Chain` can take and each of its methods as
an operator on a record; `Chain`, `ChainStore` and `NodeLedger` share it, so
what is proved of `try_apply` is about the same definition the node runs.

*A block is its history.* A block hash commits to the whole header, `prev_hash`
included, so equal hashes mean equal ancestries. A block is therefore the
sequence of the headers from just above genesis up to itself; following
`prev_hash` is taking a prefix and two blocks conflict when neither is a prefix
of the other. Hash collisions do not exist in the model.

*What reads one block alone* - its size, its transaction commitment, its proof
of work, its transactions' signatures and name formats - is the flag `sealed` of
a candidate. What relates a block to others stays: height, parent, expected
difficulty, median time, clock drift, anchors and their age, duplicate names in
the block and in its history, the cap on transactions.

| Code | Model |
|---|---|
| `Chain` fields | fields of the record `chain`; `meta` keeps the cumulative work, the rest of `BlockMeta` is in the block |
| `try_apply` | `ApplyOutcome` (the enum, `"Rejected"` for any validation error, `"Failed"` for an error after the insertion) and `TryApply` (the value left behind, partial effects of a failure included) |
| `validate_block`, `validate_transaction` | `ValidBlock`, `ValidTransaction` and their named parts |
| `state_at`, `median_time_past`, `expected_difficulty` | `StateAt`/`HasState`, `MedianTimePast`, `ExpectedDifficulty`/`DifficultyKnown`; the second of a pair says when the code returns an error |
| `prune_bodies_up_to` | `Pruned` |

`Chain` makes a state machine of it: `Receive` offers any candidate on any known
or unknown parent under any clock reading, and `Prune` any height.
`UsernameRegistry` is the abstract specification: a map of owners that only
grows, unless more work is put into another history, and a final part that is
never taken back.

### Difficulty

`difficulty.rs` on a smaller number format. The code has targets of 32 bytes and
doubles of 53 significant bits; the module has `Digits` digits of `Base` values
and floats that are integers below `Significand` times powers of two, rounded to
nearest, ties to even. What is kept is the order of the widths: three
digits fit a float exactly, all digits do not. `ExpandTarget`,
`CompactFromTarget`, `TargetAsFloat`, `FloatAsTarget` and `RetargetBits` are the
functions of the same names; every truncation, dropped digit and clamp is
there. `ChainState` takes the work and the retarget as parameters, so the proofs
hold for any; `MCChain` gives it these.

### ChainStore

The chain in memory is `Chain`'s variable, and the store has the constants of
`Chain`. `disk` is what the four tables hold. `Apply` is `try_apply` with
`persist_after_apply`, one write transaction; `ApplyUnsaved` is the same when the
write returns an error, which leaves the block accepted in memory. `PruneStore`
is two transactions; `PruneCut` dies between them and `PruneUnsaved` fails in the
second. `Crash` closes or kills the process, `Open` is `open`: on an empty
disk it writes genesis, otherwise `Restored` replays the height index from the
checkpoint through the full `try_apply`, each block judged at its own timestamp.

### NodeLedger

Each node is a record: chain, mempool, the generation of the running attempt
(`active`, 0 when off), the generations started, and the attempts in flight,
superseded ones included, because a blocking thread may already have sent its
result. A `MiningResult` is applied only if its generation is current, as in
`run_event_loop`. `Applied` is `apply_and_broadcast_block`: it clears the block's
claims from the mempool whatever branch the block is on and restarts mining if
the tip changed. `link[m][n]` is what gossipsub has still to bring from m to n:
in the order of publication, lost when n was not connected; an accepted block
is published again by whoever accepted it. A chain sync is one outstanding
request per node with its four steps - `GetTip`, its answer, `GetBlocks`, its
answer - between which anything may happen on either side.
`SubmitMinedBlock` takes the path of a gossiped block and has no action of its
own. The subtraction `height - tip_height` is on `u64`: the model wraps, like a
release build. Disk failures under the chain are the subject of `ChainStore`.

### NodeRequests

The other half of the event loop. A call is the serial number of the app's
request; libp2p's own identifiers, unique per kind, are that number too.
`commands` is the command channel, `deferred` is `deferred_commands`, `pending`
the tables of `Pending`. `CommandBranch` and `SwarmBranch` are the two branches of
`select!` this part uses. `TakeCommand` handles one command; `Defer` holds a
command back as long as `dht_ready` is false; `FirstConnection` replays all of them
before the connection's own event is handled. `Answer` is what every
handler of a result does: the entry is removed and only the event that finds it
answers the app. `SwarmDials`, `PeerConnects`, `LearnAddress` are what libp2p does
by itself. `Shutdown` drops the loop with everything in it.

### Mailbox

One relay. A deposit is keyed by its time and a digest of all its fields, so the
`DEPOSITS` table is a set of deposits, and `BY_TAG`, written in the same
transactions, is the same set seen by tag. `Deposit` is `accept` with its
eviction loop, whose evictions and insertion are transactions of their own:
`DepositCut` is a kill between them. `total_bytes` is the stored counter, kept
exactly as the code keeps it (raised by the serialized size at every accept,
lowered by the envelope's length). `Remove` and `EvictExpired` are operations of
`MailboxStore` that nothing in `node.rs` calls; they are actions here, so the
store is right for a caller that comes. Queries change nothing and are in
`MixNetwork`.

### MixNetwork

`links` are the open connections of each pair, `relays` each node's
`known_mix_relays` and `keys` its `known_mix_routing_keys`. A packet is its path:
who sent it last, who has it next, what remains; the layers hide the rest, and
no action reads what its hop could not. `PathsToTag` is `build_mix_path_to_tag`:
the final hop is the usable relay closest to the tag, before it at most two
others. A query carries a reply block, `Surbs`, built without the responder.
`DepositToMailbox` fixes the tag when the proof of work starts and
`SendMailboxDeposit` chooses the path when it is done, after any number of
changes. `PeelForward` looks the next hop up among the relays known then and
holds the packet for its delay; `Forward` sends it whatever has happened since.
`PeelQuery` answers with the oldest deposit under the tag and records a miss as
history. `Restart` leaves only the mailbox on disk.

### Encoding, RatchetBytes, DoubleRatchet, SecureChannel

Cryptography is symbolic: a Diffie-Hellman output is the set of its two key
pairs, a root key the sequence of outputs mixed into it, a chain key a root
with a number of steps, and decryption succeeds with exactly the key and header
of the encryption. Everything a party ever sent stays on the network, so loss,
repetition and any order are all behaviours; `Garbled` headers arrive too.
`Decrypt` follows `decrypt`: stored key first, then skip, DH step and skip on a
working copy that replaces the session only if the tag verifies.

Between two operations a session is the bytes `to_bytes` writes, and each
operation starts from what `from_bytes` reads, as the app does with its session
file; an envelope is the bytes of its header and its ciphertext. `Encoding` is
the framing: varints with their continuation bit (`VarintBase` values a byte, so
that small numbers already need two bytes) and optional fields. A key or a
ciphertext is one element of a byte string.

`SecureChannel` is what it implements: each message accepted at most once, and
only if the peer sent it.

### Prekeys, ChatDelivery

`Prekeys` is `PrekeyStore` with its two pools, the bundle, and both sides of X3DH:
`AfterOffer` moves the last one-time key to the pending pool and hands it out,
`Exhausted` says when `respond` refuses, the two secrets agree exactly when both
sides used the same keys. Stores, bundles and initial messages are bytes, as in
`DoubleRatchet`.

`ChatDelivery` is `ChatManager` on both ends, the node reduced to the
events it reports. `app` and `pump` are the two threads. What only one thread
touches is one action; where the two can meet, a load of the outbox and its save
are separate: `SendLoad`, `SendSave`, `SendAttempt` on the app's thread,
`OnEnvelopeDelivered` and `RemoveAndContinue` on the pump's. An envelope that opens
is two steps as well: `OnHandshake` or `OnContinuing` saves the session and leaves the
envelope `Opened`, `ShowOpened` shows it, and a `Restart` between the two puts it
into `unshown`. `states` is
`peerStates`, and `Begins` is `beginState`, the only thing that keeps two steps
for one peer apart. `EnvelopeArrives` acknowledges as soon as the receiving node
has queued the envelope, before anybody decrypted it. `Restart` loses memory and
events; outbox and sessions stay, and the prekeys are again those of the account's
creation, because nothing saves them later. What is recorded as history (`faults`,
`unshown`) is what `DropsHaveACause` may blame. A save and what is sent after it stay
one step: a kill between them leaves the same state as an envelope lost on its way.
`Budgets` bounds the messages, the upsets and the answers of the mailbox.

## 3. What is checked

| Run | Question | Bounds and why they are enough |
|---|---|---|
| `chain_claims` | Do the owner view, uniqueness, anchoring and the finality of the floor hold, and does the chain implement the registry? | One name, two claimants, up to two claims per block, height 3, five blocks, prune at any height. Enough for two branches claiming the same name, a reorg between them, and a prune below or above the claim; a second name adds nothing the two claimants do not. |
| `chain_forks` | Fork choice, index, time rules and difficulty under malformed candidates, retargeting and a clock that is set back. | Height 5, seven blocks, retarget every two blocks with the arithmetic of `Difficulty` (base 4, 4 digits, 7 significant bits), five targets from easy to the largest, timestamps that make an interval up to eight times too long (41 against 5) or far too short. Enough for two retargets, both clamps, a heavier but shorter branch and a tie. |
| `store_prune` | Is what the disk holds always enough, across kills inside a prune, and does the disk implement the registry? | Height 4, six blocks, retention 1. Two prunes in a row fit, each with a fork at the floor. The difficulty is constant, the windows of median and anchor are 2. |
| `store_faults` | What does a restart find when writes may fail? | Height 3, six blocks with retargeting: two full branches of lengths 3 and 2 where the shorter is heavier, retentions 1 and 2. No claims; owners are in `store_prune`. |
| `node_gossip` | Does a miner always work on an acceptable candidate with every claim it heard of, and add nothing after it stops? | One submitter, one miner, height 3, two claims that expire after one block and compete for one name, up to four attempts. With one miner and no sync the tip moves by the miner's own blocks; blocks of others, forks and syncs are in theorem `MinersWork`, for a network of any size. |
| `node_converge` | Does loss-free gossip converge, over forks, reorgs and syncs? | Two miners up to height 2, clocks apart by less than the drift, one of them syncing. Forks of depth two and their reorgs fit. |
| `node_catchup` | Does a node that mines nothing catch up while gossip and syncs get lost? | Height 3 and batches of one block, so that a single sync never suffices. |
| `node_requests` | Does every call of the app meet one fate, do DHT calls wait in order, and does each call end? | Three calls of nine kinds, one peer with one connection at a time, which both sides may dial. Three calls suffice for one held back, one replayed after it and one that overtakes both; the proofs have no such bound. |
| `mix_mailbox` | Do paths, the relay directory and the choice of the tag's relay stay right while everything moves? | A depositor who also sends cover traffic, an asker, two relays, the users' connections to both and the relays' own; two packets, five connections opened, two per pair, and one upset (a closed connection, a restart, a turn of the epoch or of the cover traffic). Two packets are a deposit and its query, or one of them behind a dummy. |
| `mailbox_store` | Is the budget kept and the oldest given up first, drift of the counter included? | Four arrivals of sizes 0 to 5 (empty, ordinary, maximal, oversized) into a budget for one to three of them, clocks one second apart. |
| `ratchet` | No loss but by the cap, keys used once and destroyed, at-most-once channel. | Five messages each and at most three skipped keys: several DH steps each way, gaps across steps, and a full skipped-key store. Varints of one binary digit a byte, so that every counter above one takes several bytes. |
| `chat_delivery` | Is a message that was saved ever lost, shown twice, or given up without cause? | Two users who write to each other and a third who writes to one of them; one connection per pair, one one-time prekey per account. An upset is a dial that fails, an extra connection, a closed one, a kill, or two threads in one step. Three budgets: everyone writes, two messages, one upset and one answer of the mailbox, so that each pair of senders meets; one direction with two upsets and two answers, so that the failure that makes a deposit meets the kill of its receiver; one direction with three messages, one upset and two answers, so that the outbox holds several. Every cause that `DropsHaveACause` lists is reached. Two upsets in both directions at once are beyond five minutes. |

The deepest of the properties:

* `BodiesAvailable`: a block that is accepted can always be made canonical, so
  `try_apply`, which stores first and switches the tip after, never stops half way.
* `OwnersAreWholeHistory`: pruning is invisible in the answers.
* `FloorIsFinal`, `ImplementsRegistry`: no sequence of reorgs and prunes takes
  back a name the floor recorded.
* `RetargetFollowsTheSpan`: the next target against the time the interval took,
  through the compact form and the double, with the one exception there is.
* `RestoresUnlessCut`: the exact condition under which a restart succeeds, and
  where it lands, with any writes lost and any prune interrupted.
* `PruningKeepsVerdicts`: a pruned node and one that never pruned accept the
  same blocks on the tip.
* `MinerAlwaysAtWork`, `CandidateIsFresh`, `StoppedMinerAddsNothing`: the
  mining thread against the event loop.
* `EachCallHasOneFate`: every call is in exactly one of seven places.
* `SenderAndTagStayApart`, `MissesHaveDifferentViews`: what the mix network
  promises and what it does not. Two users meet at one relay when their
  directories agree; with different ones, or once the epoch has turned, they may
  miss each other.
* `NothingIsLost`: whatever was delivered, repeated or garbled, a pending
  message still decrypts, except when the cap is in the way. Keys of lost
  messages are never dropped, so the cap, once used up, blocks further gaps.
* `OneStepPerPeer`: delivery events carry no message number, and still end the
  step they belong to.
* `DropsHaveACause`: the reasons for which a receiver gives an envelope up. The
  causes it lists do happen, they are those of section 5; it says that there is
  no other, within the bounds of the run.

Wall clocks stand still in `NodeLedger` (each node has its own reading) and all
blocks weigh the same there; moving clocks and unequal work are in `Chain`.
`CHECK_DEADLOCK FALSE` is set where the bounds end the behaviour or a system
with nothing to do may rest: nobody mines or asks, no call, packet, message or
deposit is left to come.

Fairness. `FairSpec` (node_converge): the network goes on delivering what it
does not lose, to some node if not to every one. The event loop takes from its
swarm whatever is ready, and gossipsub resends nothing it delivered, so weak
fairness of delivery as a whole is all that is used. Mining is not fair: nobody
has to find a block. `SyncingSpec` (node_catchup): the app asks for a sync on
every new connection (`_layout.tsx` on `peerConnected`) and connections keep
coming back; any one sync may be lost with its connection, but not all of them:
strong fairness of the request and of each step. A node that never reconnects is
not covered. `FairSpec` of `NodeRequests`: `tokio::select!` polls its branches in
random order and takes a ready one, so a waiting command is taken in the end; and
each query, request, dial and reservation has a timeout in libp2p after which it
reports something, so its end is weakly fair, whatever the end is. Nothing makes
a peer connect: `EveryCallIsAnswered` speaks of a node that has met one.

Every property of a run has a mutant in `PROJECT.json`: a change to one
mapped definition, of the kind a slip in that code would be, under which TLC
finds the property violated. The mutant operators stand just above the
definition they replace and are marked `Mutant`; no specification uses them.
The assumptions on constants are evaluated by TLC in every run; one of
them, `CompactKeepsLeadingDigits`, checks the compact form of every target of
the small format.

## 4. What is proved

Eight modules hold proofs, checked by TLAPS: for every value of the constants
that the named assumptions allow, and without the bounds being small. One of them,
`DataFacts`, proves what the others need of finite data: least and greatest
elements, induction over naturals and over finite sets (with a set in the place of
the predicate), the existence of an iteration, and sequences by what they hold.

`ChainFacts` proves what holds of a chain value and of each operation on it,
whoever keeps the value: `Chain`, `ChainStore` and every node of `NodeLedger`. Its
centre is `Sound`, below, and that `try_apply` keeps it; the median of the latest
timestamps is there too, found by its rank in the window (`MedianHasRank`).

**`ChainProofs`** - every set of names, owners and difficulties, every retarget
function, every window, drift and age:

| Theorem | Statement |
|---|---|
| `Invariance` | `Spec => []IInv` |
| `TypeCorrect` | `Spec => []TypeOK` |
| `UsernameUniqueness` | `Spec => []FirstClaimWins` |
| `HeaviestTip` | `Spec => []TipIsHeaviest` |
| `CanonicalIndexCorrect` | `Spec => []CanonicalIndexIsTipAncestry` |
| `OwnersCorrect` | `Spec => []OwnersAreWholeHistory` |
| `AcceptanceIsAtomic` | `Spec => []BodiesAvailable` |
| `MoreWorkWins` | `Spec => TipMovesOnlyToMoreWork` |
| `OwnershipStable` | `Spec => OwnersStableWithoutReorg` |
| `FloorOwnersFinal` | `Spec => FloorIsFinal` |
| `ClaimsAnchored` | `Spec => []ClaimsAnchoredInOwnHistory` |
| `ChainImplementsRegistry` | `Spec => ImplementsRegistry` |
| `MedianMonotone` | `Spec => []MedianNeverGoesBack` |

and for the store, every set of retentions as well:

| Theorem | Statement |
|---|---|
| `RestoresExactly` | `StoreSpec => []RestoresUnlessCut` |
| `RestartInvisible` | `StoreSpec => []RestartIsInvisible` |
| `HeightIndexDurable` | `StoreSpec => []HeightsOK` |
| `DiskComplete` | if `~WritesMayFail`, `StoreSpec => []DiskHoldsItsTip` |
| `DiskRegistryCorrect` | if `~WritesMayFail`, `StoreSpec => DiskImplementsRegistry` |
| `VerdictsSurvivePruning` | `StoreSpec => [](WindowsKept => PruningKeepsVerdicts)` |
| `PruningInvisible` | if `EqualWork`, `RetentionCoversWindows` and `~WritesMayFail`, `StoreSpec => []PruningKeepsVerdicts` |

Apart from the hypotheses shown they assume only the named assumptions of
`ChainState`, `Chain` and `ChainStore`: a target's work is a positive natural, the
intervals and windows are positive, times and retentions are naturals.

*Why an inductive invariant is needed.* None of the properties is inductive by
itself. Uniqueness is judged against `state_at(parent)`, which replays bodies
over the floor's snapshot, so it rests on the snapshot being the replay of
everything below the floor and on every body above it being there.
The snapshot, in turn, is replaced on pruning by the owner view at the new floor,
which is right only if bodies are complete and the floor is on the tip's
ancestry. That the canonical index is the tip's ancestry after a reorg needs the
new tip to descend from the floor, which `try_apply` checks through
`state_at`. `IInv` is their conjunction with `KnownIsClosed` (every known block's
ancestors are known and, above the floor, have bodies).

It is proved from two stronger facts. `Sound` says what is true of every chain
value, restored ones included: each known block is `Legal`, lawful in its own
history whatever has been pruned since; its recorded work is its own (`Accounted`);
bodies above the floor are there (`Complete`); nothing is heavier than the tip
(`Heaviest`); the index is the tip's ancestry (`Indexed`); the owners are those of
the whole history (`Replayed`). `ChainInv` is `Sound(chain)` with
`KnownIsClosed`, which only a chain that began at genesis keeps.

*The argument.* `ApplyCases` splits `try_apply` into: nothing changes, the block
is stored beside the tip, the tip moves to it; the case of an error after the
insertion is impossible by `Complete` (`ExtensionHasState`), which is also
`AcceptanceIsAtomic`. `StateIsWholeHistory` says `state_at` is the replay of the
whole history, by `ReplayCompose` (replaying the upper part over a replay of the
lower part), so a block that validates is lawful (`Verdict`) and the chain that
takes it in stays sound (`Applied`). `PrunedIsSound` uses the same composition for
the new snapshot. These lemmas are about any sound chain value, and `ChainStore`
uses them as they are. `ReceiveStep` and `PruneStep` add `KnownIsClosed`;
`ChainInvariants` reads `IInv` and the rest off `ChainInv`. The action
properties follow from the invariant before and after a step: `ReplayExtends` for
ownership along one branch, `ChainStepFields` for the floor. `chain_claims` checks
`IInv` itself, on the instance where everything interacts.

`ChainImplementsRegistry` is the refinement: the registry's owners are the
replay of the tip's history and its final names the floor's, so by `ChainInv` a block
beside the tip is a stutter, one on it an extension, a reorg a replacement by more
work, and a prune the step that makes names final. `ClaimsAnchored` follows the
anchor a transaction was checked against into the block's own prefix.
`MedianMonotone` compares two windows of timestamps one block apart: the median is
the time of greatest rank that at most half of the window precede, an element
enters that exceeds it, so at every rank the later window is not below the
earlier one.

*The store.* `StoreInv` is inductive for every retention, with failing writes and
kills anywhere. Besides `Sound(chain)` it says: the saved blocks are legal, their
saved work is their own, and the checkpoint records the owners of its block's
history (`DiskOK`); the saved index is the saved tip's ancestry from the
checkpoint up and has nothing above it (`HeightsOK`, which is `HeightIndexDurable`);
memory and disk have one floor (`FloorsAgree`); while no write fails, the saved tip is
the tip in memory, descends from the checkpoint, and no body between them is
missing (`NothingLost`);
and before the first prune every saved block has a history that needs nothing
below genesis (`NeverPrunedOK`). The last is why a restart finds its old blocks
valid: they were judged once with everything visible.

`Replaying` is the heart of the restart. By induction on the height it says that
turn h of `restore` succeeds exactly when every block up to h descends from the
checkpoint, has its body and is valid without anything below it, and that the
chain so far is then sound with that block as its tip. `ReplayTurn` is one turn that
can succeed: a block on the tip of a sound chain is heavier than the tip, so it
becomes the tip. `ReplayStranded` is one that cannot, because the block is not on
the checkpoint's branch. `RestoresUnlessCut` is `Replaying` at the last height.

`HeightsWritten` proves the index after a reorg, onto a shorter branch too: the new
ancestry replaces every height from the floor up to the new tip, and the range
above it is deleted, because `max_height` never falls below a saved height.

*Why the hypotheses.* A failed write leaves a block in memory only; once a child of
it is saved the index names a body the disk does not have, so `DiskHoldsItsTip`
and the refinement speak of stores whose writes succeed (`store_faults` shows what
happens otherwise, and `RestoresExactly` covers it). Validation reads back over the
last retarget interval, median window and anchor age. `WindowsKept` says that these
lie above the floor, and then pruning changes no verdict, whatever happened before
(`SelfContainedAbove`). When they lie there is a question of the retention and of
reorgs: a heavier branch may be shorter, and moves the tip down towards the floor.
`PruningInvisible` shows that with blocks of equal work, hence reorgs onto longer
branches only, a retention that covers the windows keeps them above the floor for
good (`DiskTall`). The code's retention of 2016 blocks covers its windows of 288,
144 and 11; `store_prune` is an instance of all three hypotheses.

**`NodeLedgerProofs`** - any number of nodes, clocks and batches:

| Theorem | Statement |
|---|---|
| `IInvHolds` | `Spec => []IInv` |
| `StoppedMinerAddsNothingHolds` | `Spec => StoppedMinerAddsNothing` |
| `NodeChainsSound` | if `RetargetStays`, `Spec => [](IdsDiffer(submitted) => \A n \in Node : Sound(node[n].chain))` |
| `MinersWork` | if `RetargetStays` and `ClocksAgree`, `Spec => [](IdsDiffer(submitted) => MinerAlwaysAtWork)` |
| `OneMinerIsFresh` | if `RetargetStays` and `OneMiner`, `Spec => [](IdsDiffer(submitted) => CandidateIsFresh)` |

A stopped miner has attempts in flight, and others send it blocks. That none of
these is a new one of its own needs to be known of the whole network: `IInv` says
that wherever a block is - in a chain, on a link, in a sync answer - its miner,
if it is a node, has it already. A batch of a chain sync is a recursion over its
blocks (`BatchApplied`), taken by induction on their number.

*The hypotheses.* `RetargetStays`: a retarget of a compact target is one, which the
code has by type (`retarget` returns a `CompactTarget`, the 32 bits of a header). `IdsDiffer`: no two
submitted claims have one id, which is a hash in the code; the mempool is keyed by
it. `ClocksAgree`: some clock is after the genesis time, and none is so far ahead of
another that the blocks there are, each at least a second after the median below
it, would outrun the drift a node tolerates. Clocks stand still in the model, so
blocks found at one reading pile up their timestamps and the condition involves
`MaxHeight`; in the code the clocks go on, and two hours of drift are allowed.
`node_gossip` is an instance: clocks 2 and 3, three blocks, drift 4. Without it
`MinerAlwaysAtWork` is false (section 5).

*A miner at work.* `MinerAlwaysAtWork` says that what a node grinds on right now
would be accepted by `try_apply` and become the tip. `AtWork` says why: an attempt
of the current generation has the tip as its parent. Every handler that moves the
tip starts a new one, but for a batch that is refused half way, which leaves the old
one on an old tip. So it has to be known that in a batch from a peer only the
first block can be refused, when its parent is unknown. That is a statement about all
the network: `Told` says that a sync answer holds consecutive blocks that somebody
mined, `LinksMine` the same of each gossiped block, and `ChainMined` of all that a
node knows. A mined block is `Mineable`: lawful in its own history from genesis on
(`Legal`), valid when judged against it (`SelfContained`), and `Timely`, not later than
some node's clock plus its height. `TimelyIsInTime` turns the last into acceptance under
any other node's clock. Such a block is valid on any node that knows its parent
(`ValidOnParent`), so `BatchTurn` goes through a batch without a refusal after the first
block; `CandidateIsMineable` shows that a candidate is such a block: the
expected difficulty is known, its timestamp is above the median and timely, and
`Selected` chooses at most `MaxTxs` claims of different names that are valid on the tip
(`SelectedFits`). `MinerInv` adds these to `IInv`; `NodeChainsSound` is read off
it, so what `ChainProofs` shows of one chain holds of each node of a network.
*A fresh attempt.* `CandidateIsFresh` is false with a second miner (section 5), so
`OneMinerIsFresh` supposes one, among any number of nodes that submit, sync and pass
on. Then every block there is came from the miner (`FromMiner`) and is known to it
(`MinerKnows`, from `IInv`): gossip brings it nothing new, and since no chain has more
work than its own (`WorkOfTips`) a sync ends before it asks for blocks
(`SyncFresh`). What is left changes its tip or its mempool with a new attempt, but for a
claim of its own app. That one may displace another claim of its name, and no claim of
others enters the selection for it: it counts towards the cap in the place of the one
it displaces (`OwnClaimAddsNone`).

`MinerInv` was checked by TLC on the instance of `node_gossip`, and in simulation with two
miners, two claimants, syncs, losses and retargets; `FreshInv` in part of the states of
`node_gossip` with both nodes claiming and syncing and with losses.

**`NodeRequestsProofs`** - any number of calls, peers and connections, any kinds
of call:

| Theorem | Statement |
|---|---|
| `IInvHolds` | `Spec => []IInv` |
| `RequestsTypeOK` | `Spec => []TypeOK` |
| `EachCallHasOneFateHolds` | `Spec => []EachCallHasOneFate` |
| `DhtWaitsForAPeerInOrderHolds` | `Spec => []DhtWaitsForAPeerInOrder` |

That a call is in one place says nothing of why it cannot be put into a second
one. `IInv` adds where each place gets its members from. `Queues`: the command
channel holds exactly the newest calls, in order and without repetition; what is
held back are DHT calls, older than any in the channel, and only while no peer
was met. `Fates`: an entry of a `Pending` table belongs to a query or request in
progress, of the table's own kind; a serial that dials is a `Dial` call; only
what left the queues has a fate; what is still in a table, dialling or reserving
has no answer yet; and while the loop runs nothing is forgotten. Each action
moves one call from one place to the next, `FirstConnection` all the held-back
ones at once; the two properties are read off the invariant.

**`RelayProofs`**, the mix network - any finite set of nodes and any pairs that connect, any
distances that tell nodes apart, any path length a header can hold, any number of
packets, epochs and failures:

| Theorem | Statement |
|---|---|
| `MInvHolds` | `Spec => []MInv` |
| `RelaysAreConnectedHolds` | `Spec => []RelaysAreConnected` |
| `NoHopToItselfHolds` | `Spec => []NoHopToItself` |
| `SenderAndTagStayApartHolds` | `Spec => []SenderAndTagStayApart` |
| `MissesHaveDifferentViewsHolds` | `Spec => []MissesHaveDifferentViews` |

`MixAssumption` asks for at least two hops on a path; the code has three
(`MIX_PATH_HOPS`). The properties speak of the packet as it arrives; what
decides them is how the path was built, several hops and any changes of the
directory ago. So `Routed` says of every packet on its way what is still true of
its path: it has no two equal hops in a row (`Straight`), a deposit or query goes
to the relay of its origin's view closest to the tag (`GoesToRelay`), the reply
block starts away from that relay (`BlockAvoidsRelay`) and a reply left it
(`ReplyLeavesRelay`). `KeptAtRelay` carries the same into the stores: a deposit
lies at the relay its view chose. A miss and a deposit with the same view and
tag are then at the same relay. That a closest relay exists is a least element of
a set of naturals, from well-foundedness (`WFMin`); that it is unique is the
assumption that distances tell nodes apart.

**`RelayProofs`**, the mailbox - any envelopes with any sizes, any budget, drift, retention and
digest that tells deposits apart:

| Theorem | Statement |
|---|---|
| `MailboxInvHolds` | `MailboxSpec => []MailboxInv` |
| `BudgetKept` | `MailboxSpec => []WithinBudget` |
| `OldestFirst` | `MailboxSpec => OldestGivenUpFirst` |

The code compares a counter with the budget, not what is stored. `MailboxInv` says why
that is enough: the counter never falls below the stored bytes, because it is
raised by the whole serialized size, a second time for a deposit that is there
already, and lowered by less than that, or to zero when nothing can be left
(`RemovalCounted`). `EvictionInOrder` says of the first k evictions, by induction on
k, that they are the k oldest and leave the counter above the rest;
`EvictionsStop` that the loop ends with room or with an empty table. A kill
between the transactions leaves one of these states.

**`DoubleRatchetProofs`** - any number of messages, lost, repeated, reordered and
garbled, any cap on skipped keys, any counters, any base of a varint, any keys:

| Theorem | Statement |
|---|---|
| `SessionSurvives` | `IsSession(s)` implies `FromBytes(ToBytes(s)) = s` |
| `EnvelopeSurvives` | `IsHeader(h)` implies that `DecodeEnvelope(EncodeEnvelope(h, c))` gives `h` and `c` back |
| `RatchetInvariant` | `Spec => []IInv` |
| `RatchetKeysAreUsedOnce` | `Spec => []KeysAreUsedOnce` |
| `RatchetOldKeysAreGone` | `Spec => []OldKeysAreGone` |
| `RatchetImplementsChannel` | `Spec => ImplementsChannel` |
| `RatchetLinks` | `Spec => []DeliveryInv` |
| `RatchetLosesNothing` | `Spec => []NothingIsLost` |

*The bytes.* The format has no lengths of its fields: a reader knows where one
thing ends only from having read it. So the lemmas speak of what `Stands` at a
position of a longer input: a varint that stands there is read whole and leaves
the reader behind its last byte (`VarintRead`, by induction on the value, since
the division makes it smaller); likewise an optional field; and the skipped keys
come back as the set they were, in whatever order the map listed them
(`EntriesRead`). A concatenation stands where its parts do (`StandsConcat`), and
the two theorems follow by taking the bytes apart from the end. `SessionSurvives`
carries the invariants below from one operation to the next.

*A key never returns.* `Before` orders keys along a party's chains: by the
length of the root, then by the step. `Sound` says of a session that its skipped
keys lie before its receiving chain and that one key is kept under one header
only; `PartyInv` adds that what a party sent lies before its sending chain,
under roots whose length has the party's parity (each ratchet step mixes in two
outputs), and that what it received lies before its receiving chain and is not
among the skipped keys. An operation `Advances` a session: what lay behind it
still does, and no such key is kept that was not kept before. Skipping, a ratchet
step and the reading of a message each do (`SkipFacts`, `RatchetFacts`,
`WorkingFacts`), so a whole `decrypt` does, and the key it used is behind it
afterwards and was not behind it before, or was a skipped key that it removes.
That is also why a repeated message is no step of `SecureChannel`.

*Nothing is lost* is about the two sessions together: a message decrypts because
its receiver will compute the key its sender used. `Link` says how the two stand:
either the receiver has seen the sender's present key pair, its receiving chain is
the sender's sending chain, at most as far, and its root key is one `Derive` further
(`InStep`), or the sender is that one step further, and what it sent under the pair
before has numbers below the `previous` it announces (`OneAhead`). Neither can be two
steps ahead, since a party steps only on a key it had not seen. A message sent and not received is then ahead on the receiving chain, among
the skipped keys (`Keeps`), or on the chain not yet seen; a garbled header
changes nothing, since the copy it made is dropped. Skipping up to the message
is all that remains, and only the cap can refuse that.

**`ChatDeliveryProofs`** - any users who write to any others, any number of
messages, connections, mailbox answers, and of upsets (failed dials, lost
connections, restarts, two threads in one step) together:

| Theorem | Statement |
|---|---|
| `OneStepAtATime` | `Spec => []OneStepPerPeer` |
| `QueuedUntilItArrives` | `Spec => []QueuedUntilDelivered` |
| `ShownOnce` | `Spec => []EachEnvelopeShownOnce` |

*One step.* `StepInv` counts, for each user and peer, the envelopes on their way,
the acknowledgements coming back, the queued outcomes, the fetches, the dials and
their events. `Owed` says which numbers belong to which state of `peerStates`:
exactly one of the first three while an envelope is being sent and none
otherwise, and so on. Each action moves one from one count to the next, and what
an event leaves behind is a queue with one less of its kind (`CountAppend`,
`CountTail`). Here the two threads may overlap: `beginState` is under the lock.

*The outbox.* A delivery event names the peer and no message, so
`removeOutboxItem` takes whatever is first. `Queues` says that an envelope on its
way, an acknowledgement and a delivered event are of the item that is first in the
outbox for that peer, and that the pump's copy, while it saves, is the outbox.
It needs `StepInv`: with two envelopes under way the second delivery would remove an
item nobody sent. A new item is appended behind the first
(`FrontAppend`), and removing one peer's first item leaves the others' first
(`FrontWithout`). When app and pump have loaded the file at once, one save is lost;
`Queues` speaks of the users to whom that did not happen.

*Shown once.* The mailbox answers with one envelope again and again, and
the session that refused it may be replaced by a new handshake in between. `Secrets`
says that the secret of a session, of a handshake on its way and of what was seen
is one that a handshake of that pair made; by its ephemeral key it belongs to one
handshake only (`OneMaker`, `OneMore`). An envelope is *seen* (`Seen`) when it is
shown, or opened and about to be; `Single` says that it is seen once, so that saving
the session is the step to be careful about and `ShowOnce` adds nothing new.
`AllDiffer`: no two handshakes on their way to a user have one secret, since the
nodes never deliver an envelope twice and nothing deposits a handshake. `ShownInv`, of a user whose threads did not overlap:
a handshake on its way has a secret that none of its sessions has and under which
nothing was seen; and what was seen has its number in every session that has its
secret. So a continuing envelope that opens was not seen before, and after a
handshake nothing seen can open. Steps that open nothing (`OpensNothing`) and start
no handshake are `Tame` and go together; `OpensStays`, `ShowOnce` and
`BlobFetchedOnce` are the three that are not.

The conjuncts of these invariants were checked by TLC on the instance of
`chat_delivery` before they were proved; so were those of the ratchet, and
`Sound` and `StoreInv` on the instances of the chain's and the store's runs.

*Only model-checked:* `DropsHaveACause`, which needs the whole history of
both users' handshakes; `RetargetFollowsTheSpan` and the rest of `Difficulty`, which are
about one small number format. Out of the provers' reach and left to TLC for good:
liveness under fairness (`NodesConverge`, `SyncersCatchUp`, `EveryCallIsAnswered`).

## 5. Where code and comments disagree

Modelling showed these. They follow from the definitions named.

Ledger:

* A store pruned to a floor that is not a multiple of the retarget interval
  cannot be opened again (`store.rs:146` replays through `chain_state.rs:330`;
  `RestoresUnlessCut` says exactly when).
* A failed write leaves a block accepted in memory only; a redelivery is
  `AlreadyKnown` and writes nothing, and once a child of it is saved, reopening
  fails (`ApplyUnsaved`, `RestoresUnlessCut`).
* Side branches are on disk but unknown after a restart (`Restored`).
* A slow interval near the easiest target gives the target zero, which no block
  meets. `f64_as_target` clamps to a maximum that was itself rounded up past the
  last digit (`difficulty.rs:116-139`); the comment there says slower blocks raise
  the target. `RetargetFollowsTheSpan` states it as its exception.

Node, ledger side:

* `GetBlocks` starts above the own tip's height (`node.rs:1681`), so a node with a
  block of its own never gets the lower part of a heavier branch, however often
  it asks. `SyncersCatchUp` therefore speaks of nodes that mined nothing.
* The size of a batch is `height - tip_height` on unsigned numbers
  (`node.rs:1682`, `BatchSize`): with a heavier peer that is the lower one it panics
  in debug and wraps in release. It takes unequal work and a block of one's own;
  no run reaches it.
* One sync fetches one batch and reports completion (`HandleBlocks`). When a
  later block of a batch is refused, the earlier ones have moved the tip and
  mining keeps the old candidate. It takes clocks further apart than the
  drift (`MinersWork`), so `MinerAlwaysAtWork` holds in the runs.
* A claim submitted on a mining node waits for the next attempt
  (`SubmitUsernameClaim`; `CandidateIsFresh` exempts it).
* An expired claim stays in the mempool and, when its id is the smaller, shadows
  a valid claim for its name (`FirstOfEachName`).
* A claim mined into a side block leaves the mempools though no canonical block
  holds it (`node.rs:777`, `Applied`). Mining is restarted only when the tip moves,
  so the attempt under way may then leave out a claim that was shadowed by the
  removed one, or was over the cap because of it; the comment at `node.rs:266-270`
  speaks of every place that changes the tip or the mempool. It takes two miners.

Node, requests:

* A `put_record` that the local store refuses, and a relay listener that closes,
  are reported to nobody (`node.rs:617-645`; the set `silent`).
* `dht_ready` never becomes false again, so commands after the last peer left go
  to an empty DHT.
* A dial of a peer that is already connected is a `DialFailed`.

Mix network and mailbox:

* A query always returns the same, oldest envelope (`node.rs:1139`): nothing
  removes it, and a queue under one tag does not drain.
* A relay is forgotten when any connection to it closes, though another stays
  (`Forgets`). `RelaysAreConnected` is the converse, which holds.
* The two users of a pair share one tag, so a user's own deposits come back to
  it; and a user may itself be the relay closest to the tag for the other.
* Only the current epoch's tag is ever queried, so mail deposited before the turn
  of an epoch is out of reach, and nothing evicts what expired.
* The mailbox counter drifts upwards, so deposits that fit evict others
  (`Reduced`, `Deposit`).

Handshake and chat:

* Every run registers one card with one one-time prekey for everyone
  (`ChatManager.swift:75`). The second peer's handshake ends in `PrekeyExhausted`
  (`x3dh.rs:151`) after its envelope was reported delivered; the comments in
  `store.rs:93-98` and `prekeys.rs:44-45` speak of a key per peer.
* Two users who start at the same time overwrite each other's session and each
  drops the other's messages.
* A handshake that is lost leaves its sender with a session; later messages
  go out as continuing ones and cannot be opened.
* A closed connection marks a peer as away although another to it is open.
* When the acknowledgement is lost the message is encrypted again and shown
  twice, as two envelopes; `EachEnvelopeShownOnce` is about one envelope.
* The two threads load and save one outbox and one session file without a lock
  (`ChatManager.swift:100`; `SpiritchatCryptoCoreModule.swift:156-170` for who calls):
  one of two saves is lost. `QueuedUntilDelivered` and `EachEnvelopeShownOnce` leave
  out a user to whom it happened, and `DropsHaveACause` counts it as a cause when
  it happened to the sender.
* A kill between saving a session and showing its message loses the message to
  the screen: the envelope that the mailbox brings back is refused as used
  (`unshown`, a cause of `DropsHaveACause`).

## 6. What is left out

* *Difficulty's real widths.* 256-bit integers and doubles are out of TLC's
  reach; the small format keeps the order of the widths and every rounding.
* *A handshake brought by the mailbox* (`handleRetrievedHandshake`): nothing
  deposits one. File operations of the chat manager that throw.
* *Bundle signatures, Sphinx packet cryptography, identity, recovery phrase,
  fingerprint, base64url, record keys, message formats*: pure functions; keys are
  symbolic and signatures are taken to verify.
* *Swarm configuration* and bootstrap: set-up of libp2p.
* *The iOS controllers*: mining, relaying and cover traffic are switched on and
  off at any moment in the node's models; the rules by which power, Wi-Fi and
  screen do so, the keychain and blob files are not there.
* *FFI*: wrappers with one mutex per object; their calls are the calls of the
  actions that use them.
* *User interfaces, updater, build scripts*: no protocol of their own.
* `set_limit_bytes` and `distinct_tags` of the mailbox: nothing calls them.
* `GetHeaders` and the owner snapshot request of chain sync: they change no
  state and nothing sends them.
* In `NodeLedger`: restarts of a node, pruning (nothing in `p2p-core` calls it).

## 7. Plan

Done, in the order of importance: ledger chain, store, node ledger,
mailbox and ratchet (all with proofs); then node requests with proofs, mix network
with proofs, prekeys, chat delivery with proofs, difficulty. What would come next:

1. Proofs: for `ChatDelivery`, `DropsHaveACause`.
2. A larger `chat_delivery`: two upsets while both users of a pair write.
3. The iOS controllers: which sequence of power, network and screen changes
   leaves mining on.
4. Restarts in `NodeLedger`, with the disk of `ChainStore` under each node.

## Running

    tlc -workers 2 -config MCChainClaims.cfg MCChain
    tlapm ChainFacts.tla
    tlapm ChainProofs.tla
    tlapm NodeRequestsProofs.tla
    tlapm NodeLedgerProofs.tla
    tlapm RelayProofs.tla
    tlapm DoubleRatchetProofs.tla
    tlapm ChatDeliveryProofs.tla
    tlapm DataFacts.tla
