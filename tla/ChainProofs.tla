----------------------------- MODULE ChainProofs -----------------------------
(* Proofs about the ledger: the theorems of Chain, the chain alone, and of  *)
(* ChainStore, the chain beside its database.                               *)
EXTENDS ChainStore, ChainFacts

-----------------------------------------------------------------------------
(* Chain: the inductive invariant *)

(* A chain that is sound and never dropped a block on the way to a known    *)
(* one, nor a body above its floor: true of those that began at genesis.    *)
ChainInv == Sound(chain) /\ KnownIsClosed

(* From c to e a valid block on a known parent was added.                   *)
Gained(c, e) ==
    \E p \in Known(c) : \E x, now, b :
        /\ b = Extend(p, x) /\ b \notin Known(c)
        /\ ValidBlock(c, b, now) /\ Legal(b)
        /\ Accepted(c, e, b)

(* From c to e the floor went up the tip's branch.                          *)
Raised(c, e) ==
    /\ e.tip_hash = c.tip_hash /\ e.meta = c.meta
    /\ e.username_owner = c.username_owner
    /\ IsPrefixOf(c.floor_hash, e.floor_hash)

(* A known block's header says its height.                                  *)
LEMMA HeaderHeight ==
    ASSUME ChainInv, NEW b \in Known(chain)
    PROVE  /\ IsBlock(b) /\ Len(b) \in Nat /\ Header(b).height = Len(b)
           /\ Header(b).timestamp \in Nat
  BY LegalHeader DEF ChainInv, Sound, Accounted

(* The invariant says all that IInv does, and that claims are anchored in   *)
(* their block's own past.                                                  *)
LEMMA ChainInvariants ==
    ASSUME ChainInv
    PROVE  IInv /\ BodiesAvailable /\ ClaimsAnchoredInOwnHistory
<1>1. Sound(chain) /\ KnownIsClosed
  BY DEF ChainInv
<1>2. ASSUME NEW b \in Known(chain)
      PROVE  /\ Legal(b) /\ chain.meta[b] = Work(b)
             /\ IsBlock(b) /\ Len(b) \in Nat /\ Work(b) \in Nat
  BY <1>1, LegalHeader DEF Sound, Accounted
<1>3. TypeOK
  BY <1>1, <1>2 DEF Sound, Accounted, TypeOK, Fields, Legal, Typed
<1>4. TipIsHeaviest
  BY <1>1, <1>2 DEF Sound, Accounted, Heaviest, TipIsHeaviest, TipWork
<1>5. CanonicalIndexIsTipAncestry /\ OwnersAreWholeHistory
  BY <1>1 DEF Sound, Indexed, Replayed, CanonicalIndexIsTipAncestry, OwnersAreWholeHistory
<1>6. FirstClaimWins
  BY <1>2, LegalClaims DEF FirstClaimWins
<1>7. BodiesAvailable
  BY <1>1 DEF Sound, Complete, BodiesAvailable, HasAncestry
<1>8. ClaimsAnchoredInOwnHistory
  <2> SUFFICES ASSUME NEW b \in Known(chain), NEW h \in 1..Len(b), NEW tx \in b[h].txs
               PROVE  /\ tx.anchor # b
                      /\ IsPrefixOf(tx.anchor, Prefix(b, h - 1))
                      /\ h - Len(tx.anchor) <= AnchorMaxAge
    BY DEF ClaimsAnchoredInOwnHistory
  <2>1. /\ Parent(Prefix(b, h)) = Prefix(b, h - 1) /\ Header(Prefix(b, h)) = b[h]
        /\ h \in Nat /\ b[h].height = h /\ Lawful(Prefix(b, h))
        /\ h - 1 \in 0..Len(b) /\ h <= Len(b) /\ h >= 1
    BY <1>2, PrefixParts DEF Legal
  <2>2. IsBlock(Prefix(b, h - 1)) /\ Len(Prefix(b, h - 1)) = h - 1
    BY <1>2, <2>1, PrefixBlock
  <2>3. InItsPast(tx.anchor, Prefix(b, h - 1), h)
    BY <2>1 DEF Lawful
  <2>4. PICK g \in 0..(h - 1) : /\ tx.anchor = Prefix(Prefix(b, h - 1), g)
                                /\ h - Len(tx.anchor) <= AnchorMaxAge
    BY <2>2, <2>3 DEF InItsPast
  <2>5. Len(tx.anchor) = g
    BY <2>2, <2>4, PrefixBlock
  <2>. QED  BY <1>2, <2>1, <2>2, <2>4, <2>5 DEF IsPrefixOf
<1>. QED  BY <1>1, <1>3, <1>4, <1>5, <1>6, <1>7, <1>8 DEF IInv

(* Candidates arrive on blocks, known or not, and carry well-typed fields.  *)
LEMMA CandidatesAreBlocks ==
    ASSUME ChainInv, NEW p \in Parents(chain), NEW x \in Candidates(chain, p)
    PROVE  IsBlock(p) /\ Typed(x)
<1>1. IsBlock(p)
  BY HeaderHeight, ExtendBlock DEF Parents
<1>2. x.timestamp \in Times /\ x.target \in Target /\ x.txs \in ClaimSets(chain)
  BY DEF Candidates
<1>3. ASSUME NEW tx \in x.txs
      PROVE  tx.name \in Name
  <2>1. tx \in Claim(Known(chain))
    BY <1>2 DEF ClaimSets
  <2>. QED  BY <2>1 DEF Claim
<1>4. Typed(x)
  BY <1>2, <1>3, TimesAssumption DEF Typed
<1>. QED  BY <1>1, <1>4

(* Receiving a block, valid or not.                                         *)
LEMMA ReceiveStep ==
    ASSUME ChainInv, NEW p \in Parents(chain), NEW now \in Clocks,
           NEW x \in Candidates(chain, p), Receive(p, x, now)
    PROVE  ChainInv' /\ (chain' = chain \/ Gained(chain, chain'))
<1> DEFINE b == Extend(p, x)
<1>1. IsBlock(p) /\ Typed(x) /\ Sound(chain)
  BY CandidatesAreBlocks DEF ChainInv
<1>2. chain' = TryApply(chain, b, now)
  BY DEF Receive
<1>3. /\ Sound(chain')
      /\ \/ chain' = chain
         \/ /\ ValidBlock(chain, b, now) /\ b \notin Known(chain)
            /\ p \in Known(chain) /\ Legal(b)
            /\ Accepted(chain, chain', b)
  <2> HIDE DEF b
  <2>. QED  BY <1>1, <1>2, AppliedIsSound DEF b
<1>4. CASE chain' = chain
  BY <1>3, <1>4 DEF ChainInv, KnownIsClosed
<1>5. CASE /\ ValidBlock(chain, b, now) /\ b \notin Known(chain)
           /\ p \in Known(chain) /\ Legal(b)
           /\ Accepted(chain, chain', b)
  <2>1. Gained(chain, chain')
    BY <1>5 DEF Gained
  <2>2. /\ Len(p) \in Nat /\ Len(b) = Len(p) + 1
        /\ \A h \in 0..Len(p) : Prefix(b, h) = Prefix(p, h)
        /\ Prefix(b, Len(b)) = b
    <3>1. IsBlock(b) /\ Len(p) \in Nat
      BY <1>1, ExtendBlock DEF IsBlock
    <3>. QED  BY <1>1, <3>1, ExtendBlock, PrefixWhole
  <2> HIDE DEF b
  <2>3. \A h \in 0..Len(b) : Prefix(b, h) \in Known(chain)'
    <3> SUFFICES ASSUME NEW h \in 0..Len(b)
                 PROVE  Prefix(b, h) \in Known(chain) \cup {b}
      BY <1>5 DEF Accepted
    <3>1. CASE h = Len(b)
      BY <2>2, <3>1
    <3>2. CASE h # Len(b)
      <4>1. h \in 0..Len(p)
        BY <2>2, <3>2
      <4>. QED  BY <1>5, <2>2, <4>1 DEF ChainInv, KnownIsClosed
    <3>. QED  BY <3>1, <3>2
  <2>4. KnownIsClosed'
    BY <1>5, <2>3 DEF ChainInv, KnownIsClosed, Accepted, FloorHeight
  <2>. QED  BY <1>3, <2>1, <2>4 DEF ChainInv
<1>. QED
  BY <1>3, <1>4, <1>5

(* Pruning drops bodies, never anything still needed, and folds what they   *)
(* said into the floor snapshot.                                            *)
LEMMA PruneStep ==
    ASSUME ChainInv, NEW h, Prune(h)
    PROVE  ChainInv' /\ Raised(chain, chain')
<1>1. Sound(chain) /\ chain' = Pruned(chain, h)
  BY DEF ChainInv, Prune
<1>2. /\ Sound(chain')
      /\ chain'.tip_hash = chain.tip_hash /\ chain'.meta = chain.meta
      /\ chain'.username_owner = chain.username_owner
      /\ \/ chain' = chain
         \/ /\ h \in DOMAIN chain.canonical_index /\ h > FloorHeight(chain)
            /\ chain'.floor_hash = chain.canonical_index[h]
            /\ chain'.blocks = {k \in chain.blocks : Header(k).height > h}
  BY <1>1, PrunedIsSound
<1>3. CASE chain' = chain
  <2>1. IsPrefixOf(chain.floor_hash, chain.floor_hash)
    BY HeaderHeight, IsPrefixOfItself DEF ChainInv, Sound, Accounted
  <2>. QED  BY <1>2, <1>3, <2>1 DEF ChainInv, KnownIsClosed, Raised
<1>4. CASE /\ h \in DOMAIN chain.canonical_index /\ h > FloorHeight(chain)
           /\ chain'.floor_hash = chain.canonical_index[h]
           /\ chain'.blocks = {k \in chain.blocks : Header(k).height > h}
  <2>1. /\ h \in Nat /\ Len(chain'.floor_hash) = h
        /\ IsPrefixOf(chain.floor_hash, chain'.floor_hash)
    BY <1>1, <1>4, CanonicalBlock
  <2>2. ASSUME NEW k \in Known(chain), Len(k) > h
        PROVE  k \in chain'.blocks
    <3>1. Len(k) \in Nat /\ Header(k).height = Len(k)
      BY HeaderHeight
    <3>2. FloorHeight(chain) \in Nat
      BY HeaderHeight DEF ChainInv, Sound, Accounted, FloorHeight
    <3>3. k \in chain.blocks
      BY <1>4, <2>1, <2>2, <3>1, <3>2 DEF ChainInv, KnownIsClosed
    <3>. QED  BY <1>4, <2>2, <3>1, <3>3
  <2>3. KnownIsClosed'
    BY <1>2, <2>1, <2>2 DEF ChainInv, KnownIsClosed, Known, FloorHeight
  <2>. QED  BY <1>2, <2>1, <2>3 DEF ChainInv, Raised
<1>. QED
  BY <1>2, <1>3, <1>4

(* Every step of a chain keeps the invariant, and adds a block or raises    *)
(* the floor, or changes nothing.                                           *)
LEMMA ChainStep ==
    ASSUME ChainInv, [Next]_chain
    PROVE  ChainInv' /\ (chain' = chain \/ Gained(chain, chain') \/ Raised(chain, chain'))
<1>1. CASE UNCHANGED chain
  BY <1>1 DEF ChainInv, KnownIsClosed
<1>. QED
  BY <1>1, ReceiveStep, PruneStep DEF Next

(* What a step does, in terms of the fields.                                *)
LEMMA ChainStepFields ==
    ASSUME ChainInv, ChainInv', [Next]_chain
    PROVE  /\ IsPrefixOf(chain.floor_hash, chain'.floor_hash)
           /\ IsPrefixOf(chain.floor_hash, chain'.tip_hash)
           /\ IsPrefixOf(chain'.floor_hash, chain'.tip_hash)
           /\ \/ chain'.tip_hash = chain.tip_hash /\ TipWork(chain') = TipWork(chain)
                 /\ chain'.username_owner = chain.username_owner
              \/ /\ TipWork(chain') > TipWork(chain)
                 /\ chain'.floor_username_owner = chain.floor_username_owner
<1>1. /\ Sound(chain) /\ Sound(chain')
      /\ IsBlock(chain.floor_hash) /\ IsBlock(chain'.floor_hash) /\ IsBlock(chain'.tip_hash)
      /\ TipWork(chain) = Work(chain.tip_hash) /\ TipWork(chain') = Work(chain'.tip_hash)
  BY LegalHeader DEF ChainInv, Sound, Accounted, TipWork
<1>2. IsPrefixOf(chain'.floor_hash, chain'.tip_hash)
  BY <1>1 DEF Sound, Indexed
<1>3. CASE chain' = chain
  BY <1>1, <1>2, <1>3, IsPrefixOfItself
<1>4. CASE Gained(chain, chain')
  <2>1. PICK b : Accepted(chain, chain', b)
    BY <1>4 DEF Gained
  <2>. QED  BY <1>1, <1>2, <2>1, IsPrefixOfItself DEF Accepted
<1>5. CASE Raised(chain, chain')
  <2>1. IsPrefixOf(chain.floor_hash, chain'.tip_hash)
    BY <1>1, <1>2, <1>5, PrefixesNest DEF Raised
  <2>. QED  BY <1>2, <1>5, <2>1 DEF Raised, TipWork
<1>. QED
  BY <1>3, <1>4, <1>5, ChainStep

(* In every behaviour of a chain - any blocks, in any order, any forks and  *)
(* reorgs, any pruning - it is sound.                                       *)
LEMMA ChainInvariant == Spec => []ChainInv
<1>1. Init => ChainInv
  <2>1. ASSUME NEW h \in 0..Len(Genesis)
        PROVE  Prefix(Genesis, h) = Genesis
    BY GenesisIsLegal, PrefixWhole DEF Legal
  <2>2. Sound(NewChain) /\ Known(NewChain) = {Genesis}
    BY NewChainIsSound
  <2>3. NewChain.blocks = {Genesis}
    BY DEF NewChain
  <2>. QED  BY <2>1, <2>2, <2>3 DEF Init, ChainInv, KnownIsClosed
<1>2. ChainInv /\ [Next]_chain => ChainInv'
  BY ChainStep
<1>. QED
  BY <1>1, <1>2, PTL DEF Spec

(* The invariant a run checks holds in every behaviour.                     *)
THEOREM Invariance == Spec => []IInv
  BY ChainInvariants, ChainInvariant, PTL

-----------------------------------------------------------------------------
(* Chain: what follows *)

(* A known block is a sequence of well-typed headers at its own height.     *)
THEOREM TypeCorrect == Spec => []TypeOK
<1>1. IInv => TypeOK
  BY DEF IInv
<1>. QED
  BY <1>1, Invariance, PTL

(* Along the history of every accepted block, on whatever branch, a name is *)
(* claimed at most once, pruning included.                                  *)
THEOREM UsernameUniqueness == Spec => []FirstClaimWins
<1>1. IInv => FirstClaimWins
  BY DEF IInv
<1>. QED
  BY <1>1, Invariance, PTL

(* Fork choice: nothing accepted outweighs the tip.                         *)
THEOREM HeaviestTip == Spec => []TipIsHeaviest
<1>1. IInv => TipIsHeaviest
  BY DEF IInv
<1>. QED
  BY <1>1, Invariance, PTL

(* The canonical index is the tip's ancestry.                               *)
THEOREM CanonicalIndexCorrect == Spec => []CanonicalIndexIsTipAncestry
<1>1. IInv => CanonicalIndexIsTipAncestry
  BY DEF IInv
<1>. QED
  BY <1>1, Invariance, PTL

(* The owner view and the floor snapshot are those of the whole history.    *)
THEOREM OwnersCorrect == Spec => []OwnersAreWholeHistory
<1>1. IInv => OwnersAreWholeHistory
  BY DEF IInv
<1>. QED
  BY <1>1, Invariance, PTL

(* No acceptance can fail after it started changing the chain.              *)
THEOREM AcceptanceIsAtomic == Spec => []BodiesAvailable
  BY ChainInvariants, ChainInvariant, PTL

(* Every claim of every accepted block is anchored in that block's own past,*)
(* within the age allowed, whatever branches and floors came between.       *)
THEOREM ClaimsAnchored == Spec => []ClaimsAnchoredInOwnHistory
  BY ChainInvariants, ChainInvariant, PTL

(* What a history says of a name, every longer history says too.            *)
LEMMA ReplayExtends ==
    ASSUME NEW a, NEW b, IsBlock(a), IsBlock(b), IsPrefixOf(a, b),
           \A n \in Name : \A g, h \in ClaimHeights(b, 0, n) : g = h,
           NEW n \in DOMAIN Replay(NoOwners, 0, a)
    PROVE  /\ n \in DOMAIN Replay(NoOwners, 0, b)
           /\ Replay(NoOwners, 0, b)[n] = Replay(NoOwners, 0, a)[n]
<1> DEFINE Top(hs) == CHOOSE h \in hs : \A g \in hs : g <= h
<1>1. /\ Len(a) \in 0..Len(b) /\ Len(a) \in Nat /\ Len(b) \in Nat
      /\ Prefix(b, Len(a)) = a
  BY DEF IsBlock, IsPrefixOf
<1>2. n \in Name /\ ClaimHeights(a, 0, n) # {}
  BY DEF Replay, NoOwners, ClaimedNames
<1>3. ClaimHeights(a, 0, n) = {h \in ClaimHeights(b, 0, n) : h <= Len(a)}
  BY <1>1, ClaimHeightsSplit
<1>4. PICK k : k \in ClaimHeights(a, 0, n)
  BY <1>2
<1>5. k \in 1..Len(a)
  BY <1>1, <1>4 DEF ClaimHeights
<1>6. ClaimHeights(a, 0, n) = {k} /\ ClaimHeights(b, 0, n) = {k}
  BY <1>2, <1>3, <1>4
<1>7. n \in ClaimedNames(b, 0) /\ n \in ClaimedNames(a, 0)
  BY <1>2, <1>6 DEF ClaimedNames
<1>8. /\ Replay(NoOwners, 0, a)[n] = UsernameOwner(a, Top(ClaimHeights(a, 0, n)), n)
      /\ Replay(NoOwners, 0, b)[n] = UsernameOwner(b, Top(ClaimHeights(b, 0, n)), n)
  BY <1>6, <1>7 DEF Replay, NoOwners
<1>9. UsernameOwner(a, k, n) = UsernameOwner(b, k, n)
  <2>1. a[k] = b[k]
    BY <1>1, <1>5, PrefixBlock
  <2>2. Prefix(a, k) = Prefix(b, k)
    BY <1>1, <1>5, PrefixPrefix
  <2>. QED  BY <2>1, <2>2 DEF UsernameOwner
<1>10. Top({k}) = k
  BY <1>5
<1>11. Replay(NoOwners, 0, b)[n] = Replay(NoOwners, 0, a)[n]
  <2> HIDE DEF Top
  <2>. QED  BY <1>6, <1>8, <1>9, <1>10
<1>. QED
  BY <1>7, <1>11 DEF Replay, NoOwners

(* The tip moves only to strictly more work.                                *)
THEOREM MoreWorkWins == Spec => TipMovesOnlyToMoreWork
<1>1. ChainInv /\ ChainInv' /\ [Next]_chain =>
        (chain'.tip_hash # chain.tip_hash => TipWork(chain') > TipWork(chain))
  BY ChainStepFields
<1>. QED
  BY <1>1, ChainInvariant, PTL DEF Spec, TipMovesOnlyToMoreWork

(* What a legal block's history says of a name, a longer one says too.      *)
LEMMA LegalReplayExtends ==
    ASSUME NEW a, IsBlock(a), NEW b, Legal(b), IsPrefixOf(a, b),
           NEW n \in DOMAIN Replay(NoOwners, 0, a)
    PROVE  /\ n \in DOMAIN Replay(NoOwners, 0, b)
           /\ Replay(NoOwners, 0, b)[n] = Replay(NoOwners, 0, a)[n]
<1>1. IsBlock(b) /\ \A m \in Name : \A g, h \in ClaimHeights(b, 0, m) : g = h
  BY LegalHeader, LegalClaims
<1>. QED  BY <1>1, ReplayExtends

(* A name changes hands only by a reorg.                                    *)
THEOREM OwnershipStable == Spec => OwnersStableWithoutReorg
<1>1. ASSUME ChainInv, ChainInv', IsPrefixOf(chain.tip_hash, chain'.tip_hash),
             NEW n \in DOMAIN chain.username_owner
      PROVE  /\ n \in DOMAIN chain'.username_owner
             /\ chain'.username_owner[n] = chain.username_owner[n]
  <2>1. /\ chain.username_owner = Replay(NoOwners, 0, chain.tip_hash)
        /\ chain'.username_owner = Replay(NoOwners, 0, chain'.tip_hash)
        /\ IsBlock(chain.tip_hash) /\ Legal(chain'.tip_hash)
    BY <1>1, LegalHeader DEF ChainInv, Sound, Accounted, Replayed
  <2>. QED  BY <1>1, <2>1, LegalReplayExtends
<1>2. ChainInv /\ ChainInv' => (IsPrefixOf(chain.tip_hash, chain'.tip_hash) =>
          \A n \in DOMAIN chain.username_owner :
              /\ n \in DOMAIN chain'.username_owner
              /\ chain'.username_owner[n] = chain.username_owner[n])
  BY <1>1
<1>. QED
  BY <1>2, ChainInvariant, PTL DEF OwnersStableWithoutReorg

(* No reorg takes back a name owned at the floor.                           *)
THEOREM FloorOwnersFinal == Spec => FloorIsFinal
<1>1. ASSUME ChainInv, ChainInv', [Next]_chain
      PROVE  /\ IsPrefixOf(chain.floor_hash, chain'.floor_hash)
             /\ \A n \in DOMAIN chain.floor_username_owner :
                   /\ n \in DOMAIN chain'.username_owner
                   /\ chain'.username_owner[n] = chain.floor_username_owner[n]
  <2>1. /\ chain.floor_username_owner = Replay(NoOwners, 0, chain.floor_hash)
        /\ chain'.username_owner = Replay(NoOwners, 0, chain'.tip_hash)
        /\ IsBlock(chain.floor_hash) /\ Legal(chain'.tip_hash)
    BY <1>1, LegalHeader DEF ChainInv, Sound, Accounted, Replayed
  <2>2. /\ IsPrefixOf(chain.floor_hash, chain'.floor_hash)
        /\ IsPrefixOf(chain.floor_hash, chain'.tip_hash)
    BY <1>1, ChainStepFields
  <2>. QED  BY <2>1, <2>2, LegalReplayExtends
<1>. QED
  BY <1>1, ChainInvariant, PTL DEF Spec, FloorIsFinal

(* A step of the chain is a step of the registry or changes nothing in it.  *)
LEMMA RegistryStep ==
    ASSUME ChainInv, ChainInv', [Next]_chain
    PROVE  [Registry!Next]_<<chain.username_owner, chain.floor_username_owner,
                             TipWork(chain)>>
<1>1. /\ chain.username_owner = Replay(NoOwners, 0, chain.tip_hash)
      /\ chain.floor_username_owner = Replay(NoOwners, 0, chain.floor_hash)
      /\ chain'.username_owner = Replay(NoOwners, 0, chain'.tip_hash)
      /\ chain'.floor_username_owner = Replay(NoOwners, 0, chain'.floor_hash)
      /\ IsBlock(chain.floor_hash) /\ IsBlock(chain'.floor_hash)
      /\ Legal(chain'.tip_hash) /\ Legal(chain'.floor_hash)
  BY LegalHeader DEF ChainInv, Sound, Accounted, Replayed
<1>2. /\ IsPrefixOf(chain.floor_hash, chain'.floor_hash)
      /\ IsPrefixOf(chain.floor_hash, chain'.tip_hash)
      /\ IsPrefixOf(chain'.floor_hash, chain'.tip_hash)
      /\ \/ chain'.tip_hash = chain.tip_hash /\ TipWork(chain') = TipWork(chain)
            /\ chain'.username_owner = chain.username_owner
         \/ /\ TipWork(chain') > TipWork(chain)
            /\ chain'.floor_username_owner = chain.floor_username_owner
  BY ChainStepFields
<1>3. /\ Registry!Includes(chain'.username_owner, chain.floor_username_owner)
      /\ Registry!Includes(chain'.floor_username_owner, chain.floor_username_owner)
      /\ Registry!Includes(chain'.username_owner, chain'.floor_username_owner)
  BY <1>1, <1>2, LegalReplayExtends DEF Registry!Includes
<1>. QED
  BY <1>2, <1>3 DEF Registry!Next, Registry!Reorganise, Registry!Finalise, TipWork

(* The ledger implements the registry: names are added or, with more work,  *)
(* replaced; pruning makes names final, and a final name is never taken     *)
(* back.                                                                    *)
THEOREM ChainImplementsRegistry == Spec => ImplementsRegistry
<1>1. Init => Registry!Init
  BY DEF Init, NewChain, NoOwners, TipWork, Genesis, Registry!Init
<1>2. ChainInv /\ ChainInv' /\ [Next]_chain =>
        [Registry!Next]_<<chain.username_owner, chain.floor_username_owner,
                          TipWork(chain)>>
  BY RegistryStep
<1>. QED
  BY <1>1, <1>2, ChainInvariant, PTL DEF Spec, ImplementsRegistry, Registry!Spec

-----------------------------------------------------------------------------
(* The median time past *)

(* Each block is later than the median of its parent.                       *)
LaterThanMedian ==
    chain.floor_hash = Genesis =>
        \A b \in Known(chain) \ {Genesis} :
            Header(b).timestamp > MedianTimePast(chain, Parent(b))

(* One block that is late enough does not take the median back.             *)
LEMMA MedianGrows ==
    ASSUME ChainInv, chain.floor_hash = Genesis,
           NEW b \in Known(chain), b # Genesis,
           Header(b).timestamp > MedianTimePast(chain, Parent(b))
    PROVE  MedianTimePast(chain, b) >= MedianTimePast(chain, Parent(b))
<1> DEFINE p == Parent(b)
           m == MedianTimePast(chain, p)
           k == MedianTimePast(chain, b)
           Before == {h \in WindowStart(p)..Len(p) : TimeAt(p, h) < m}
           UpTo == {h \in WindowStart(b)..Len(b) : TimeAt(b, h) <= k}
<1>1. IsBlock(b) /\ Len(b) \in Nat /\ Len(b) # 0
  <2>1. IsBlock(b) /\ Len(b) \in Nat
    BY HeaderHeight
  <2>2. Len(b) # 0
    BY <2>1 DEF IsBlock, Genesis
  <2>. QED  BY <2>1, <2>2
<1>2. /\ p \in Known(chain) /\ Len(p) = Len(b) - 1 /\ Len(p) \in Nat
      /\ \A h \in 0..Len(p) : Prefix(b, h) = Prefix(p, h)
  <2>1. Len(b) - 1 \in 0..Len(b)
    BY <1>1
  <2>2. Len(p) = Len(b) - 1
    BY <1>1, <2>1, PrefixBlock DEF Parent
  <2>. QED  BY <1>1, <2>1, <2>2, PrefixPrefix DEF ChainInv, KnownIsClosed, Parent
<1>3. MedianWindow \in Nat /\ MedianWindow > 0
  BY BoundsAssumption
<1>4. /\ WindowStart(p) \in 0..Len(p)
      /\ WindowStart(b) \in {WindowStart(p), WindowStart(p) + 1}
      /\ Rank(p) \in Nat /\ Rank(b) \in Nat /\ Rank(p) <= Rank(b)
  <2> HIDE DEF p
  <2>1. /\ WindowStart(p) \in 0..Len(p)
        /\ WindowStart(b) \in {WindowStart(p), WindowStart(p) + 1}
        /\ Len(p) - WindowStart(p) + 1 \in Nat
        /\ Len(b) - WindowStart(b) + 1 \in Nat
        /\ Len(p) - WindowStart(p) + 1 <= Len(b) - WindowStart(b) + 1
    <3>1. Len(b) = Len(p) + 1
      BY <1>1, <1>2
    <3>. QED  BY <1>2, <3>1, Windows
  <2>. QED  BY <2>1, Halves DEF Rank
<1>5. /\ m \in Nat /\ k \in Nat
      /\ Cardinality(Before) <= Rank(p)
      /\ Cardinality(UpTo) > Rank(b)
  <2>1. Legal(p) /\ Legal(b)
    BY <1>2 DEF ChainInv, Sound, Accounted
  <2>2. FloorHeight(chain) = 0
    BY DEF FloorHeight, Genesis
  <2>. QED  BY <2>1, <2>2, MedianHasRank
<1>6. TimeAt(b, Len(b)) = Header(b).timestamp
  BY <1>1, PrefixWhole DEF TimeAt
<1>7. ASSUME k < m
      PROVE  FALSE
  <2>1. UpTo \in SUBSET Before
    <3> SUFFICES ASSUME NEW h \in UpTo PROVE h \in Before
      OBVIOUS
    <3>1. h \in WindowStart(b)..Len(b) /\ TimeAt(b, h) <= k
      OBVIOUS
    <3>2. h # Len(b) \/ ~ (TimeAt(b, h) <= k)
      <4>1. CASE h = Len(b)
        <5>1. TimeAt(b, h) > m
          BY <1>6, <4>1
        <5>2. TimeAt(b, h) \in Int
          BY <4>1, <1>6, HeaderHeight
        <5>. QED  BY <1>5, <1>7, <5>1, <5>2
      <4>. QED  BY <4>1
    <3>3. h \in WindowStart(p)..Len(p)
      <4> HIDE DEF p
      <4>. QED  BY <1>1, <1>2, <1>4, <3>1, <3>2
    <3>4. TimeAt(b, h) = TimeAt(p, h)
      BY <1>2, <1>4, <3>3 DEF TimeAt
    <3>5. TimeAt(b, h) \in Nat
      <4>1. Legal(p)
        BY <1>2 DEF ChainInv, Sound, Accounted
      <4>. QED  BY <1>1, <1>2, <1>4, <3>3, <3>4, <4>1, TimeIsNat
    <3>. QED  BY <1>5, <1>7, <3>1, <3>3, <3>4, <3>5
  <2>2. IsFiniteSet(Before)
    <3> DEFINE I == WindowStart(p)..Len(p)
    <3>1. IsFiniteSet(I) /\ Before \in SUBSET I
      BY <1>2, <1>4, FS_Interval
    <3> HIDE DEF I, Before
    <3>. QED  BY <3>1, FS_Subset
  <2>3. Cardinality(UpTo) <= Cardinality(Before) /\ Cardinality(Before) \in Nat
        /\ Cardinality(UpTo) \in Nat
    <3> HIDE DEF UpTo, Before
    <3>. QED  BY <2>1, <2>2, FS_Subset, FS_CardinalityType
  <2> HIDE DEF UpTo, Before
  <2>. QED  BY <1>4, <1>5, <2>3
<1>. QED  BY <1>5, <1>7

(* The median a block must exceed never goes back along a branch.           *)
THEOREM MedianMonotone == Spec => []MedianNeverGoesBack
<1>1. Init => LaterThanMedian
  BY DEF Init, NewChain, Known, LaterThanMedian
<1>2. ChainInv /\ ChainInv' /\ LaterThanMedian /\ [Next]_chain => LaterThanMedian'
  <2> SUFFICES ASSUME ChainInv, ChainInv', LaterThanMedian, [Next]_chain,
                      chain'.floor_hash = Genesis,
                      NEW b \in Known(chain)', b # Genesis
               PROVE  Header(b).timestamp > MedianTimePast(chain, Parent(b))'
    BY DEF LaterThanMedian
  <2>1. chain.floor_hash = Genesis
    <3>1. IsBlock(chain.floor_hash)
      BY HeaderHeight DEF ChainInv, Sound, Accounted
    <3>2. IsPrefixOf(chain.floor_hash, Genesis)
      BY ChainStepFields
    <3>. QED  BY <3>1, <3>2 DEF IsBlock, IsPrefixOf, Genesis
  <2>2. MedianTimePast(chain, Parent(b))' = MedianTimePast(chain, Parent(b))
    BY <2>1 DEF MedianTimePast, FloorHeight
  <2>3. CASE b \in Known(chain)
    BY <2>1, <2>2, <2>3 DEF LaterThanMedian
  <2>4. CASE b \notin Known(chain)
    <3>1. PICK p \in Known(chain) :
              \E x, now : b = Extend(p, x) /\ ValidBlock(chain, b, now)
      BY <2>4, ChainStep DEF Gained, Accepted, Raised, Known
    <3>2. PICK x, now : b = Extend(p, x) /\ ValidBlock(chain, b, now)
      BY <3>1
    <3>3. Parent(b) = p /\ Header(b) = x
      BY <3>2, HeaderHeight, ExtendBlock
    <3>. QED  BY <2>2, <3>2, <3>3 DEF ValidBlock, ValidTimestamp
  <2>. QED  BY <2>3, <2>4
<1>3. ChainInv /\ LaterThanMedian => MedianNeverGoesBack
  BY MedianGrows DEF LaterThanMedian, MedianNeverGoesBack
<1>. QED
  BY <1>1, <1>2, <1>3, ChainInvariant, PTL DEF Spec

-----------------------------------------------------------------------------
(* ChainStore: the inductive invariant *)

(* A block that was accepted by a chain that sees all the way to genesis.   *)
WholeHistory(b) == \A h \in 1..Len(b) : SelfContained(Prefix(b, h), 0)

Saved == CHOOSE k \in disk.checkpoint : TRUE

(* The chain in memory is a new one unless the store is open, and an open   *)
(* store has written its tip.                                               *)
StatusOK ==
    /\ status \in {"closed", "open", "failed"}
    /\ status # "open" => chain = NewChain
    /\ status # "closed" => disk.tip # {}

(* The rows of the disk are well formed: legal blocks with the work behind  *)
(* them, at most one tip and one checkpoint, which recorded its block.      *)
DiskOK ==
    /\ DOMAIN disk = {"bodies", "headers", "heights", "tip", "checkpoint", "max_height"}
    /\ \A b \in disk.bodies : Legal(b)
    /\ \A b \in DOMAIN disk.headers : disk.headers[b] = Work(b)
    /\ disk.max_height \in Nat
    /\ disk.tip = {} => disk = EmptyDisk
    /\ disk.tip # {} => /\ disk.tip = {DiskTip} /\ Legal(DiskTip)
                        /\ Len(DiskTip) <= disk.max_height
                        /\ disk.checkpoint = {} => Genesis \in disk.bodies
    /\ disk.checkpoint # {} => disk.checkpoint = {Saved} /\ Recorded(Saved)

(* The height index is the durable tip's ancestry, and nothing above it.    *)
HeightsOK ==
    disk.tip # {} =>
        /\ DOMAIN disk.heights \subseteq 0..Len(DiskTip)
        /\ \A h \in DiskFloor..Len(DiskTip) :
              h \in DOMAIN disk.heights /\ disk.heights[h] = Prefix(DiskTip, h)

(* Memory and disk were pruned to the same block.                           *)
FloorsAgree == status = "open" => chain.floor_hash = RestoreBase(disk).floor_hash

(* While no write fails, the disk has all that memory has, and all that a   *)
(* replay of the durable tip reads.                                         *)
NothingLost ==
    ~ WritesMayFail =>
        /\ status = "open" => disk.tip = {chain.tip_hash} /\ chain.blocks \subseteq disk.bodies
        /\ disk.tip # {} =>
             /\ DiskTip \in DOMAIN disk.headers
             /\ IsPrefixOf(RestoreBase(disk).floor_hash, DiskTip)
             /\ \A h \in (DiskFloor + 1)..Len(DiskTip) : Prefix(DiskTip, h) \in disk.bodies

(* Until the first checkpoint every block was validated with nothing hidden,*)
(* and the durable tip is the heaviest of the saved blocks.                 *)
NeverPrunedOK ==
    disk.checkpoint = {} =>
        /\ \A b \in Known(chain) \cup disk.bodies : WholeHistory(b)
        /\ disk.tip # {} => \A b \in disk.bodies : Work(b) <= Work(DiskTip)
        /\ status = "open" => chain.tip_hash = DiskTip \/ Work(chain.tip_hash) > Work(DiskTip)

StoreInv ==
    /\ StatusOK
    /\ Sound(chain)
    /\ DiskOK
    /\ HeightsOK
    /\ FloorsAgree
    /\ NothingLost
    /\ NeverPrunedOK

(* What a restart begins with is sound, and is one block.                   *)
LEMMA BaseIsSound ==
    ASSUME DiskOK
    PROVE  LET base == RestoreBase(disk) IN
           /\ Sound(base) /\ Known(base) = {base.floor_hash}
           /\ base.tip_hash = base.floor_hash
           /\ Legal(base.floor_hash)
           /\ DiskFloor = Len(base.floor_hash) /\ DiskFloor \in Nat
           /\ base.username_owner = Replay(NoOwners, 0, base.floor_hash)
           /\ disk.checkpoint = {} => base.blocks = {Genesis} /\ base.floor_hash = Genesis
           /\ disk.checkpoint # {} => base.blocks = {}
<1> DEFINE base == RestoreBase(disk)
<1>1. /\ Sound(base) /\ Known(base) = {base.floor_hash} /\ base.tip_hash = base.floor_hash
      /\ disk.checkpoint = {} => base.blocks = {Genesis} /\ base.floor_hash = Genesis
      /\ disk.checkpoint # {} => base.blocks = {}
  <2>1. CASE disk.checkpoint = {}
    <3>1. base = NewChain
      BY <2>1 DEF RestoreBase
    <3>2. NewChain.floor_hash = Genesis /\ NewChain.tip_hash = Genesis
          /\ NewChain.blocks = {Genesis}
      BY DEF NewChain
    <3> HIDE DEF base
    <3>. QED  BY <2>1, <3>1, <3>2, NewChainIsSound
  <2>2. CASE disk.checkpoint # {}
    <3>1. base = FromCheckpoint(Saved)
      BY <2>2 DEF RestoreBase, Saved
    <3>2. /\ FromCheckpoint(Saved).floor_hash = Saved.hash
          /\ FromCheckpoint(Saved).tip_hash = Saved.hash
          /\ FromCheckpoint(Saved).blocks = {}
      BY DEF FromCheckpoint
    <3> HIDE DEF base
    <3>3. Recorded(Saved)
      BY <2>2 DEF DiskOK
    <3>. QED  BY <2>2, <3>1, <3>2, <3>3, FromCheckpointIsSound
  <2>. QED  BY <2>1, <2>2
<1> HIDE DEF base
<1>2. Legal(base.floor_hash) /\ base.username_owner = Replay(NoOwners, 0, base.floor_hash)
  BY <1>1 DEF Sound, Accounted, Replayed
<1>3. DiskFloor = Len(base.floor_hash) /\ DiskFloor \in Nat
  BY <1>2, LegalHeader DEF DiskFloor, FloorHeight, base
<1>. QED  BY <1>1, <1>2, <1>3 DEF base

(* Nothing is below genesis.                                                *)
LEMMA GenesisIsWhole ==
    /\ WholeHistory(Genesis)
    /\ \A b : IsBlock(b) => IsPrefixOf(Genesis, b)
<1>1. Len(Genesis) = 0
  BY GenesisIsLegal
<1>2. ASSUME NEW b, IsBlock(b)
      PROVE  IsPrefixOf(Genesis, b)
  BY <1>1, <1>2 DEF IsPrefixOf, IsBlock, Genesis, Prefix
<1>. QED  BY <1>1, <1>2 DEF WholeHistory

(* A self-contained block on a block with a whole history has one too.      *)
LEMMA WholeExtend ==
    ASSUME NEW p, IsBlock(p), WholeHistory(p), NEW x,
           NEW b, b = Extend(p, x), SelfContained(b, 0)
    PROVE  WholeHistory(b)
<1>1. /\ Len(p) \in Nat /\ IsBlock(b) /\ Len(b) = Len(p) + 1
      /\ \A h \in 0..Len(p) : Prefix(b, h) = Prefix(p, h)
      /\ Prefix(b, Len(b)) = b
  <2>1. Len(p) \in Nat /\ IsBlock(b)
    BY ExtendBlock DEF IsBlock
  <2>. QED  BY <2>1, ExtendBlock, PrefixWhole
<1>2. ASSUME NEW h \in 1..Len(b)
      PROVE  SelfContained(Prefix(b, h), 0)
  <2>1. CASE h = Len(b)
    BY <1>1, <2>1
  <2>2. CASE h # Len(b)
    <3>1. h \in 0..Len(p) /\ h \in 1..Len(p)
      BY <1>1, <2>2
    <3>. QED  BY <1>1, <3>1 DEF WholeHistory
  <2>. QED  BY <2>1, <2>2
<1>. QED  BY <1>2 DEF WholeHistory

-----------------------------------------------------------------------------
(* ChainStore: restoring *)

(* The index's run above the floor ends with the durable tip.               *)
LEMMA ReplayEnds ==
    ASSUME NEW d, NEW f \in Nat, NEW t, IsBlock(t),
           DOMAIN d.heights \subseteq 0..Len(t),
           f..Len(t) \subseteq DOMAIN d.heights
    PROVE  ReplayEnd(d, f) = IF Len(t) > f THEN Len(t) ELSE f
<1> DEFINE e == IF Len(t) > f THEN Len(t) ELSE f
           H == DOMAIN d.heights
           Last(h) == h >= f /\ ((f + 1)..h) \subseteq H /\ h + 1 \notin H
<1>1. Len(t) \in Nat
  BY DEF IsBlock
<1>2. e \in {f} \cup H /\ Last(e)
  <2>1. CASE Len(t) > f
    <3>1. e = Len(t) /\ Len(t) \in f..Len(t) /\ (f + 1)..Len(t) \subseteq f..Len(t)
      BY <1>1, <2>1
    <3>2. Len(t) + 1 \notin H
      BY <1>1
    <3>. QED  BY <1>1, <2>1, <3>1, <3>2
  <2>2. CASE ~ (Len(t) > f)
    <3>1. e = f /\ f + 1 \notin H
      BY <1>1, <2>2
    <3>. QED  BY <1>1, <3>1
  <2>. QED  BY <2>1, <2>2
<1>3. ASSUME NEW h \in {f} \cup H, Last(h)
      PROVE  h = e
  <2>1. h \in Nat /\ h >= f
    BY <1>1, <1>3
  <2>2. CASE h < Len(t)
    <3>1. h + 1 \in f..Len(t)
      BY <1>1, <2>1, <2>2
    <3>. QED  BY <1>3, <3>1
  <2>3. CASE ~ (h < Len(t))
    <3>1. h = f \/ h \in 0..Len(t)
      BY <1>3
    <3>. QED  BY <1>1, <2>1, <2>3, <3>1
  <2>. QED  BY <2>2, <2>3
<1>4. ReplayEnd(d, f) = CHOOSE h \in {f} \cup H : Last(h)
  BY DEF ReplayEnd
<1> HIDE DEF e, H, Last
<1>. QED  BY <1>2, <1>3, <1>4 DEF e

(* u is restore's loop over the disk d from height f to height e, turn by   *)
(* turn.                                                                    *)
Replays(u, d, f, e) ==
    u = [h \in f..e |-> IF h = f THEN [ok |-> TRUE, chain |-> RestoreBase(d)]
                        ELSE ReplayBlock(d, u[h - 1], d.heights[h])]

(* The loop has a result.                                                   *)
LEMMA ReplayExists ==
    ASSUME NEW d, NEW f \in Nat, f = FloorHeight(RestoreBase(d)),
           NEW e \in Nat, e = ReplayEnd(d, f), e >= f
    PROVE  \E u : Replays(u, d, f, e) /\ Restored(d) = u[e]
<1> DEFINE K == {n \in Nat : \E u : Replays(u, d, f, f + n)}
<1>1. 0 \in K
  <2> DEFINE u == [h \in f..(f + 0) |-> [ok |-> TRUE, chain |-> RestoreBase(d)]]
  <2>1. u = [h \in f..(f + 0) |-> IF h = f THEN [ok |-> TRUE, chain |-> RestoreBase(d)]
                                  ELSE ReplayBlock(d, u[h - 1], d.heights[h])]
    OBVIOUS
  <2>2. Replays(u, d, f, f + 0)
    <3> HIDE DEF u
    <3>. QED  BY <2>1 DEF Replays
  <2> HIDE DEF u
  <2>. QED  BY <2>2
<1>2. ASSUME NEW n \in Nat, n \in K
      PROVE  n + 1 \in K
  <2>1. PICK u : Replays(u, d, f, f + n)
    BY <1>2
  <2> DEFINE m == f + n + 1
             v == [h \in f..m |-> IF h = m THEN ReplayBlock(d, u[f + n], d.heights[m])
                                  ELSE u[h]]
  <2>2. \A h \in f..(f + n) : v[h] = u[h]
    OBVIOUS
  <2>3. v[m] = ReplayBlock(d, u[f + n], d.heights[m])
    OBVIOUS
  <2>4. \A h \in f..(f + n) : u[h] = IF h = f THEN [ok |-> TRUE, chain |-> RestoreBase(d)]
                                     ELSE ReplayBlock(d, u[h - 1], d.heights[h])
    BY <2>1 DEF Replays
  <2>5. v = [h \in f..m |-> v[h]]
    OBVIOUS
  <2> HIDE DEF v
  <2>6. ASSUME NEW h \in f..m
        PROVE  v[h] = IF h = f THEN [ok |-> TRUE, chain |-> RestoreBase(d)]
                      ELSE ReplayBlock(d, v[h - 1], d.heights[h])
    <3>1. CASE h = m
      <4>1. h # f /\ h - 1 = f + n /\ f + n \in f..(f + n)
        BY <3>1
      <4>. QED  BY <2>2, <2>3, <3>1, <4>1
    <3>2. CASE h = f
      <4>1. f \in f..(f + n)
        OBVIOUS
      <4>. QED  BY <2>2, <2>4, <3>2, <4>1
    <3>3. CASE h # m /\ h # f
      <4>1. h \in f..(f + n) /\ h - 1 \in f..(f + n)
        BY <3>3
      <4>. QED  BY <2>2, <2>4, <3>3, <4>1
    <3>. QED  BY <3>1, <3>2, <3>3
  <2>7. v = [h \in f..m |-> IF h = f THEN [ok |-> TRUE, chain |-> RestoreBase(d)]
                            ELSE ReplayBlock(d, v[h - 1], d.heights[h])]
    BY <2>5, <2>6
  <2>8. Replays(v, d, f, f + (n + 1))
    <3>1. f + (n + 1) = m
      OBVIOUS
    <3> HIDE DEF m
    <3>. QED  BY <2>7, <3>1 DEF Replays
  <2>. QED  BY <2>8
<1>3. Nat \subseteq K
  <2> HIDE DEF K
  <2>. QED  BY <1>1, <1>2, NatInductionOnSets
<1>4. e - f \in Nat /\ f + (e - f) = e
  OBVIOUS
<1>5. \E u : Replays(u, d, f, e)
  BY <1>3, <1>4
<1> DEFINE w == CHOOSE u : Replays(u, d, f, e)
<1>6. Restored(d) = w[e]
  BY DEF Restored, Replays
<1>7. Replays(w, d, f, e)
  BY <1>5
<1> HIDE DEF w
<1>. QED  BY <1>6, <1>7

(* A turn of the loop on the durable tip's branch: the block is accepted if *)
(* its body was saved and it needs nothing from below the floor.            *)
LEMMA ReplayTurn ==
    ASSUME NEW d, NEW r, r.ok, NEW c, c = r.chain, Sound(c), NEW t, Legal(t),
           NEW h \in Nat, h >= FloorHeight(c), h < Len(t), c.tip_hash = Prefix(t, h),
           NEW b, b = Prefix(t, h + 1), NEW s, s = ReplayBlock(d, r, b)
    PROVE  /\ s.ok <=> b \in d.bodies /\ SelfContained(b, FloorHeight(c))
           /\ s.ok => /\ Sound(s.chain) /\ Accepted(c, s.chain, b)
                      /\ s.chain.tip_hash = b
<1> DEFINE p == Prefix(t, h)
           x == t[h + 1]
           now == Header(b).timestamp
           o == ApplyOutcome(c, b, now)
           e == TryApply(c, b, now)
<1>1. IsBlock(t) /\ Len(t) \in Nat /\ h + 1 \in 1..Len(t) /\ (h + 1) - 1 = h
  BY LegalHeader
<1>2. /\ b = Extend(p, x) /\ Header(b) = x /\ Parent(b) = p
      /\ IsBlock(b) /\ Len(b) = h + 1
  BY <1>1, PrefixParts
<1>3. /\ Legal(b) /\ Legal(p) /\ IsBlock(p) /\ Typed(x) /\ Lawful(b)
      /\ now = x.timestamp /\ now \in Nat
  <2>1. h + 1 \in 0..Len(t) /\ h \in 0..Len(t)
    BY <1>1
  <2>2. Legal(b) /\ Legal(p)
    BY <2>1, LegalPrefix
  <2>3. Typed(x) /\ Lawful(b)
    BY <1>1 DEF Legal
  <2>4. now = x.timestamp /\ now \in Nat
    BY <1>2, <2>2, LegalHeader
  <2>. QED  BY <2>2, <2>3, <2>4, LegalHeader
<1> HIDE DEF p, x, now
<1>4. /\ p \in Known(c) /\ p = c.tip_hash /\ HasState(c, p) /\ IsBlock(c.floor_hash)
      /\ c.floor_username_owner = Replay(NoOwners, 0, c.floor_hash)
  BY LegalHeader DEF Sound, Accounted, Complete, Indexed, Replayed, p
<1>5. Work(b) > Work(c.tip_hash) /\ Work(b) \in Nat /\ Work(c.tip_hash) \in Nat
  BY <1>2, <1>3, <1>4, KnownWork
<1>6. b \notin Known(c)
  BY <1>5 DEF Sound, Heaviest
<1>7. ValidBlock(c, b, now) <=> SelfContained(b, FloorHeight(c))
  <2>1. ValidBlock(c, b, now) <=> /\ Lawful(b) /\ SelfContained(b, FloorHeight(c))
                                  /\ x.timestamp <= now + MaxFutureDrift
    BY <1>2, <1>3, <1>4, Verdict DEF Typed
  <2>2. x.timestamp <= now + MaxFutureDrift
    BY <1>3, BoundsAssumption
  <2>. QED  BY <1>3, <2>1, <2>2
<1>8. /\ Sound(e)
      /\ \/ o = "Rejected" /\ ~ ValidBlock(c, b, now)
         \/ /\ ValidBlock(c, b, now) /\ Accepted(c, e, b)
            /\ o \in {"AddedToFork", "ExtendedTip", "ReorgedTo"}
  BY <1>2, <1>3, <1>6, AppliedIsSound
<1>9. s = IF b \in d.bodies /\ o \notin {"Rejected", "Failed"}
          THEN [ok |-> TRUE, chain |-> e] ELSE [ok |-> FALSE, chain |-> c]
  BY DEF ReplayBlock, now
<1> HIDE DEF o, e
<1>10. CASE b \in d.bodies /\ SelfContained(b, FloorHeight(c))
  <2>1. s = [ok |-> TRUE, chain |-> e] /\ Sound(e) /\ Accepted(c, e, b)
    BY <1>7, <1>8, <1>9, <1>10
  <2>2. e.tip_hash = b
    BY <1>5, <2>1 DEF Accepted
  <2>. QED  BY <1>10, <2>1, <2>2
<1>11. CASE ~ (b \in d.bodies /\ SelfContained(b, FloorHeight(c)))
  <2>1. s = [ok |-> FALSE, chain |-> c]
    BY <1>7, <1>8, <1>9, <1>11
  <2>. QED  BY <1>11, <2>1
<1>. QED  BY <1>10, <1>11

(* The loop's first turn fails when the durable tip is on another branch    *)
(* than the floor: the first block's parent is not known.                   *)
LEMMA ReplayStranded ==
    ASSUME NEW d, NEW r, r.ok, NEW c, c = r.chain, Sound(c),
           Known(c) = {c.floor_hash},
           NEW t, Legal(t), FloorHeight(c) < Len(t), ~ IsPrefixOf(c.floor_hash, t),
           NEW b, b = Prefix(t, FloorHeight(c) + 1), NEW s, s = ReplayBlock(d, r, b)
    PROVE  ~ s.ok
<1> DEFINE f == FloorHeight(c)
           now == Header(b).timestamp
<1>1. /\ IsBlock(t) /\ Len(t) \in Nat /\ f \in Nat /\ f + 1 \in 1..Len(t)
      /\ (f + 1) - 1 = f /\ f <= Len(t)
  BY LegalHeader DEF Sound, Accounted, FloorHeight
<1>2. Parent(b) = Prefix(t, f) /\ Len(b) = f + 1
  BY <1>1, PrefixParts
<1>3. Parent(b) \notin Known(c) /\ b \notin Known(c)
  BY <1>1, <1>2 DEF IsPrefixOf, FloorHeight
<1>4. ApplyOutcome(c, b, now) = "Rejected"
  BY <1>3 DEF ApplyOutcome, ValidBlock
<1>. QED  BY <1>4 DEF ReplayBlock

(* What a replay of the branch of t from the checkpoint F needs, up to h.   *)
Replayable(d, F, t, h) ==
    /\ IsPrefixOf(F, t)
    /\ \A g \in (Len(F) + 1)..h : /\ Prefix(t, g) \in d.bodies
                                  /\ SelfContained(Prefix(t, g), Len(F))

(* The chain a replay has reached, at height h of t's branch.               *)
Reached(c, d, base, F, t, h) ==
    /\ Sound(c) /\ c.floor_hash = F
    /\ c.tip_hash = (IF h = Len(F) THEN F ELSE Prefix(t, h))
    /\ c.blocks \subseteq base.blocks \cup d.bodies
    /\ Known(c) \subseteq {F} \cup d.bodies

(* Exactly when a restart succeeds, and what it comes back with.            *)
LEMMA Replaying ==
    ASSUME NEW d, NEW base, base = RestoreBase(d), Sound(base),
           NEW F, F = base.floor_hash, Known(base) = {F}, base.tip_hash = F,
           NEW t, Legal(t), DOMAIN d.heights \subseteq 0..Len(t),
           \A h \in Len(F)..Len(t) : h \in DOMAIN d.heights /\ d.heights[h] = Prefix(t, h),
           NEW r, r = Restored(d),
           NEW last, last = IF Len(t) > Len(F) THEN t ELSE F
    PROVE  /\ r.ok <=> Replayable(d, F, last, Len(last))
           /\ r.ok => /\ Sound(r.chain) /\ r.chain.tip_hash = last
                      /\ r.chain.floor_hash = F
                      /\ r.chain.blocks \subseteq base.blocks \cup d.bodies
                      /\ Known(r.chain) \subseteq {F} \cup d.bodies
<1> DEFINE f == Len(F)
           e == IF Len(t) > f THEN Len(t) ELSE f
<1>1. /\ IsBlock(t) /\ Len(t) \in Nat /\ Legal(F) /\ IsBlock(F) /\ f \in Nat
      /\ f = FloorHeight(base) /\ e \in Nat /\ e >= f
  BY LegalHeader DEF Sound, Accounted, FloorHeight
<1>2. ReplayEnd(d, f) = e
  BY <1>1, ReplayEnds
<1> HIDE DEF f, e
<1>3. PICK u : Replays(u, d, f, e) /\ Restored(d) = u[e]
  BY <1>1, <1>2, ReplayExists
<1>4. \A h \in f..e : u[h] = IF h = f THEN [ok |-> TRUE, chain |-> base]
                             ELSE ReplayBlock(d, u[h - 1], d.heights[h])
  BY <1>3 DEF Replays
<1> DEFINE P(h) == /\ u[h].ok <=> h = f \/ Replayable(d, F, t, h)
                   /\ u[h].ok => Reached(u[h].chain, d, base, F, t, h)
           K == {n \in Nat : f + n <= e => P(f + n)}
<1>5. P(f)
  <2>1. u[f].ok /\ u[f].chain = base
    BY <1>1, <1>4
  <2>. QED  BY <1>1, <2>1 DEF Reached, f
<1>6. ASSUME NEW h \in Nat, h >= f, h < e, P(h)
      PROVE  P(h + 1)
  <2> DEFINE b == Prefix(t, h + 1)
  <2>1. /\ e = Len(t) /\ h + 1 \in f..e /\ h + 1 # f /\ (h + 1) - 1 = h
        /\ h + 1 \in Len(F)..Len(t)
    BY <1>1, <1>6 DEF e, f
  <2>2. u[h + 1] = ReplayBlock(d, u[h], b)
    BY <1>4, <2>1
  <2>3. Replayable(d, F, t, h + 1) <=>
          /\ h = f \/ Replayable(d, F, t, h)
          /\ IsPrefixOf(F, t) /\ b \in d.bodies /\ SelfContained(b, f)
    <3>1. /\ h + 1 \in (f + 1)..(h + 1) /\ (h = f => (f + 1)..h = {})
          /\ \A g \in (f + 1)..(h + 1) : g = h + 1 \/ g \in (f + 1)..h
          /\ \A g \in (f + 1)..h : g \in (f + 1)..(h + 1)
      BY <1>1, <1>6
    <3> HIDE DEF P, b
    <3>2. Replayable(d, F, t, h + 1) =>
             /\ Replayable(d, F, t, h)
             /\ IsPrefixOf(F, t) /\ b \in d.bodies /\ SelfContained(b, f)
      BY <3>1 DEF Replayable, f, b
    <3>3. ASSUME h = f \/ Replayable(d, F, t, h),
                 IsPrefixOf(F, t), b \in d.bodies, SelfContained(b, f)
          PROVE  Replayable(d, F, t, h + 1)
      BY <3>1, <3>3 DEF Replayable, f, b
    <3>. QED  BY <3>2, <3>3
  <2>4. CASE ~ u[h].ok
    <3>1. ~ u[h + 1].ok
      BY <2>2, <2>4 DEF ReplayBlock
    <3>2. ~ (h = f \/ Replayable(d, F, t, h))
      BY <1>6, <2>4
    <3> HIDE DEF b, P
    <3>. QED  BY <2>1, <2>3, <3>1, <3>2 DEF P
  <2>5. CASE u[h].ok /\ ~ IsPrefixOf(F, t)
    <3>1. h = f
      BY <1>6, <2>5 DEF Replayable
    <3>2. u[h].chain = base /\ u[h].ok /\ f = FloorHeight(base) /\ FloorHeight(base) < Len(t)
      BY <1>1, <1>4, <1>6, <2>1, <3>1
    <3>3. ~ u[h + 1].ok
      BY <2>2, <2>5, <3>1, <3>2, ReplayStranded
    <3> HIDE DEF b, P
    <3>. QED  BY <2>1, <2>3, <2>5, <3>3 DEF P
  <2>6. CASE u[h].ok /\ IsPrefixOf(F, t)
    <3> DEFINE c == u[h].chain
    <3>1. h = f \/ Replayable(d, F, t, h)
      BY <1>6, <2>6
    <3>2. /\ Sound(c) /\ c.floor_hash = F
          /\ c.tip_hash = (IF h = f THEN F ELSE Prefix(t, h))
          /\ c.blocks \subseteq base.blocks \cup d.bodies
          /\ Known(c) \subseteq {F} \cup d.bodies
      BY <1>6, <2>6 DEF Reached, f
    <3> HIDE DEF c, b, P
    <3>3. FloorHeight(c) = f /\ c.tip_hash = Prefix(t, h)
      BY <2>6, <3>2 DEF IsPrefixOf, FloorHeight, f
    <3>4. /\ u[h + 1].ok <=> b \in d.bodies /\ SelfContained(b, f)
          /\ u[h + 1].ok => /\ Sound(u[h + 1].chain) /\ Accepted(c, u[h + 1].chain, b)
                            /\ u[h + 1].chain.tip_hash = b
      BY <1>6, <2>1, <2>2, <2>6, <3>2, <3>3, ReplayTurn DEF c, b
    <3>5. u[h + 1].ok => Reached(u[h + 1].chain, d, base, F, t, h + 1)
      BY <2>1, <3>2, <3>4 DEF Reached, Accepted, f, b
    <3>. QED  BY <2>1, <2>3, <2>6, <3>1, <3>4, <3>5 DEF P
  <2>. QED  BY <2>4, <2>5, <2>6
<1>7. Nat \subseteq K
  <2>1. 0 \in K
    <3>1. f + 0 = f
      BY <1>1
    <3> HIDE DEF P
    <3>. QED  BY <1>5, <3>1
  <2>2. ASSUME NEW n \in Nat, n \in K
        PROVE  n + 1 \in K
    <3> SUFFICES ASSUME f + (n + 1) <= e
                 PROVE  P(f + (n + 1))
      OBVIOUS
    <3>1. /\ f + n \in Nat /\ f + n >= f /\ f + n < e /\ f + (n + 1) = (f + n) + 1
          /\ f + n <= e
      BY <1>1
    <3> HIDE DEF P
    <3>2. P(f + n)
      BY <2>2, <3>1
    <3>. QED  BY <1>6, <3>1, <3>2
  <2> HIDE DEF K
  <2>. QED  BY <2>1, <2>2, NatInductionOnSets
<1>8. P(e)
  <2>1. e - f \in Nat /\ f + (e - f) = e
    BY <1>1
  <2> HIDE DEF P
  <2>. QED  BY <1>1, <1>7, <2>1
<1>9. r = u[e] /\ (r.ok <=> e = f \/ Replayable(d, F, t, e))
      /\ (r.ok => Reached(r.chain, d, base, F, t, e))
  BY <1>3, <1>8
<1>10. CASE Len(t) > f
  <2>1. last = t /\ e = Len(t) /\ e # f /\ Prefix(t, e) = t
    BY <1>1, <1>10, PrefixWhole DEF e, f
  <2>. QED  BY <1>9, <2>1 DEF Reached, f
<1>11. CASE ~ (Len(t) > f)
  <2>1. last = F /\ e = f /\ (f + 1)..Len(last) = {} /\ IsPrefixOf(F, F)
    BY <1>1, <1>11, IsPrefixOfItself DEF e, f
  <2>2. Replayable(d, F, last, Len(last))
    BY <2>1 DEF Replayable, f
  <2>. QED  BY <1>9, <2>1, <2>2 DEF Reached, f
<1>. QED  BY <1>10, <1>11

(* What the disk comes back as, in a store that keeps its invariant.        *)
LEMMA DiskRestores ==
    ASSUME DiskOK, HeightsOK, disk.tip # {}
    PROVE  LET r == Restored(disk)
               base == RestoreBase(disk)
               F == base.floor_hash
               last == IF Len(DiskTip) > Len(F) THEN DiskTip ELSE F
           IN  /\ r.ok <=> Replayable(disk, F, last, Len(last))
               /\ r.ok => /\ Sound(r.chain) /\ r.chain.tip_hash = last
                          /\ r.chain.floor_hash = F
                          /\ r.chain.blocks \subseteq base.blocks \cup disk.bodies
                          /\ Known(r.chain) \subseteq {F} \cup disk.bodies
<1>1. Legal(DiskTip)
  BY DEF DiskOK
<1>2. LET base == RestoreBase(disk) IN
      /\ Sound(base) /\ Known(base) = {base.floor_hash}
      /\ base.tip_hash = base.floor_hash
      /\ DiskFloor = Len(base.floor_hash)
  BY BaseIsSound
<1>3. /\ DOMAIN disk.heights \subseteq 0..Len(DiskTip)
      /\ \A h \in DiskFloor..Len(DiskTip) :
            h \in DOMAIN disk.heights /\ disk.heights[h] = Prefix(DiskTip, h)
  BY DEF HeightsOK
<1>. QED  BY <1>1, <1>2, <1>3, Replaying

(* Exactly when a restart succeeds.                                         *)
LEMMA RestoresUnlessCutHolds ==
    ASSUME StoreInv
    PROVE  RestoresUnlessCut
<1> SUFFICES ASSUME disk.tip # {}
             PROVE  RestoresUnlessCut
  BY DEF RestoresUnlessCut
<1> DEFINE r == Restored(disk)
           base == RestoreBase(disk)
           F == base.floor_hash
           last == IF Len(DiskTip) > Len(F) THEN DiskTip ELSE F
<1>1. /\ r.ok <=> Replayable(disk, F, last, Len(last))
      /\ r.ok => /\ Sound(r.chain) /\ r.chain.tip_hash = last
  BY DiskRestores DEF StoreInv
<1>2. base.tip_hash = F
  BY BaseIsSound DEF StoreInv
<1> HIDE DEF r, base, last
<1>3. r.ok => r.chain.username_owner = Replay(NoOwners, 0, last)
  BY <1>1 DEF Sound, Replayed
<1>. QED  BY <1>1, <1>2, <1>3 DEF RestoresUnlessCut, Replayable, r, base, last

(* With no checkpoint and no write lost, memory's tip is the disk's, and a  *)
(* replay of it succeeds.                                                   *)
LEMMA RestartIsInvisibleHolds ==
    ASSUME StoreInv
    PROVE  RestartIsInvisible
<1> SUFFICES ASSUME status = "open", disk.checkpoint = {}, chain.blocks \subseteq disk.bodies
             PROVE  RestartIsInvisible
  BY DEF RestartIsInvisible
<1> DEFINE t == chain.tip_hash
           r == Restored(disk)
<1>1. /\ disk.tip # {} /\ Legal(DiskTip) /\ Sound(chain) /\ Legal(t) /\ t \in Known(chain)
      /\ RestoreBase(disk).floor_hash = Genesis
      /\ chain.floor_hash = Genesis
      /\ WholeHistory(t)
      /\ \A b \in disk.bodies : Work(b) <= Work(DiskTip)
      /\ t = DiskTip \/ Work(t) > Work(DiskTip)
  BY BaseIsSound DEF StoreInv, StatusOK, DiskOK, Sound, Accounted, FloorsAgree, NeverPrunedOK
<1>2. /\ IsBlock(t) /\ Len(t) \in Nat /\ Len(Genesis) = 0
      /\ Work(t) \in Nat /\ Work(DiskTip) \in Nat
      /\ IsPrefixOf(Genesis, t) /\ Prefix(t, Len(t)) = t
      /\ Len(t) = 0 => t = Genesis
  BY <1>1, LegalHeader, GenesisIsWhole, GenesisIsLegal, PrefixWhole
<1>3. \A h \in 1..Len(t) : Prefix(t, h) \in disk.bodies
  BY <1>1, <1>2 DEF Sound, Complete, HasState, FloorHeight
<1>4. DiskTip = t
  <2>1. CASE Len(t) = 0
    BY <1>1, <1>2, <2>1, WorkOfGenesis
  <2>2. CASE Len(t) # 0
    <3>1. t \in disk.bodies
      BY <1>2, <1>3, <2>2
    <3>. QED  BY <1>1, <1>2, <3>1
  <2>. QED  BY <2>1, <2>2
<1> HIDE DEF t
<1>5. (IF Len(DiskTip) > Len(Genesis) THEN DiskTip ELSE Genesis) = t
  BY <1>2, <1>4
<1>6. /\ r.ok <=> Replayable(disk, Genesis, t, Len(t))
      /\ r.ok => Sound(r.chain) /\ r.chain.tip_hash = t
  <2> HIDE DEF r
  <2>. QED  BY <1>1, <1>5, DiskRestores DEF StoreInv, r
<1>7. Replayable(disk, Genesis, t, Len(t))
  BY <1>1, <1>2, <1>3 DEF Replayable, WholeHistory
<1> HIDE DEF r
<1>8. r.chain.username_owner = chain.username_owner /\ TipWork(r.chain) = TipWork(chain)
  BY <1>1, <1>6, <1>7 DEF Sound, Accounted, Replayed, TipWork, t
<1>. QED  BY <1>6, <1>7, <1>8 DEF RestartIsInvisible, r, t

(* The durable index and the bodies a replay reads.                         *)
LEMMA DiskHoldsItsTipHolds ==
    ASSUME StoreInv, ~ WritesMayFail
    PROVE  DiskHoldsItsTip
<1> SUFFICES ASSUME disk.tip # {}
             PROVE  DiskHoldsItsTip
  BY DEF DiskHoldsItsTip
<1>1. Len(DiskTip) \in Nat
  BY LegalHeader DEF StoreInv, DiskOK
<1>. QED  BY <1>1 DEF StoreInv, HeightsOK, NothingLost, DiskHoldsItsTip

-----------------------------------------------------------------------------
(* ChainStore: the steps *)

(* A persisted block: the fields of the disk afterwards.                    *)
LEMMA PersistedFields ==
    ASSUME NEW d, NEW c, NEW b, NEW e, e = Persisted(d, c, b),
           DOMAIN d = {"bodies", "headers", "heights", "tip", "checkpoint", "max_height"}
    PROVE  /\ DOMAIN e = DOMAIN d
           /\ e.bodies = d.bodies \cup {b}
           /\ DOMAIN e.headers = DOMAIN d.headers \cup {b}
           /\ \A k \in DOMAIN e.headers : e.headers[k] = IF k = b THEN c.meta[b] ELSE d.headers[k]
           /\ e.heights = HeightsAfter(d, c)
           /\ e.max_height = IF d.max_height > TipHeight(c) THEN d.max_height ELSE TipHeight(c)
           /\ e.tip = {c.tip_hash}
           /\ e.checkpoint = d.checkpoint
  BY DEF Persisted

(* The height index of a sound chain, written over the one the disk had:    *)
(* the tip's ancestry, and nothing above it.                                *)
LEMMA HeightsWritten ==
    ASSUME NEW d, NEW c, Sound(c), d.max_height \in Nat,
           DOMAIN d.heights \subseteq 0..d.max_height,
           NEW H, H = HeightsAfter(d, c)
    PROVE  /\ DOMAIN H \subseteq 0..TipHeight(c)
           /\ \A h \in FloorHeight(c)..TipHeight(c) :
                 h \in DOMAIN H /\ H[h] = Prefix(c.tip_hash, h)
<1> DEFINE f == FloorHeight(c)
           n == TipHeight(c)
           index == Ancestors(c, c.tip_hash)
           m == d.max_height
<1>1. f \in Nat /\ n \in Nat
  BY LegalHeader DEF Sound, Accounted, FloorHeight, TipHeight
<1>2. DOMAIN index = f..n /\ \A h \in f..n : index[h] = Prefix(c.tip_hash, h)
  BY DEF Ancestors, TipHeight
<1> HIDE DEF index, f, n
<1>3. DOMAIN H = (DOMAIN d.heights \cup f..n) \ ((n + 1)..m)
  BY <1>2 DEF HeightsAfter, index, n, f
<1>4. ASSUME NEW h \in DOMAIN H
      PROVE  h \in 0..n
  <2>1. h \in 0..m \/ h \in f..n
    BY <1>3
  <2>2. h \notin (n + 1)..m
    BY <1>3
  <2>. QED  BY <1>1, <2>1, <2>2
<1>5. ASSUME NEW h \in f..n
      PROVE  h \in DOMAIN H /\ H[h] = Prefix(c.tip_hash, h)
  <2>1. h \in DOMAIN H
    BY <1>1, <1>3
  <2>2. H[h] = index[h]
    BY <1>2, <2>1 DEF HeightsAfter, index, n
  <2>. QED  BY <1>2, <2>1, <2>2
<1>. QED  BY <1>4, <1>5 DEF f, n

(* An empty store writes genesis and is open.                               *)
LEMMA OpenFresh ==
    ASSUME StoreInv, Open, disk.tip = {}
    PROVE  /\ StoreInv' /\ DiskTip' = Genesis /\ disk'.checkpoint = {}
           /\ disk'.headers[Genesis] = 0
<1>1. /\ disk = EmptyDisk /\ chain' = NewChain /\ status' = "open"
      /\ disk' = Persisted(EmptyDisk, NewChain, Genesis)
  BY DEF StoreInv, DiskOK, Open
<1>2. /\ Sound(NewChain) /\ Known(NewChain) = {Genesis}
      /\ NewChain.tip_hash = Genesis /\ NewChain.blocks = {Genesis}
      /\ NewChain.floor_hash = Genesis /\ NewChain.meta[Genesis] = 0
      /\ TipHeight(NewChain) = 0 /\ FloorHeight(NewChain) = 0
      /\ Legal(Genesis) /\ Len(Genesis) = 0 /\ Work(Genesis) = 0
      /\ IsPrefixOf(Genesis, Genesis) /\ WholeHistory(Genesis)
  <2>1. /\ NewChain.tip_hash = Genesis /\ NewChain.blocks = {Genesis}
        /\ NewChain.floor_hash = Genesis /\ NewChain.meta[Genesis] = 0
    BY DEF NewChain
  <2>2. IsBlock(Genesis)
    BY GenesisIsLegal DEF Legal
  <2>. QED
    BY <2>1, <2>2, NewChainIsSound, GenesisIsLegal, GenesisIsWhole, WorkOfGenesis
       DEF TipHeight, FloorHeight
<1>3. /\ EmptyDisk.bodies = {} /\ DOMAIN EmptyDisk.headers = {}
      /\ DOMAIN EmptyDisk.heights = {} /\ EmptyDisk.max_height = 0
      /\ EmptyDisk.checkpoint = {}
      /\ DOMAIN EmptyDisk = {"bodies", "headers", "heights", "tip", "checkpoint", "max_height"}
  BY DEF EmptyDisk
<1>4. /\ DOMAIN disk' = {"bodies", "headers", "heights", "tip", "checkpoint", "max_height"}
      /\ disk'.bodies = {Genesis}
      /\ DOMAIN disk'.headers = {Genesis} /\ disk'.headers[Genesis] = 0
      /\ disk'.heights = HeightsAfter(EmptyDisk, NewChain)
      /\ disk'.max_height = 0
      /\ disk'.tip = {Genesis} /\ disk'.checkpoint = {}
  BY <1>1, <1>2, <1>3, PersistedFields
<1>5. /\ DOMAIN disk'.heights \subseteq 0..0
      /\ \A h \in 0..0 : h \in DOMAIN disk'.heights /\ disk'.heights[h] = Prefix(Genesis, h)
  BY <1>2, <1>3, <1>4, HeightsWritten
<1>6. DiskTip' = Genesis /\ RestoreBase(disk') = NewChain /\ DiskFloor' = 0
  BY <1>2, <1>4 DEF DiskTip, RestoreBase, DiskFloor
<1>7. StatusOK' /\ Sound(chain)' /\ DiskOK' /\ HeightsOK' /\ FloorsAgree'
  BY <1>1, <1>2, <1>4, <1>5, <1>6 DEF StatusOK, DiskOK, HeightsOK, FloorsAgree
<1>8. NothingLost' /\ NeverPrunedOK'
  BY <1>1, <1>2, <1>4, <1>6 DEF NothingLost, NeverPrunedOK
<1>. QED  BY <1>4, <1>6, <1>7, <1>8 DEF StoreInv

(* A store with a tip replays it, or stays shut.                            *)
LEMMA OpenSaved ==
    ASSUME StoreInv, Open, disk.tip # {}
    PROVE  StoreInv' /\ disk' = disk
<1> DEFINE r == Restored(disk)
           base == RestoreBase(disk)
           F == base.floor_hash
           last == IF Len(DiskTip) > Len(F) THEN DiskTip ELSE F
<1>1. /\ disk' = disk
      /\ status' = IF r.ok THEN "open" ELSE "failed"
      /\ chain' = IF r.ok THEN r.chain ELSE NewChain
  BY DEF Open
<1>2. /\ r.ok <=> Replayable(disk, F, last, Len(last))
      /\ r.ok => /\ Sound(r.chain) /\ r.chain.tip_hash = last
                 /\ r.chain.floor_hash = F
                 /\ r.chain.blocks \subseteq base.blocks \cup disk.bodies
                 /\ Known(r.chain) \subseteq {F} \cup disk.bodies
  BY DiskRestores DEF StoreInv
<1>3. /\ Legal(F) /\ Len(F) \in Nat /\ IsBlock(F) /\ Legal(DiskTip) /\ Len(DiskTip) \in Nat
      /\ disk.checkpoint = {} => /\ base.blocks = {Genesis} /\ F = Genesis
                                 /\ Genesis \in disk.bodies
      /\ disk.checkpoint # {} => base.blocks = {}
      /\ Sound(NewChain) /\ Known(NewChain) = {Genesis} /\ WholeHistory(Genesis)
  BY BaseIsSound, LegalHeader, NewChainIsSound, GenesisIsWhole DEF StoreInv, DiskOK
<1>4. disk'.tip = disk.tip /\ DiskTip' = DiskTip /\ DiskFloor' = DiskFloor
      /\ RestoreBase(disk') = base /\ Saved' = Saved
  BY <1>1 DEF DiskTip, DiskFloor, Saved
<1> HIDE DEF r, base, last
<1>5. StatusOK' /\ Sound(chain)' /\ DiskOK' /\ HeightsOK' /\ FloorsAgree'
  BY <1>1, <1>2, <1>3, <1>4 DEF StoreInv, StatusOK, DiskOK, HeightsOK, FloorsAgree
<1>6. ASSUME ~ WritesMayFail, r.ok
      PROVE  r.chain.tip_hash = DiskTip /\ r.chain.blocks \subseteq disk.bodies
  <2>1. IsPrefixOf(F, DiskTip)
    BY <1>6 DEF StoreInv, NothingLost, base
  <2>2. last = DiskTip
    BY <1>3, <2>1, PrefixWhole DEF IsPrefixOf, last, Legal
  <2>. QED  BY <1>2, <1>3, <1>6, <2>2
<1>7. NothingLost'
  <2>1. ~ WritesMayFail /\ status' = "open" =>
            disk'.tip = {chain'.tip_hash} /\ chain'.blocks \subseteq disk'.bodies
    BY <1>1, <1>6 DEF StoreInv, DiskOK
  <2>. QED  BY <1>1, <1>4, <2>1 DEF StoreInv, NothingLost, base
<1>8. NeverPrunedOK'
  <2> SUFFICES ASSUME disk.checkpoint = {}
               PROVE  NeverPrunedOK'
    BY <1>1 DEF NeverPrunedOK
  <2>1. Known(chain') \subseteq {Genesis} \cup disk.bodies
    BY <1>1, <1>2, <1>3
  <2>2. r.ok => r.chain.tip_hash = DiskTip
    <3>1. Len(Genesis) = 0 /\ F = Genesis /\ (Len(DiskTip) = 0 => DiskTip = Genesis)
      BY <1>3, LegalHeader, GenesisIsLegal
    <3>2. last = DiskTip
      BY <1>3, <3>1 DEF last
    <3>. QED  BY <1>2, <3>2
  <2>3. \A b \in Known(chain') \cup disk'.bodies : WholeHistory(b)
    BY <1>1, <1>3, <2>1 DEF StoreInv, NeverPrunedOK
  <2>. QED  BY <1>1, <1>4, <2>2, <2>3 DEF StoreInv, NeverPrunedOK, Known
<1>. QED  BY <1>1, <1>5, <1>7, <1>8 DEF StoreInv

(* What may arrive: a well-typed header on a block.                         *)
LEMMA OffersAreTyped ==
    ASSUME StoreInv, NEW p \in Seen, NEW x \in Offers(chain, p)
    PROVE  Legal(p) /\ IsBlock(p) /\ Typed(x)
<1>1. Legal(p) /\ IsBlock(p)
  BY LegalHeader DEF StoreInv, DiskOK, Sound, Accounted, Seen
<1>2. x.timestamp \in Times /\ x.target \in Target /\ x.txs \in OfferedClaims(chain)
  BY DEF Offers
<1>3. ASSUME NEW tx \in x.txs
      PROVE  tx.name \in Name
  <2>1. tx \in Claim(Known(chain))
    BY <1>2 DEF OfferedClaims
  <2>. QED  BY <2>1 DEF Claim
<1>4. Typed(x)
  BY <1>2, <1>3, TimesAssumption DEF Typed
<1>. QED  BY <1>1, <1>4

(* What an accepted block does to the chain in memory, seen from the disk.  *)
LEMMA AcceptedInMemory ==
    ASSUME StoreInv, status = "open", NEW p \in Seen, NEW x \in Offers(chain, p), NEW now,
           NEW b, b = Extend(p, x), NEW e, e = TryApply(chain, b, now),
           NEW o, o = ApplyOutcome(chain, b, now)
    PROVE  \/ e = chain /\ o \in {"AlreadyKnown", "Rejected"}
           \/ /\ o \notin {"AlreadyKnown", "Rejected", "Failed"}
              /\ Sound(e) /\ Legal(b) /\ Accepted(chain, e, b)
              /\ e.tip_hash = chain.tip_hash \/ Work(e.tip_hash) > Work(chain.tip_hash)
              /\ disk.checkpoint = {} => \A k \in Known(e) : WholeHistory(k)
<1>1. Legal(p) /\ IsBlock(p) /\ Typed(x) /\ Sound(chain)
  BY OffersAreTyped DEF StoreInv
<1>2. /\ Sound(e)
      /\ \/ e = chain /\ o \in {"AlreadyKnown", "Rejected"}
         \/ /\ p \in Known(chain)
            /\ Legal(b) /\ SelfContained(b, FloorHeight(chain))
            /\ Accepted(chain, e, b)
            /\ o \in {"AddedToFork", "ExtendedTip", "ReorgedTo"}
  BY <1>1, AppliedIsSound
<1>3. CASE e = chain /\ o \in {"AlreadyKnown", "Rejected"}
  BY <1>3
<1>4. CASE /\ p \in Known(chain)
           /\ Legal(b) /\ SelfContained(b, FloorHeight(chain))
           /\ Accepted(chain, e, b)
           /\ o \in {"AddedToFork", "ExtendedTip", "ReorgedTo"}
  <2>1. e.tip_hash = chain.tip_hash \/ Work(e.tip_hash) > Work(chain.tip_hash)
    BY <1>4 DEF Accepted
  <2>2. ASSUME disk.checkpoint = {}
        PROVE  \A k \in Known(e) : WholeHistory(k)
    <3>1. FloorHeight(chain) = 0
      BY <2>2, BaseIsSound, GenesisIsLegal DEF StoreInv, FloorsAgree, FloorHeight
    <3>2. WholeHistory(p)
      BY <1>4, <2>2 DEF StoreInv, NeverPrunedOK
    <3>3. WholeHistory(b)
      BY <1>1, <1>4, <3>1, <3>2, WholeExtend
    <3>. QED  BY <1>4, <2>2, <3>3 DEF StoreInv, NeverPrunedOK, Accepted
  <2>. QED  BY <1>2, <1>4, <2>1, <2>2
<1>. QED  BY <1>2, <1>3, <1>4

(* try_apply, written through.                                              *)
LEMMA ApplyStep ==
    ASSUME StoreInv, NEW p \in Seen, NEW x \in Offers(chain, p), NEW now, Apply(p, x, now)
    PROVE  /\ StoreInv' /\ disk'.checkpoint = disk.checkpoint
           /\ \/ disk' = disk
              \/ /\ disk.tip # {} /\ disk'.tip # {}
                 /\ DiskTip' = chain'.tip_hash
                 /\ ~ WritesMayFail => DiskTip' = DiskTip \/ Work(DiskTip') > Work(DiskTip)
<1> DEFINE b == Extend(p, x)
           e == TryApply(chain, b, now)
           o == ApplyOutcome(chain, b, now)
<1>1. /\ status = "open" /\ status' = status /\ chain' = e
      /\ disk' = IF o \in {"AlreadyKnown", "Rejected", "Failed"} THEN disk
                 ELSE Persisted(disk, e, b)
  BY DEF Apply
<1>2. \/ e = chain /\ o \in {"AlreadyKnown", "Rejected"}
      \/ /\ o \notin {"AlreadyKnown", "Rejected", "Failed"}
         /\ Sound(e) /\ Legal(b) /\ Accepted(chain, e, b)
         /\ e.tip_hash = chain.tip_hash \/ Work(e.tip_hash) > Work(chain.tip_hash)
         /\ disk.checkpoint = {} => \A k \in Known(e) : WholeHistory(k)
  BY <1>1, AcceptedInMemory
<1> HIDE DEF b, e, o
<1>3. CASE e = chain /\ o \in {"AlreadyKnown", "Rejected"}
  <2>1. UNCHANGED <<status, chain, disk>>
    BY <1>1, <1>3
  <2>. QED
    BY <2>1 DEF StoreInv, StatusOK, DiskOK, HeightsOK, FloorsAgree, NothingLost,
                NeverPrunedOK, DiskTip, DiskFloor, Saved
<1>4. CASE /\ o \notin {"AlreadyKnown", "Rejected", "Failed"}
           /\ Sound(e) /\ Legal(b) /\ Accepted(chain, e, b)
           /\ e.tip_hash = chain.tip_hash \/ Work(e.tip_hash) > Work(chain.tip_hash)
           /\ disk.checkpoint = {} => \A k \in Known(e) : WholeHistory(k)
  <2>1. /\ DOMAIN disk = {"bodies", "headers", "heights", "tip", "checkpoint", "max_height"}
        /\ disk.max_height \in Nat /\ disk.tip # {} /\ Legal(DiskTip)
        /\ Len(DiskTip) \in Nat /\ Len(DiskTip) <= disk.max_height
        /\ DOMAIN disk.heights \subseteq 0..Len(DiskTip)
        /\ chain.floor_hash = RestoreBase(disk).floor_hash
    BY <1>1, LegalHeader DEF StoreInv, StatusOK, DiskOK, HeightsOK, FloorsAgree
  <2>2. /\ DOMAIN disk' = DOMAIN disk
        /\ disk'.bodies = disk.bodies \cup {b}
        /\ DOMAIN disk'.headers = DOMAIN disk.headers \cup {b}
        /\ \A k \in DOMAIN disk'.headers :
              disk'.headers[k] = IF k = b THEN e.meta[b] ELSE disk.headers[k]
        /\ disk'.heights = HeightsAfter(disk, e)
        /\ disk'.max_height = IF disk.max_height > TipHeight(e) THEN disk.max_height
                              ELSE TipHeight(e)
        /\ disk'.tip = {e.tip_hash}
        /\ disk'.checkpoint = disk.checkpoint
    BY <1>1, <1>4, <2>1, PersistedFields
  <2>3. /\ DOMAIN disk'.heights \subseteq 0..TipHeight(e)
        /\ \A h \in FloorHeight(e)..TipHeight(e) :
              h \in DOMAIN disk'.heights /\ disk'.heights[h] = Prefix(e.tip_hash, h)
    <3>1. DOMAIN disk.heights \subseteq 0..disk.max_height
      BY <2>1
    <3>. QED  BY <1>4, <2>1, <2>2, <3>1, HeightsWritten
  <2>4. /\ DiskTip' = e.tip_hash /\ Legal(e.tip_hash) /\ Len(e.tip_hash) \in Nat
        /\ RestoreBase(disk') = RestoreBase(disk) /\ DiskFloor' = DiskFloor
        /\ Saved' = Saved /\ e.floor_hash = chain.floor_hash
        /\ DiskFloor = FloorHeight(e) /\ TipHeight(e) = Len(e.tip_hash)
        /\ e.meta[b] = Work(b) /\ e.meta[e.tip_hash] = Work(e.tip_hash)
    <3>1. /\ DiskTip' = e.tip_hash
          /\ RestoreBase(disk') = RestoreBase(disk) /\ DiskFloor' = DiskFloor
          /\ Saved' = Saved
      BY <2>2 DEF DiskTip, RestoreBase, DiskFloor, Saved
    <3>2. Legal(e.tip_hash) /\ Len(e.tip_hash) \in Nat
      BY <1>4, LegalHeader DEF Sound, Accounted
    <3>3. e.meta[b] = Work(b) /\ e.meta[e.tip_hash] = Work(e.tip_hash)
      BY <1>4 DEF Sound, Accounted, Accepted
    <3>4. e.floor_hash = chain.floor_hash
      BY <1>4 DEF Accepted
    <3>. QED  BY <2>1, <3>1, <3>2, <3>3, <3>4 DEF DiskFloor, FloorHeight, TipHeight
  <2>5. disk.tip = {DiskTip}
    BY <2>1 DEF StoreInv, DiskOK
  <2>6. StatusOK' /\ Sound(chain)' /\ HeightsOK' /\ FloorsAgree'
    BY <1>1, <1>4, <2>1, <2>2, <2>3, <2>4 DEF StoreInv, StatusOK, HeightsOK, FloorsAgree
  <2>7. DiskOK'
    <3>1. \A k \in disk'.bodies : Legal(k)
      BY <1>4, <2>2 DEF StoreInv, DiskOK
    <3>2. \A k \in DOMAIN disk'.headers : disk'.headers[k] = Work(k)
      BY <2>2, <2>4 DEF StoreInv, DiskOK
    <3>3. disk'.max_height \in Nat /\ Len(e.tip_hash) <= disk'.max_height
      BY <2>1, <2>2, <2>4
    <3>4. disk'.tip # {} /\ disk'.tip = {DiskTip'} /\ Legal(DiskTip')
      BY <2>2, <2>4
    <3>5. disk'.checkpoint = {} => Genesis \in disk'.bodies
      BY <2>1, <2>2 DEF StoreInv, DiskOK
    <3>6. disk'.checkpoint # {} => disk'.checkpoint = {Saved'} /\ Recorded(Saved')
      BY <2>2, <2>4 DEF StoreInv, DiskOK
    <3>. QED  BY <2>1, <2>2, <2>4, <3>1, <3>2, <3>3, <3>4, <3>5, <3>6 DEF DiskOK
  <2>8. ASSUME ~ WritesMayFail
        PROVE  /\ chain.tip_hash = DiskTip /\ DiskTip \in DOMAIN disk.headers
               /\ chain.blocks \subseteq disk.bodies
    BY <1>1, <2>1, <2>5, <2>8 DEF StoreInv, NothingLost
  <2>9. e.tip_hash = chain.tip_hash \/ e.tip_hash = b
    BY <1>4 DEF Accepted
  <2>10. NothingLost'
    <3> SUFFICES ASSUME ~ WritesMayFail
                 PROVE  NothingLost'
      BY DEF NothingLost
    <3>1. e.blocks \subseteq disk'.bodies
      BY <1>4, <2>2, <2>8 DEF Accepted
    <3>2. DiskTip' \in DOMAIN disk'.headers
      BY <2>2, <2>4, <2>8, <2>9
    <3>3. IsPrefixOf(e.floor_hash, e.tip_hash) /\ HasState(e, e.tip_hash)
      BY <1>4 DEF Sound, Accounted, Complete, Indexed
    <3>4. \A h \in (DiskFloor + 1)..Len(e.tip_hash) : Prefix(e.tip_hash, h) \in disk'.bodies
      BY <2>4, <3>1, <3>3 DEF HasState
    <3>. QED  BY <1>1, <2>1, <2>2, <2>4, <3>1, <3>2, <3>3, <3>4 DEF NothingLost
  <2>11. NeverPrunedOK'
    <3> SUFFICES ASSUME disk.checkpoint = {}
                 PROVE  NeverPrunedOK'
      BY <2>2 DEF NeverPrunedOK
    <3>1. \A k \in Known(e) \cup disk'.bodies : WholeHistory(k)
      BY <1>4, <2>2 DEF StoreInv, NeverPrunedOK, Accepted
    <3>2. \A k \in disk'.bodies : Work(k) <= Work(e.tip_hash)
      <4>1. /\ Work(e.tip_hash) \in Nat /\ Work(DiskTip) \in Nat
            /\ Work(chain.tip_hash) \in Nat
            /\ \A k \in disk.bodies : Work(k) \in Nat /\ Work(k) <= Work(DiskTip)
            /\ chain.tip_hash = DiskTip \/ Work(chain.tip_hash) > Work(DiskTip)
        BY <1>1, <2>1, <2>4, LegalHeader DEF StoreInv, Sound, Accounted, DiskOK, NeverPrunedOK
      <4>2. Work(e.tip_hash) >= Work(chain.tip_hash)
        BY <1>4, <4>1
      <4>3. Work(b) <= Work(e.tip_hash)
        BY <1>4 DEF Sound, Heaviest, Accepted
      <4>. QED  BY <2>2, <4>1, <4>2, <4>3
    <3>. QED  BY <1>1, <2>2, <2>4, <3>1, <3>2 DEF NeverPrunedOK, Known
  <2>12. ~ WritesMayFail => DiskTip' = DiskTip \/ Work(DiskTip') > Work(DiskTip)
    BY <1>4, <2>4, <2>8
  <2>. QED
    BY <1>1, <2>1, <2>2, <2>4, <2>6, <2>7, <2>10, <2>11, <2>12 DEF StoreInv
<1>. QED  BY <1>2, <1>3, <1>4

(* try_apply whose write fails.                                             *)
LEMMA ApplyUnsavedStep ==
    ASSUME StoreInv, NEW p \in Seen, NEW x \in Offers(chain, p), NEW now,
           ApplyUnsaved(p, x, now)
    PROVE  StoreInv' /\ disk' = disk
<1> DEFINE b == Extend(p, x)
           e == TryApply(chain, b, now)
<1>1. status = "open" /\ status' = status /\ chain' = e /\ disk' = disk /\ WritesMayFail
  BY DEF ApplyUnsaved
<1>2. \/ e = chain
      \/ /\ Sound(e) /\ Accepted(chain, e, b)
         /\ e.tip_hash = chain.tip_hash \/ Work(e.tip_hash) > Work(chain.tip_hash)
         /\ disk.checkpoint = {} => \A k \in Known(e) : WholeHistory(k)
  BY <1>1, AcceptedInMemory
<1> HIDE DEF b, e
<1>3. /\ Sound(e) /\ e.floor_hash = chain.floor_hash
      /\ e.tip_hash = chain.tip_hash \/ Work(e.tip_hash) > Work(chain.tip_hash)
      /\ disk.checkpoint = {} => \A k \in Known(e) : WholeHistory(k)
  BY <1>2 DEF StoreInv, NeverPrunedOK, Accepted
<1>4. disk.tip # {} /\ Work(DiskTip) \in Nat /\ Work(chain.tip_hash) \in Nat
      /\ Work(e.tip_hash) \in Nat
  BY <1>1, <1>3, LegalHeader DEF StoreInv, StatusOK, DiskOK, Sound, Accounted
<1>5. DiskTip' = DiskTip /\ DiskFloor' = DiskFloor /\ Saved' = Saved
      /\ RestoreBase(disk') = RestoreBase(disk)
  BY <1>1 DEF DiskTip, DiskFloor, Saved
<1>6. StatusOK' /\ Sound(chain)' /\ DiskOK' /\ HeightsOK' /\ FloorsAgree' /\ NothingLost'
  BY <1>1, <1>3, <1>4, <1>5
     DEF StoreInv, StatusOK, DiskOK, HeightsOK, FloorsAgree, NothingLost
<1>7. NeverPrunedOK'
  BY <1>1, <1>3, <1>4, <1>5 DEF StoreInv, NeverPrunedOK, Known
<1>. QED  BY <1>1, <1>6, <1>7 DEF StoreInv

(* What a prune that goes ahead makes of the chain in memory.               *)
LEMMA PruneFields ==
    ASSUME StoreInv, NEW r, MayPrune(r),
           NEW h, h = NewFloorHeight(chain, r), NEW k, k = CheckpointAt(chain, h)
    PROVE  /\ status = "open" /\ h \in Nat /\ h > FloorHeight(chain)
           /\ Sound(Pruned(chain, h)) /\ Pruned(chain, h).floor_hash = k.hash
           /\ Pruned(chain, h).tip_hash = chain.tip_hash
           /\ Pruned(chain, h).blocks = {b \in chain.blocks : Header(b).height > h}
           /\ Recorded(k) /\ Len(k.hash) = h /\ IsBlock(k.hash)
           /\ IsPrefixOf(k.hash, chain.tip_hash) /\ IsPrefixOf(chain.floor_hash, k.hash)
<1>1. /\ status = "open" /\ h > FloorHeight(chain) /\ Sound(chain)
      /\ h \in DOMAIN chain.canonical_index /\ HasState(chain, chain.canonical_index[h])
  BY DEF StoreInv, MayPrune, CanCheckpoint
<1> DEFINE b == chain.canonical_index[h]
<1>2. /\ h \in Nat /\ b = Prefix(chain.tip_hash, h)
      /\ b \in Known(chain) /\ Legal(b) /\ Len(b) = h
      /\ IsPrefixOf(b, chain.tip_hash) /\ IsPrefixOf(chain.floor_hash, b)
      /\ StateAt(chain, b) = Replay(NoOwners, 0, b)
  BY <1>1, CanonicalBlock
<1>3. /\ k.hash = b /\ k.cumulative_work = chain.meta[b]
      /\ k.username_owner = StateAt(chain, b)
  BY DEF CheckpointAt
<1>4. Recorded(k)
  BY <1>1, <1>2, <1>3 DEF Recorded, Sound, Accounted
<1>5. FloorHeight(chain) \in Nat
  BY <1>1, LegalHeader DEF Sound, Accounted, FloorHeight
<1>6. Pruned(chain, h) = [chain EXCEPT !.blocks = {c \in @ : Header(c).height > h},
                                       !.floor_username_owner = StateAt(chain, b),
                                       !.floor_hash = b]
  BY <1>1, <1>2, <1>5 DEF Pruned
<1>7. /\ Pruned(chain, h).floor_hash = b
      /\ Pruned(chain, h).tip_hash = chain.tip_hash
      /\ Pruned(chain, h).blocks = {c \in chain.blocks : Header(c).height > h}
  BY <1>1, <1>6 DEF Sound, Accounted, Fields
<1>8. Sound(Pruned(chain, h))
  BY <1>1, PrunedIsSound
<1>9. IsBlock(b)
  BY <1>2, LegalHeader
<1>. QED  BY <1>1, <1>2, <1>3, <1>4, <1>7, <1>8, <1>9

(* prune's first transaction, whatever becomes of memory and of the bodies  *)
(* at or below the new floor.                                               *)
LEMMA CheckpointSaved ==
    ASSUME StoreInv, NEW r, MayPrune(r),
           NEW h, h = NewFloorHeight(chain, r), NEW k, k = CheckpointAt(chain, h),
           disk' = WithCheckpoint(disk, k) \/ disk' = WithoutBodies(WithCheckpoint(disk, k), h),
           \/ status' = "closed" /\ chain' = NewChain
           \/ /\ status' = status /\ chain' = Pruned(chain, h)
              /\ WritesMayFail \/ disk' = WithoutBodies(WithCheckpoint(disk, k), h)
    PROVE  /\ StoreInv' /\ disk.tip # {} /\ disk'.tip = disk.tip /\ disk'.headers = disk.headers
           /\ DiskTip' = DiskTip
           /\ RestoreBase(disk').floor_hash = k.hash
           /\ IsPrefixOf(RestoreBase(disk).floor_hash, k.hash)
           /\ ~ WritesMayFail => IsPrefixOf(k.hash, DiskTip)
<1>1. /\ status = "open" /\ h \in Nat /\ h > FloorHeight(chain)
      /\ Sound(Pruned(chain, h)) /\ Pruned(chain, h).floor_hash = k.hash
      /\ Pruned(chain, h).tip_hash = chain.tip_hash
      /\ Pruned(chain, h).blocks = {b \in chain.blocks : Header(b).height > h}
      /\ Recorded(k) /\ Len(k.hash) = h /\ IsBlock(k.hash)
      /\ IsPrefixOf(k.hash, chain.tip_hash) /\ IsPrefixOf(chain.floor_hash, k.hash)
  BY PruneFields
<1>2. /\ DOMAIN disk = {"bodies", "headers", "heights", "tip", "checkpoint", "max_height"}
      /\ disk.tip # {} /\ disk.tip = {DiskTip} /\ Legal(DiskTip) /\ Len(DiskTip) \in Nat
      /\ chain.floor_hash = RestoreBase(disk).floor_hash
      /\ DiskFloor = FloorHeight(chain) /\ DiskFloor \in Nat
  BY <1>1, BaseIsSound, LegalHeader
     DEF StoreInv, StatusOK, DiskOK, FloorsAgree, FloorHeight
<1>3. /\ DOMAIN disk' = DOMAIN disk
      /\ disk'.checkpoint = {k}
      /\ disk'.tip = disk.tip /\ disk'.headers = disk.headers
      /\ disk'.heights = disk.heights /\ disk'.max_height = disk.max_height
      /\ \/ disk'.bodies = disk.bodies
         \/ disk'.bodies = {b \in disk.bodies : Header(b).height > h}
      /\ disk' = WithoutBodies(WithCheckpoint(disk, k), h) =>
            disk'.bodies = {b \in disk.bodies : Header(b).height > h}
  BY <1>2 DEF WithCheckpoint, WithoutBodies
<1>4. /\ DiskTip' = DiskTip /\ Saved' = k /\ RestoreBase(disk') = FromCheckpoint(k)
  BY <1>3 DEF DiskTip, Saved, RestoreBase
<1>5. FromCheckpoint(k).floor_hash = k.hash /\ DiskFloor' = h
  BY <1>1, <1>4 DEF FromCheckpoint, DiskFloor, FloorHeight
<1>6. DiskOK'
  <2>1. \A b \in disk'.bodies : Legal(b)
    BY <1>3 DEF StoreInv, DiskOK
  <2>2. disk'.tip # {} /\ disk'.checkpoint # {}
    BY <1>2, <1>3
  <2>. QED  BY <1>1, <1>2, <1>3, <1>4, <2>1, <2>2 DEF StoreInv, DiskOK
<1>7. HeightsOK'
  <2>1. h..Len(DiskTip) \subseteq DiskFloor..Len(DiskTip)
    BY <1>1, <1>2
  <2>. QED  BY <1>2, <1>3, <1>4, <1>5, <2>1 DEF StoreInv, HeightsOK
<1>8. StatusOK' /\ Sound(chain)' /\ FloorsAgree'
  BY <1>1, <1>2, <1>3, <1>4, <1>5, NewChainIsSound DEF StoreInv, StatusOK, FloorsAgree
<1>9. NeverPrunedOK'
  BY <1>3 DEF NeverPrunedOK
<1>10. ~ WritesMayFail => disk.tip = {chain.tip_hash} /\ DiskTip = chain.tip_hash
  BY <1>1, <1>2 DEF StoreInv, NothingLost
<1>11. NothingLost'
  <2> SUFFICES ASSUME ~ WritesMayFail
               PROVE  NothingLost'
    BY DEF NothingLost
  <2>1. status' = "open" => /\ disk'.tip = {chain'.tip_hash}
                            /\ chain'.blocks \subseteq disk'.bodies
    <3> SUFFICES ASSUME status' = "open"
                 PROVE  /\ disk'.tip = {chain'.tip_hash}
                        /\ chain'.blocks \subseteq disk'.bodies
      OBVIOUS
    <3>1. chain' = Pruned(chain, h) /\ disk' = WithoutBodies(WithCheckpoint(disk, k), h)
      OBVIOUS
    <3>2. chain.blocks \subseteq disk.bodies
      BY <1>1 DEF StoreInv, NothingLost
    <3>. QED  BY <1>1, <1>3, <1>10, <3>1, <3>2
  <2>2. DiskTip \in DOMAIN disk.headers
        /\ \A g \in (DiskFloor + 1)..Len(DiskTip) : Prefix(DiskTip, g) \in disk.bodies
    BY <1>2 DEF StoreInv, NothingLost
  <2>3. ASSUME NEW g \in (h + 1)..Len(DiskTip)
        PROVE  Prefix(DiskTip, g) \in disk'.bodies
    <3>1. g \in (DiskFloor + 1)..Len(DiskTip) /\ g \in 0..Len(DiskTip) /\ g > h
      BY <1>1, <1>2
    <3>2. Header(Prefix(DiskTip, g)).height = g
      BY <1>2, <3>1, LegalPrefix, LegalHeader
    <3>. QED  BY <1>3, <2>2, <3>1, <3>2
  <2>4. IsPrefixOf(k.hash, DiskTip)
    BY <1>1, <1>10
  <2>. QED  BY <1>2, <1>3, <1>4, <1>5, <2>1, <2>2, <2>3, <2>4 DEF NothingLost
<1>12. /\ IsPrefixOf(RestoreBase(disk).floor_hash, k.hash)
       /\ ~ WritesMayFail => IsPrefixOf(k.hash, DiskTip)
  BY <1>1, <1>2, <1>10
<1>. QED
  BY <1>2, <1>3, <1>4, <1>5, <1>6, <1>7, <1>8, <1>9, <1>11, <1>12 DEF StoreInv

(* The three ways a prune ends are all such.                                *)
LEMMA PruneStoreStep ==
    ASSUME StoreInv, NEW r, PruneStore(r) \/ PruneCut(r) \/ PruneUnsaved(r)
    PROVE  LET k == CheckpointAt(chain, NewFloorHeight(chain, r)) IN
           /\ StoreInv' /\ disk.tip # {} /\ disk'.tip = disk.tip /\ disk'.headers = disk.headers
           /\ DiskTip' = DiskTip
           /\ RestoreBase(disk').floor_hash = k.hash
           /\ IsPrefixOf(RestoreBase(disk).floor_hash, k.hash)
           /\ ~ WritesMayFail => IsPrefixOf(k.hash, DiskTip)
<1>1. CASE PruneStore(r)
  BY <1>1, CheckpointSaved DEF PruneStore
<1>2. CASE PruneCut(r)
  BY <1>2, CheckpointSaved DEF PruneCut, PruneBegun
<1>3. CASE PruneUnsaved(r)
  BY <1>3, CheckpointSaved DEF PruneUnsaved, PruneBegun
<1>. QED  BY <1>1, <1>2, <1>3

(* A crash loses the memory and nothing else.                               *)
LEMMA CrashStep ==
    ASSUME StoreInv, Crash
    PROVE  StoreInv' /\ disk' = disk
<1>1. disk' = disk /\ status' = "closed" /\ chain' = NewChain
  BY DEF Crash
<1>2. DiskTip' = DiskTip /\ DiskFloor' = DiskFloor /\ Saved' = Saved
      /\ RestoreBase(disk') = RestoreBase(disk)
  BY <1>1 DEF DiskTip, DiskFloor, Saved
<1>3. StatusOK' /\ Sound(chain)' /\ DiskOK' /\ HeightsOK' /\ FloorsAgree' /\ NothingLost'
  BY <1>1, <1>2, NewChainIsSound
     DEF StoreInv, StatusOK, DiskOK, HeightsOK, FloorsAgree, NothingLost
<1>4. NeverPrunedOK'
  BY <1>1, <1>2, NewChainIsSound, GenesisIsWhole DEF StoreInv, NeverPrunedOK
<1>. QED  BY <1>1, <1>3, <1>4 DEF StoreInv

(* Every step of the store keeps its invariant.                             *)
LEMMA StoreStep ==
    ASSUME StoreInv, [StoreNext]_vars
    PROVE  StoreInv'
<1>1. CASE Open
  BY <1>1, OpenFresh, OpenSaved
<1>2. CASE \E p \in Seen, now \in Clocks : \E x \in Offers(chain, p) :
              Apply(p, x, now) \/ ApplyUnsaved(p, x, now)
  BY <1>2, ApplyStep, ApplyUnsavedStep
<1>3. CASE \E r \in Retentions : PruneStore(r) \/ PruneCut(r) \/ PruneUnsaved(r)
  BY <1>3, PruneStoreStep
<1>4. CASE Crash
  BY <1>4, CrashStep
<1>5. CASE UNCHANGED vars
  BY <1>5 DEF vars, StoreInv, StatusOK, DiskOK, HeightsOK, FloorsAgree, NothingLost,
              NeverPrunedOK, DiskTip, DiskFloor, Saved
<1>. QED  BY <1>1, <1>2, <1>3, <1>4, <1>5 DEF StoreNext

(* In every behaviour of the store - killed between any two transactions,   *)
(* whatever writes fail - its invariant holds.                              *)
LEMMA StoreInvariant == StoreSpec => []StoreInv
<1>1. StoreInit => StoreInv
  <2> SUFFICES ASSUME StoreInit
               PROVE  StoreInv
    OBVIOUS
  <2>1. status = "closed" /\ chain = NewChain /\ disk = EmptyDisk
    BY DEF StoreInit
  <2>2. /\ disk.tip = {} /\ disk.checkpoint = {} /\ disk.bodies = {}
        /\ DOMAIN disk.headers = {} /\ disk.max_height = 0
        /\ DOMAIN disk = {"bodies", "headers", "heights", "tip", "checkpoint", "max_height"}
    BY <2>1 DEF EmptyDisk
  <2>. QED
    BY <2>1, <2>2, NewChainIsSound, GenesisIsWhole
       DEF StoreInv, StatusOK, DiskOK, HeightsOK, FloorsAgree, NothingLost, NeverPrunedOK
<1>2. StoreInv /\ [StoreNext]_vars => StoreInv'
  BY StoreStep
<1>. QED
  BY <1>1, <1>2, PTL DEF StoreSpec

-----------------------------------------------------------------------------
(* ChainStore: what follows *)

(* A restart succeeds exactly when the saved tip descends from the          *)
(* checkpoint over saved bodies that need nothing from below it, and lands  *)
(* on that tip with the owners of its whole history, whatever writes failed *)
(* and wherever a prune was cut.                                            *)
THEOREM RestoresExactly == StoreSpec => []RestoresUnlessCut
  BY RestoresUnlessCutHolds, StoreInvariant, PTL

(* Killed at any moment, a store that never pruned and lost no write comes  *)
(* back as it was.                                                          *)
THEOREM RestartInvisible == StoreSpec => []RestartIsInvisible
  BY RestartIsInvisibleHolds, StoreInvariant, PTL

(* The durable height index is the durable tip's ancestry, also when writes *)
(* failed.                                                                  *)
THEOREM HeightIndexDurable == StoreSpec => []HeightsOK
<1>1. StoreInv => HeightsOK
  BY DEF StoreInv
<1>. QED  BY <1>1, StoreInvariant, PTL

(* While no write fails, every body a replay reads is on disk as well.      *)
THEOREM DiskComplete ==
    ASSUME ~ WritesMayFail
    PROVE  StoreSpec => []DiskHoldsItsTip
<1>1. StoreInv => DiskHoldsItsTip
  BY DiskHoldsItsTipHolds
<1>. QED  BY <1>1, StoreInvariant, PTL

DurableOwner == IF disk.tip = {} THEN NoOwners ELSE Replay(NoOwners, 0, DiskTip)
DurableFinal == RestoreBase(disk).username_owner
DurableWork == IF disk.tip = {} THEN 0 ELSE disk.headers[DiskTip]

(* A step that leaves the disk alone leaves the durable registry alone.     *)
LEMMA SameDisk ==
    ASSUME disk' = disk
    PROVE  UNCHANGED <<DurableOwner, DurableFinal, DurableWork>>
  BY DEF DurableOwner, DurableFinal, DurableWork, DiskTip

(* The durable registry is the one of the durable tip's and the checkpoint's*)
(* histories.                                                               *)
DurableHistory ==
    LET F == RestoreBase(disk).floor_hash IN
    /\ DurableOwner = Replay(NoOwners, 0, DiskTip)
    /\ DurableFinal = Replay(NoOwners, 0, F)
    /\ DurableWork = Work(DiskTip) /\ Work(DiskTip) \in Nat
    /\ Legal(DiskTip) /\ Legal(F) /\ IsBlock(F) /\ IsPrefixOf(F, DiskTip)

(* It is, in a store with a tip, while no write fails.                      *)
LEMMA DurableFields ==
    StoreInv /\ ~ WritesMayFail /\ disk.tip # {} => DurableHistory
<1> SUFFICES ASSUME StoreInv, ~ WritesMayFail, disk.tip # {}
             PROVE  DurableHistory
  OBVIOUS
<1>1. Legal(DiskTip) /\ Work(DiskTip) \in Nat
  BY LegalHeader DEF StoreInv, DiskOK
<1>2. DurableWork = Work(DiskTip) /\ IsPrefixOf(RestoreBase(disk).floor_hash, DiskTip)
  BY DEF StoreInv, NothingLost, DiskOK, DurableWork
<1>3. LET F == RestoreBase(disk).floor_hash IN
      Legal(F) /\ IsBlock(F) /\ DurableFinal = Replay(NoOwners, 0, F)
  BY BaseIsSound, LegalHeader DEF StoreInv, DurableFinal
<1>. QED  BY <1>1, <1>2, <1>3 DEF DurableOwner, DurableHistory

(* So it is after a step.                                                   *)
LEMMA DurableFieldsNext ==
    StoreInv' /\ ~ WritesMayFail /\ disk'.tip # {} => DurableHistory'
<1>1. (StoreInv /\ ~ WritesMayFail /\ disk.tip # {} => DurableHistory)'
  BY DurableFields, PTL
<1>. QED  BY <1>1

(* A step of the store is a step of the durable registry or changes nothing *)
(* in it.                                                                   *)
LEMMA DurableStep ==
    ASSUME StoreInv, StoreInv', ~ WritesMayFail, [StoreNext]_vars
    PROVE  [DurableRegistry!Next]_<<DurableOwner, DurableFinal, DurableWork>>
<1> DEFINE F == RestoreBase(disk).floor_hash
           G == RestoreBase(disk').floor_hash
<1>1. CASE disk' = disk
  BY <1>1, SameDisk
<1>2. CASE Open /\ disk.tip = {}
  <2>1. /\ DiskTip' = Genesis /\ disk'.tip # {} /\ disk'.checkpoint = disk.checkpoint
        /\ disk'.headers[Genesis] = 0
    <3>1. DiskTip' = Genesis /\ disk'.checkpoint = {} /\ disk'.headers[Genesis] = 0
      BY <1>2, OpenFresh
    <3>2. status' # "closed"
      BY <1>2 DEF Open
    <3>3. disk.checkpoint = {}
      BY <1>2 DEF StoreInv, DiskOK, EmptyDisk
    <3>. QED  BY <3>1, <3>2, <3>3 DEF StoreInv, StatusOK
  <2>2. DurableOwner' = NoOwners /\ DurableOwner = NoOwners
    BY <1>2, <2>1, NoOwnersAtGenesis DEF DurableOwner
  <2>3. DurableWork' = 0 /\ DurableWork = 0
    BY <1>2, <2>1 DEF DurableWork
  <2>4. DurableFinal' = DurableFinal
    BY <2>1 DEF DurableFinal, RestoreBase
  <2>. QED  BY <2>2, <2>3, <2>4
<1>3. ASSUME NEW p \in Seen, NEW now, NEW x \in Offers(chain, p), Apply(p, x, now),
             disk' # disk
      PROVE  [DurableRegistry!Next]_<<DurableOwner, DurableFinal, DurableWork>>
  <2>1. /\ disk.tip # {} /\ disk'.tip # {} /\ disk'.checkpoint = disk.checkpoint
        /\ DiskTip' = DiskTip \/ Work(DiskTip') > Work(DiskTip)
    BY <1>3, ApplyStep
  <2>2. G = F /\ DurableFinal' = DurableFinal
    BY <2>1 DEF RestoreBase, DurableFinal
  <2>3. /\ DurableOwner = Replay(NoOwners, 0, DiskTip)
        /\ DurableFinal = Replay(NoOwners, 0, F)
        /\ DurableWork = Work(DiskTip) /\ IsBlock(F)
    BY <2>1, DurableFields DEF DurableHistory
  <2>4. /\ DurableOwner' = Replay(NoOwners, 0, DiskTip')
        /\ DurableWork' = Work(DiskTip') /\ Legal(DiskTip') /\ IsPrefixOf(G, DiskTip')
    BY <2>1, DurableFieldsNext DEF DurableHistory
  <2>5. DurableRegistry!Includes(DurableOwner', DurableFinal)
    BY <2>2, <2>3, <2>4, LegalReplayExtends DEF DurableRegistry!Includes
  <2>6. CASE DiskTip' = DiskTip
    BY <2>2, <2>3, <2>4, <2>6
  <2>7. CASE Work(DiskTip') > Work(DiskTip)
    BY <2>2, <2>3, <2>4, <2>5, <2>7
       DEF DurableRegistry!Next, DurableRegistry!Reorganise,
           DurableOwner, DurableFinal, DurableWork
  <2>. QED  BY <2>1, <2>6, <2>7
<1>4. ASSUME NEW r, PruneStore(r) \/ PruneCut(r) \/ PruneUnsaved(r)
      PROVE  [DurableRegistry!Next]_<<DurableOwner, DurableFinal, DurableWork>>
  <2>1. /\ disk.tip # {} /\ disk'.tip = disk.tip /\ disk'.headers = disk.headers
        /\ DiskTip' = DiskTip
        /\ IsPrefixOf(F, G) /\ IsPrefixOf(G, DiskTip)
    BY <1>4, PruneStoreStep
  <2>2. DurableOwner' = DurableOwner /\ DurableWork' = DurableWork
    BY <2>1 DEF DurableOwner, DurableWork
  <2>3. /\ DurableOwner = Replay(NoOwners, 0, DiskTip)
        /\ DurableFinal = Replay(NoOwners, 0, F) /\ IsBlock(F) /\ Legal(DiskTip)
    BY <2>1, DurableFields DEF DurableHistory
  <2>4. /\ DurableFinal' = Replay(NoOwners, 0, G) /\ Legal(G) /\ IsBlock(G)
    BY <2>1, DurableFieldsNext DEF DurableHistory
  <2>5. /\ DurableRegistry!Includes(DurableFinal', DurableFinal)
        /\ DurableRegistry!Includes(DurableOwner, DurableFinal')
    BY <2>1, <2>3, <2>4, LegalReplayExtends DEF DurableRegistry!Includes
  <2>. QED
    BY <2>2, <2>5 DEF DurableRegistry!Next, DurableRegistry!Finalise,
                      DurableOwner, DurableFinal, DurableWork
<1>5. CASE Open /\ disk.tip # {}
  BY <1>1, <1>5, OpenSaved
<1>6. CASE Crash \/ UNCHANGED vars
  BY <1>1, <1>6, CrashStep DEF vars
<1>7. CASE \E p \in Seen, now \in Clocks : \E x \in Offers(chain, p) :
              Apply(p, x, now) \/ ApplyUnsaved(p, x, now)
  BY <1>1, <1>3, <1>7, ApplyUnsavedStep
<1>. QED
  BY <1>2, <1>4, <1>5, <1>6, <1>7 DEF StoreNext

(* The disk implements the registry: what was durably registered survives   *)
(* every crash, gives way only to more work, and never once it is final.    *)
THEOREM DiskRegistryCorrect ==
    ASSUME ~ WritesMayFail
    PROVE  StoreSpec => DiskImplementsRegistry
<1>1. StoreInit => DurableRegistry!Init
  BY DEF StoreInit, EmptyDisk, NoOwners, RestoreBase, NewChain, DurableRegistry!Init
<1>2. StoreInv /\ StoreInv' /\ [StoreNext]_vars =>
        [DurableRegistry!Next]_<<DurableOwner, DurableFinal, DurableWork>>
  BY DurableStep
<1>. QED
  BY <1>1, <1>2, StoreInvariant, PTL
     DEF StoreSpec, DiskImplementsRegistry, DurableRegistry!Spec,
         DurableOwner, DurableFinal, DurableWork

-----------------------------------------------------------------------------
(* ChainStore: verdicts after pruning *)

ReadWindows == {RetargetInterval, MedianWindow, AnchorMaxAge}

(* What validation of a block on p reads is at or above the height f.       *)
WindowsAbove(p, f) == f = 0 \/ \A w \in ReadWindows : Len(p) + 1 - w >= f

(* The median of the times from a height on.                                *)
MedianFrom(from, p) ==
    LET window == from..Len(p)
        Time(h) == Header(Prefix(p, h)).timestamp
        rank == (Len(p) - from + 1) \div 2
    IN  CHOOSE t \in {Time(h) : h \in window} :
            /\ Cardinality({h \in window : Time(h) < t}) <= rank
            /\ Cardinality({h \in window : Time(h) <= t}) > rank

(* A lawful block that reads nothing below f needs nothing from there.      *)
LEMMA SelfContainedAbove ==
    ASSUME NEW p, Legal(p), NEW x, NEW b, b = Extend(p, x), Lawful(b),
           NEW f \in 0..Len(p), WindowsAbove(p, f)
    PROVE  SelfContained(b, f) <=> SelfContained(b, 0)
<1>1. /\ IsBlock(p) /\ Len(p) \in Nat /\ Header(p).height = Len(p)
      /\ IsBlock(b) /\ Header(b) = x /\ Parent(b) = p /\ Len(b) = Len(p) + 1
      /\ f \in 0..Len(b) /\ 0 \in 0..Len(b) /\ f \in Nat
  BY LegalHeader, ExtendBlock
<1>2. CASE f = 0
  BY <1>2
<1>3. CASE f # 0
  <2>1. /\ RetargetInterval \in Nat /\ MedianWindow \in Nat /\ AnchorMaxAge \in Nat
        /\ Len(p) + 1 - RetargetInterval >= f
        /\ Len(p) + 1 - MedianWindow >= f
        /\ Len(p) + 1 - AnchorMaxAge >= f
    BY <1>3, BoundsAssumption DEF WindowsAbove, ReadWindows
  <2>2. IntervalStart(p) >= f /\ IntervalStart(p) >= 0
    BY <1>1, <2>1 DEF IntervalStart
  <2>3. ASSUME NEW c, FloorHeight(c) \in 0..f
        PROVE  MedianTimePast(c, p) = MedianTimePast([floor_hash |-> Prefix(b, f)], p)
    <3> DEFINE cut == [floor_hash |-> Prefix(b, f)]
               From(g) == IF Len(p) - MedianWindow + 1 > g
                          THEN Len(p) - MedianWindow + 1 ELSE g
    <3>1. FloorHeight(cut) = f
      BY <1>1, PrefixBlock DEF FloorHeight
    <3>2. From(FloorHeight(c)) = From(FloorHeight(cut))
      <4> HIDE DEF cut
      <4>. QED  BY <1>1, <2>1, <2>3, <3>1
    <3>3. ASSUME NEW d
          PROVE  MedianTimePast(d, p) = MedianFrom(From(FloorHeight(d)), p)
      BY DEF MedianTimePast, MedianFrom
    <3>4. MedianTimePast(cut, p) = MedianFrom(From(FloorHeight(cut)), p)
      BY <3>3
    <3>5. MedianTimePast(c, p) = MedianFrom(From(FloorHeight(c)), p)
      BY <3>3
    <3> HIDE DEF From
    <3>. QED  BY <3>2, <3>4, <3>5
  <2>4. FloorHeight([floor_hash |-> Prefix(b, 0)]) = 0
    BY <1>1, PrefixBlock DEF FloorHeight
  <2>5. MedianTimePast([floor_hash |-> Prefix(b, 0)], p)
          = MedianTimePast([floor_hash |-> Prefix(b, f)], p)
    BY <1>1, <2>3, <2>4
  <2>6. ASSUME NEW tx \in x.txs
        PROVE  Len(tx.anchor) >= f /\ Len(tx.anchor) >= 0
    <3>1. x.height = Len(p) + 1 /\ InItsPast(tx.anchor, p, x.height)
      BY <1>1 DEF Lawful, FollowsParent
    <3>2. PICK g \in 0..Len(p) : /\ tx.anchor = Prefix(p, g)
                                 /\ x.height - Len(tx.anchor) <= AnchorMaxAge
      BY <3>1 DEF InItsPast
    <3>3. Len(tx.anchor) = g /\ g \in Nat
      BY <1>1, <3>2, PrefixBlock
    <3>. QED  BY <1>1, <2>1, <3>1, <3>2, <3>3
  <2>. QED  BY <1>1, <2>2, <2>5, <2>6 DEF SelfContained
<1>. QED  BY <1>2, <1>3

(* The windows validation reads are above the open store's floor, or        *)
(* nothing was pruned.                                                      *)
WindowsKept == status = "open" => WindowsAbove(chain.tip_hash, FloorHeight(chain))

(* Then a node that pruned and one that did not agree.                      *)
LEMMA VerdictsAgree ==
    ASSUME StoreInv, WindowsKept
    PROVE  PruningKeepsVerdicts
<1> SUFFICES ASSUME status = "open", NEW now \in Clocks,
                    NEW x \in Offers(chain, chain.tip_hash)
             PROVE  ValidBlock(chain, Extend(chain.tip_hash, x), now)
                      <=> ValidBlock(NeverPruned(chain), Extend(chain.tip_hash, x), now)
  BY DEF PruningKeepsVerdicts
<1> DEFINE t == chain.tip_hash
           f == FloorHeight(chain)
           b == Extend(t, x)
           c == NeverPruned(chain)
<1>1. /\ Sound(chain) /\ t \in Known(chain) /\ Legal(t) /\ IsBlock(t) /\ Len(t) \in Nat
      /\ HasState(chain, t) /\ IsBlock(chain.floor_hash) /\ f \in 0..Len(t)
      /\ chain.floor_username_owner = Replay(NoOwners, 0, chain.floor_hash)
  <2>1. /\ Sound(chain) /\ t \in Known(chain) /\ Legal(t) /\ Legal(chain.floor_hash)
        /\ IsPrefixOf(chain.floor_hash, t) /\ HasState(chain, t)
        /\ chain.floor_username_owner = Replay(NoOwners, 0, chain.floor_hash)
    BY DEF StoreInv, Sound, Accounted, Complete, Indexed, Replayed
  <2>2. Len(t) \in Nat /\ f \in Nat /\ f <= Len(t)
    BY <2>1, LegalHeader DEF IsPrefixOf, FloorHeight
  <2>. QED  BY <2>1, <2>2, LegalHeader
<1>2. \A tx \in x.txs : tx.name \in Name
  BY <1>1, OffersAreTyped DEF Seen, Typed
<1>3. /\ Known(c) = {Prefix(t, h) : h \in 0..Len(t)}
      /\ c.blocks = {Prefix(t, h) : h \in 0..Len(t)}
      /\ c.floor_hash = Genesis /\ c.floor_username_owner = NoOwners
  BY DEF NeverPruned, NewChain, Known, TipHeight
<1> HIDE DEF c
<1>4. FloorHeight(c) = 0 /\ IsBlock(c.floor_hash) /\ IsPrefixOf(c.floor_hash, t)
      /\ c.floor_username_owner = Replay(NoOwners, 0, c.floor_hash)
  BY <1>1, <1>3, GenesisIsLegal, LegalHeader, GenesisIsWhole, NoOwnersAtGenesis
     DEF FloorHeight
<1>5. t \in Known(c) /\ HasState(c, t)
  <2>1. Prefix(t, Len(t)) = t /\ Len(t) \in 0..Len(t)
    BY <1>1, PrefixWhole
  <2>. QED  BY <1>1, <1>3, <1>4, <2>1 DEF HasState, HasAncestry
<1> HIDE DEF t, b
<1>6. ValidBlock(chain, b, now) <=>
         /\ Lawful(b) /\ SelfContained(b, f) /\ x.timestamp <= now + MaxFutureDrift
  BY <1>1, <1>2, Verdict DEF b
<1>7. ValidBlock(c, b, now) <=>
         /\ Lawful(b) /\ SelfContained(b, 0) /\ x.timestamp <= now + MaxFutureDrift
  BY <1>1, <1>2, <1>4, <1>5, Verdict DEF b
<1>8. WindowsAbove(t, f)
  BY DEF WindowsKept, t
<1>9. Lawful(b) => (SelfContained(b, f) <=> SelfContained(b, 0))
  BY <1>1, <1>8, SelfContainedAbove DEF b
<1>. QED  BY <1>6, <1>7, <1>9 DEF b, c, t

(* Whenever the floor is that far below the tip, pruning is invisible to    *)
(* validation, whatever failed or crashed before.                           *)
THEOREM VerdictsSurvivePruning == StoreSpec => [](WindowsKept => PruningKeepsVerdicts)
<1>1. StoreInv => (WindowsKept => PruningKeepsVerdicts)
  BY VerdictsAgree
<1>. QED  BY <1>1, StoreInvariant, PTL

(* Every block carries the same work.                                       *)
EqualWork == \A t, u \in Target : WorkOf(t) = WorkOf(u)

(* prune_with_retention is called with enough blocks to keep.               *)
RetentionCoversWindows == \A r \in Retentions : \A w \in ReadWindows : r + 1 >= w

(* With equal work, more work is more blocks.                               *)
LEMMA MoreWorkIsLonger ==
    ASSUME EqualWork, NEW a, Legal(a), NEW b, Legal(b), Work(b) > Work(a)
    PROVE  Len(b) > Len(a)
<1> SUFFICES ASSUME Len(b) <= Len(a)
             PROVE  FALSE
  BY LegalHeader
<1> DEFINE n == Len(b)
           m == Len(a)
<1>1. /\ m \in Nat /\ n \in Nat /\ n <= m
      /\ \A i \in 1..m : a[i].target \in Target
      /\ \A i \in 1..n : b[i].target \in Target
  BY LegalHeader DEF Legal, Typed
<1>2. PICK s : SumsUp(s, a) /\ Work(a) = s[m]
  BY <1>1, SumsExist
<1>3. PICK t : SumsUp(t, b) /\ Work(b) = t[n]
  BY <1>1, SumsExist
<1>4. \A i \in 0..m : s[i] = IF i = 0 THEN 0 ELSE s[i - 1] + WorkOf(a[i].target)
  BY <1>2 DEF SumsUp
<1>5. \A i \in 0..n : t[i] = IF i = 0 THEN 0 ELSE t[i - 1] + WorkOf(b[i].target)
  BY <1>3 DEF SumsUp
<1> HIDE DEF n, m
<1> DEFINE E == {i \in Nat : i <= n => s[i] = t[i] /\ s[i] \in Nat}
<1>6. 0 \in E
  <2>1. s[0] = 0 /\ t[0] = 0
    BY <1>1, <1>4, <1>5
  <2>. QED  BY <2>1
<1>7. ASSUME NEW i \in Nat, i \in E
      PROVE  i + 1 \in E
  <2> SUFFICES ASSUME i + 1 <= n
               PROVE  s[i + 1] = t[i + 1] /\ s[i + 1] \in Nat
    OBVIOUS
  <2>1. /\ i + 1 \in 0..n /\ i + 1 \in 0..m /\ i + 1 \in 1..n /\ i + 1 \in 1..m
        /\ i + 1 # 0 /\ (i + 1) - 1 = i
    BY <1>1
  <2>2. s[i] = t[i] /\ s[i] \in Nat
    BY <1>1, <1>7
  <2>3. WorkOf(a[i + 1].target) = WorkOf(b[i + 1].target)
        /\ WorkOf(a[i + 1].target) \in Nat
    BY <1>1, <2>1, WorkAssumption DEF EqualWork
  <2>. QED  BY <1>4, <1>5, <2>1, <2>2, <2>3
<1>8. Nat \subseteq E
  <2> HIDE DEF E
  <2>. QED  BY <1>6, <1>7, NatInductionOnSets
<1>9. s[n] = t[n] /\ s[n] \in Nat
  BY <1>1, <1>8
<1> HIDE DEF E
<1> DEFINE D == {i \in Nat : n + i <= m => s[n + i] \in Nat /\ s[n] <= s[n + i]}
<1>10. 0 \in D
  BY <1>1, <1>9
<1>11. ASSUME NEW i \in Nat, i \in D
       PROVE  i + 1 \in D
  <2> SUFFICES ASSUME n + (i + 1) <= m
               PROVE  s[n + (i + 1)] \in Nat /\ s[n] <= s[n + (i + 1)]
    OBVIOUS
  <2>1. /\ n + (i + 1) \in 0..m /\ n + (i + 1) \in 1..m /\ n + (i + 1) # 0
        /\ (n + (i + 1)) - 1 = n + i /\ n + i <= m
    BY <1>1
  <2>2. s[n + i] \in Nat /\ s[n] <= s[n + i]
    BY <1>11, <2>1
  <2>3. s[n + (i + 1)] = s[n + i] + WorkOf(a[n + (i + 1)].target)
    BY <1>4, <2>1
  <2>4. WorkOf(a[n + (i + 1)].target) \in Nat
    BY <1>1, <2>1, WorkAssumption
  <2>. QED  BY <1>9, <2>2, <2>3, <2>4
<1>12. Nat \subseteq D
  <2> HIDE DEF D
  <2>. QED  BY <1>10, <1>11, NatInductionOnSets
<1>13. m - n \in Nat /\ n + (m - n) = m
  BY <1>1
<1>14. s[n] <= s[m] /\ s[m] \in Nat
  BY <1>1, <1>12, <1>13
<1>. QED  BY <1>2, <1>3, <1>9, <1>14 DEF n, m

(* The durable tip stays as far above the checkpoint as pruning left it.    *)
DiskTall ==
    disk.checkpoint # {} => \A w \in ReadWindows : Len(DiskTip) + 1 - w >= DiskFloor

(* It does, when branches with more work are longer.                        *)
LEMMA DiskTallStep ==
    ASSUME EqualWork, RetentionCoversWindows, ~ WritesMayFail,
           StoreInv, StoreInv', DiskTall, [StoreNext]_vars
    PROVE  DiskTall'
<1>0. ReadWindows \subseteq Nat /\ Retentions \subseteq Nat
  BY BoundsAssumption, StoreAssumption DEF ReadWindows
<1>1. CASE disk' = disk
  BY <1>1 DEF DiskTall, DiskTip, DiskFloor
<1>2. CASE Open /\ disk.tip = {}
  BY <1>2, OpenFresh DEF DiskTall
<1>3. ASSUME NEW p \in Seen, NEW now, NEW x \in Offers(chain, p), Apply(p, x, now),
             disk' # disk
      PROVE  DiskTall'
  <2>1. /\ disk.tip # {} /\ disk'.tip # {} /\ disk'.checkpoint = disk.checkpoint
        /\ DiskTip' = DiskTip \/ Work(DiskTip') > Work(DiskTip)
    BY <1>3, ApplyStep
  <2>2. Legal(DiskTip)
    BY <2>1 DEF StoreInv, DiskOK
  <2>3. Legal(DiskTip')
    BY <2>1 DEF StoreInv, DiskOK
  <2>4. Len(DiskTip') >= Len(DiskTip) /\ Len(DiskTip') \in Nat /\ Len(DiskTip) \in Nat
    BY <2>1, <2>2, <2>3, LegalHeader, MoreWorkIsLonger
  <2>5. DiskFloor' = DiskFloor /\ DiskFloor \in Nat
    BY <2>1, BaseIsSound DEF StoreInv, DiskFloor, RestoreBase
  <2>. QED  BY <1>0, <2>1, <2>4, <2>5 DEF DiskTall
<1>4. ASSUME NEW r \in Retentions, PruneStore(r) \/ PruneCut(r) \/ PruneUnsaved(r)
      PROVE  DiskTall'
  <2> DEFINE h == NewFloorHeight(chain, r)
             k == CheckpointAt(chain, h)
  <2>1. disk.tip # {} /\ DiskTip' = DiskTip /\ RestoreBase(disk').floor_hash = k.hash
    BY <1>4, PruneStoreStep
  <2>2. MayPrune(r)
    BY <1>4 DEF PruneStore, PruneCut, PruneUnsaved
  <2>3. status = "open" /\ Len(k.hash) = h /\ h \in Nat
    BY <2>2, PruneFields
  <2>4. DiskTip = chain.tip_hash
    BY <2>1, <2>3 DEF StoreInv, NothingLost, DiskOK
  <2>5. Len(DiskTip) \in Nat
    BY <2>1, LegalHeader DEF StoreInv, DiskOK
  <2>6. DiskFloor' = Len(DiskTip) - r
    BY <2>1, <2>3, <2>4 DEF DiskFloor, FloorHeight, NewFloorHeight, TipHeight
  <2> HIDE DEF h, k
  <2>7. \A w \in ReadWindows : Len(DiskTip) + 1 - w >= Len(DiskTip) - r
    BY <1>0, <2>5 DEF RetentionCoversWindows
  <2>. QED  BY <2>1, <2>6, <2>7 DEF DiskTall
<1>5. CASE Open /\ disk.tip # {}
  BY <1>1, <1>5, OpenSaved
<1>6. CASE Crash \/ UNCHANGED vars
  BY <1>1, <1>6, CrashStep DEF vars
<1>7. CASE \E p \in Seen, now \in Clocks : \E x \in Offers(chain, p) :
              Apply(p, x, now) \/ ApplyUnsaved(p, x, now)
  BY <1>1, <1>3, <1>7, ApplyUnsavedStep
<1>. QED
  BY <1>2, <1>4, <1>5, <1>6, <1>7 DEF StoreNext

(* A node that keeps as many blocks as validation reads, and that loses no  *)
(* write, gives the verdicts of one that never pruned: after every reorg,   *)
(* prune, crash and restart.                                                *)
THEOREM PruningInvisible ==
    ASSUME EqualWork, RetentionCoversWindows, ~ WritesMayFail
    PROVE  StoreSpec => []PruningKeepsVerdicts
<1>1. StoreInit => DiskTall
  BY DEF StoreInit, EmptyDisk, DiskTall
<1>2. StoreInv /\ StoreInv' /\ DiskTall /\ [StoreNext]_vars => DiskTall'
  BY DiskTallStep
<1>3. StoreInv /\ DiskTall => PruningKeepsVerdicts
  <2> SUFFICES ASSUME StoreInv, DiskTall, status = "open"
               PROVE  PruningKeepsVerdicts
    BY DEF PruningKeepsVerdicts
  <2>1. disk.tip # {} /\ DiskTip = chain.tip_hash /\ DiskFloor = FloorHeight(chain)
    BY BaseIsSound
       DEF StoreInv, StatusOK, DiskOK, NothingLost, FloorsAgree, FloorHeight
  <2>2. disk.checkpoint = {} => FloorHeight(chain) = 0
    BY BaseIsSound, GenesisIsLegal DEF StoreInv, FloorsAgree, FloorHeight
  <2>3. WindowsKept
    BY <2>1, <2>2 DEF DiskTall, WindowsKept, WindowsAbove
  <2>. QED  BY <2>3, VerdictsAgree
<1>. QED
  BY <1>1, <1>2, <1>3, StoreInvariant, PTL DEF StoreSpec

===============================================================================
