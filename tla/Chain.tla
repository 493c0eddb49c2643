-------------------------------- MODULE Chain --------------------------------
(***************************************************************************)
(* ledger-core's Chain as a state machine: blocks arrive in any order, on   *)
(* any parent, well formed or not, and the owner of the value may prune at  *)
(* any canonical height.                                                    *)
(***************************************************************************)
EXTENDS ChainState

CONSTANTS
    Times,          \* timestamps blocks carry
    Clocks,         \* readings of the wall clock: try_apply's `now`
    HeightSteps,    \* what a candidate adds to its parent's height (1 is right)
    Seals,          \* values of `sealed` candidates carry
    MaxHeight,      \* bound: no candidate above this height
    MaxBlocks       \* bound: no candidate once this many blocks are known

ASSUME TimesAssumption == Times \subseteq Nat /\ Clocks \subseteq Nat

VARIABLE chain      \* the Chain value

Init == chain = NewChain

(* No claim, one claim or two, anchored at any block this node knows.       *)
ClaimSets(c) == {{}} \cup {{t, u} : t, u \in Claim(Known(c))}

(* Parents a candidate may name: every known block and, on each of them, a  *)
(* block that was never received.                                           *)
Parents(c) ==
    Known(c) \cup
    {Extend(p, [Header(p) EXCEPT !.height = @ + 1, !.txs = {}]) : p \in Known(c)}

Candidates(c, p) ==
    [height : {Len(p) + e : e \in HeightSteps}, timestamp : Times,
     target : Target, txs : ClaimSets(c), sealed : Seals]

(* Chain::try_apply.  The wall clock may be set back, so `now` is any reading. *)
Receive(p, x, now) ==
    /\ Cardinality(Known(chain)) < MaxBlocks
    /\ Len(p) < MaxHeight
    /\ chain' = TryApply(chain, Extend(p, x), now)

(* Chain::prune_bodies_up_to *)
Prune(h) == chain' = Pruned(chain, h)

Next ==
    \/ \E p \in Parents(chain), now \in Clocks :
          \E x \in Candidates(chain, p) : Receive(p, x, now)
    \/ \E h \in 1..MaxHeight : Prune(h)

Spec == Init /\ [][Next]_chain

-----------------------------------------------------------------------------
(* Properties *)

(* The types of the fields; every known block is a sequence of headers with *)
(* the height field its position says.                                      *)
TypeOK ==
    /\ DOMAIN chain = {"meta", "blocks", "tip_hash", "canonical_index",
                       "username_owner", "floor_hash", "floor_username_owner"}
    /\ \A b \in Known(chain) :
          /\ IsBlock(b)
          /\ chain.meta[b] \in Nat
          /\ \A i \in 1..Len(b) : /\ b[i].height = i
                                  /\ b[i].timestamp \in Nat
                                  /\ b[i].target \in Target
                                  /\ \A tx \in b[i].txs : tx.name \in Name
    /\ chain.blocks \subseteq Known(chain)
    /\ chain.tip_hash \in Known(chain)
    /\ chain.floor_hash \in Known(chain)

(* Fork choice: no block this node has accepted carries more work than the  *)
(* canonical tip (chain_state.rs:372-378).                                  *)
TipIsHeaviest == \A b \in Known(chain) : chain.meta[b] <= TipWork(chain)

(* The canonical index names, at every height from the floor to the tip,    *)
(* the tip's own ancestor, and nothing above the tip, whatever reorg or     *)
(* prune came before (chain_state.rs:387-396).                              *)
CanonicalIndexIsTipAncestry ==
    /\ IsPrefixOf(chain.floor_hash, chain.tip_hash)
    /\ FloorHeight(chain)..TipHeight(chain) \subseteq DOMAIN chain.canonical_index
    /\ \A h \in DOMAIN chain.canonical_index :
          /\ h \in 0..TipHeight(chain)
          /\ chain.canonical_index[h] = Prefix(chain.tip_hash, h)

(* Pruning is invisible in the answers: the owner view is what replaying    *)
(* the whole history from genesis would give, and so is the floor snapshot  *)
(* (chain_state.rs:241-252, 280-299).                                       *)
OwnersAreWholeHistory ==
    /\ chain.username_owner = Replay(NoOwners, 0, chain.tip_hash)
    /\ chain.floor_username_owner = Replay(NoOwners, 0, chain.floor_hash)

(* No acceptance can stop half way: every known block that descends from    *)
(* the floor still has every body state_at reads, so a heavier branch can   *)
(* always be made canonical after its block was stored                      *)
(* (chain_state.rs:360-378, 286).                                           *)
BodiesAvailable ==
    \A b \in Known(chain) : HasAncestry(chain, b) => HasState(chain, b)

(* Nothing known is missing a predecessor or, above the floor, a body.      *)
KnownIsClosed ==
    \A b \in Known(chain) :
        /\ \A h \in 0..Len(b) : Prefix(b, h) \in Known(chain)
        /\ Len(b) > FloorHeight(chain) => b \in chain.blocks

(* First claim wins: along the history of any accepted block, on any        *)
(* branch and across pruning, a username is claimed at most once            *)
(* (validation.rs:124-129).                                                 *)
FirstClaimWins ==
    \A b \in Known(chain) : \A n \in Name :
        /\ \A g, h \in ClaimHeights(b, 0, n) : g = h
        /\ \A h \in ClaimHeights(b, 0, n) :
              \A t, u \in b[h].txs : t.name = n /\ u.name = n => t = u

(* A claim counts only on the branch it was signed for: its anchor is in    *)
(* the including block's own past and at most AnchorMaxAge below it         *)
(* (transaction.rs:38-43, validation.rs:116-122).                           *)
ClaimsAnchoredInOwnHistory ==
    \A b \in Known(chain) : \A h \in 1..Len(b) : \A tx \in b[h].txs :
        /\ tx.anchor # b
        /\ IsPrefixOf(tx.anchor, Prefix(b, h - 1))
        /\ h - Len(tx.anchor) <= AnchorMaxAge

(* The median a block must exceed never goes back along a branch, so a      *)
(* later block cannot reopen times already ruled out                        *)
(* (chain_state.rs:301-312); about chains never pruned.                     *)
MedianNeverGoesBack ==
    chain.floor_hash = Genesis =>
        \A b \in Known(chain) \ {Genesis} :
            MedianTimePast(chain, b) >= MedianTimePast(chain, Parent(b))

(* Fork choice, index and bodies, and ownership hold each other up; what    *)
(* makes them inductive is in ChainProofs.                                  *)
IInv ==
    /\ TypeOK
    /\ KnownIsClosed
    /\ TipIsHeaviest
    /\ CanonicalIndexIsTipAncestry
    /\ FirstClaimWins
    /\ OwnersAreWholeHistory

(* The tip moves only to strictly more work: on a tie the branch seen       *)
(* first stays canonical, and no prune moves the tip (chain_state.rs:373).  *)
TipMovesOnlyToMoreWork ==
    [][chain'.tip_hash # chain.tip_hash => TipWork(chain') > TipWork(chain)]_chain

(* A name changes hands only by a reorg: when the new tip extends the old   *)
(* one, every owner recorded before is recorded still.                      *)
OwnersStableWithoutReorg ==
    [][IsPrefixOf(chain.tip_hash, chain'.tip_hash) =>
          \A n \in DOMAIN chain.username_owner :
              /\ n \in DOMAIN chain'.username_owner
              /\ chain'.username_owner[n] = chain.username_owner[n]]_chain

(* What the floor snapshot says is final: no later reorg takes a name back  *)
(* that was owned at the floor.                                             *)
FloorIsFinal ==
    [][/\ IsPrefixOf(chain.floor_hash, chain'.floor_hash)
       /\ \A n \in DOMAIN chain.floor_username_owner :
              /\ n \in DOMAIN chain'.username_owner
              /\ chain'.username_owner[n] = chain.floor_username_owner[n]]_chain

(* The ledger implements the registry: what the app looks up, what pruning  *)
(* made final, and the work behind both.                                    *)
Registry == INSTANCE UsernameRegistry
    WITH owner <- chain.username_owner,
         final <- chain.floor_username_owner,
         work  <- TipWork(chain)

ImplementsRegistry == Registry!Spec
===============================================================================
