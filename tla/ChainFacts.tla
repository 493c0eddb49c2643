------------------------------ MODULE ChainFacts ------------------------------
(* Proofs about the values of ChainState: what holds of every chain value   *)
(* and of every operation on it (Sound), whoever keeps it.                  *)
EXTENDS ChainState, DataFacts

(* Prefixes of a block are blocks, of the length asked for.                 *)
LEMMA PrefixBlock ==
    ASSUME NEW b, IsBlock(b), NEW n \in 0..Len(b)
    PROVE  /\ IsBlock(Prefix(b, n))
           /\ Len(Prefix(b, n)) = n
           /\ \A i \in 1..n : Prefix(b, n)[i] = b[i]
<1>1. n \in Nat
  BY DEF IsBlock
<1>2. Prefix(b, n) = [i \in 1..n |-> Prefix(b, n)[i]]
  BY DEF Prefix
<1>3. Len(Prefix(b, n)) = n
  BY <1>1, <1>2, FunctionLen
<1>. QED
  BY <1>1, <1>2, <1>3 DEF IsBlock, Prefix

(* A prefix of a prefix is a prefix.                                        *)
LEMMA PrefixPrefix ==
    ASSUME NEW b, IsBlock(b), NEW n \in 0..Len(b), NEW m \in 0..n
    PROVE  Prefix(Prefix(b, n), m) = Prefix(b, m)
  BY DEF Prefix, IsBlock

(* The longest prefix is the block itself.                                  *)
LEMMA PrefixWhole ==
    ASSUME NEW b, IsBlock(b)
    PROVE  Prefix(b, Len(b)) = b
  BY DEF Prefix, IsBlock

(* What extending a block gives: a block one higher, whose proper prefixes  *)
(* are those of the block it extends.                                       *)
LEMMA ExtendBlock ==
    ASSUME NEW p, IsBlock(p), NEW x
    PROVE  /\ IsBlock(Extend(p, x))
           /\ Len(Extend(p, x)) = Len(p) + 1
           /\ Extend(p, x) # Genesis
           /\ Header(Extend(p, x)) = x
           /\ \A i \in 1..Len(p) : Extend(p, x)[i] = p[i]
           /\ Extend(p, x)[Len(p) + 1] = x
           /\ \A h \in 0..Len(p) : Prefix(Extend(p, x), h) = Prefix(p, h)
           /\ Parent(Extend(p, x)) = p
<1> DEFINE e == Extend(p, x)
<1>1. Len(p) \in Nat /\ Len(p) + 1 \in Nat
  BY DEF IsBlock
<1>2. e = [i \in 1..(Len(p) + 1) |-> e[i]]
  BY DEF Extend
<1>3. Len(e) = Len(p) + 1
  <2> HIDE DEF e
  <2>. QED  BY <1>1, <1>2, FunctionLen
<1>4. IsBlock(e)
  BY <1>1, <1>2, <1>3 DEF IsBlock
<1>5. \A i \in 1..Len(p) : e[i] = p[i]
  BY <1>1 DEF Extend
<1>6. e[Len(p) + 1] = x
  BY <1>1 DEF Extend
<1>7. \A h \in 0..Len(p) : Prefix(e, h) = Prefix(p, h)
  <2> HIDE DEF e
  <2>. QED  BY <1>1, <1>5 DEF Prefix
<1>8. e # Genesis
  <2> HIDE DEF e
  <2>1. Len(Genesis) = 0
    BY DEF Genesis
  <2>. QED  BY <1>1, <1>3, <2>1
<1>9. Header(e) = x
  <2> HIDE DEF e
  <2>. QED  BY <1>3, <1>6, <1>8 DEF Header
<1>10. Parent(e) = p
  <2>1. Prefix(e, Len(p)) = Prefix(p, Len(p))
    BY <1>1, <1>7
  <2> HIDE DEF e
  <2>2. Prefix(p, Len(p)) = p
    BY PrefixWhole
  <2>3. Len(e) - 1 = Len(p)
    BY <1>1, <1>3
  <2>. QED  BY <2>1, <2>2, <2>3 DEF Parent
<1>. QED
  BY <1>3, <1>4, <1>5, <1>6, <1>7, <1>8, <1>9, <1>10

-----------------------------------------------------------------------------
(* Replaying claims *)

(* Which heights claim a name, split at lo.                                 *)
LEMMA ClaimHeightsSplit ==
    ASSUME NEW b, IsBlock(b), NEW lo \in 0..Len(b), NEW n
    PROVE  /\ ClaimHeights(Prefix(b, lo), 0, n) = {h \in ClaimHeights(b, 0, n) : h <= lo}
           /\ ClaimHeights(b, lo, n) = {h \in ClaimHeights(b, 0, n) : h > lo}
<1>1. Len(b) \in Nat /\ lo \in Nat
  BY DEF IsBlock
<1>2. /\ Len(Prefix(b, lo)) = lo
      /\ \A i \in 1..lo : Prefix(b, lo)[i] = b[i]
  BY PrefixBlock
<1>. QED
  BY <1>1, <1>2 DEF ClaimHeights

(* A history replayed up to lo, then on from there as far as b, gives what   *)
(* replaying it in one go gives, when no name is claimed twice along it.    *)
LEMMA ReplayCompose ==
    ASSUME NEW b, IsBlock(b), NEW lo \in 0..Len(b),
           \A n \in Name : \A g, h \in ClaimHeights(b, 0, n) : g = h
    PROVE  Replay(Replay(NoOwners, 0, Prefix(b, lo)), lo, b) = Replay(NoOwners, 0, b)
<1> DEFINE a == Prefix(b, lo)
           base == Replay(NoOwners, 0, a)
           Top(hs) == CHOOSE h \in hs : \A g \in hs : g <= h
<1>1. Len(b) \in Nat /\ lo \in Nat
  BY DEF IsBlock
<1>0. ASSUME NEW n
      PROVE  /\ ClaimHeights(b, 0, n) \subseteq 1..Len(b)
             /\ ClaimHeights(a, 0, n) = {h \in ClaimHeights(b, 0, n) : h <= lo}
             /\ ClaimHeights(b, lo, n) = {h \in ClaimHeights(b, 0, n) : h > lo}
  <2>1. ClaimHeights(b, 0, n) \subseteq 1..Len(b)
    BY <1>1 DEF ClaimHeights
  <2>. QED  BY <2>1, ClaimHeightsSplit
<1>2. \A n : ClaimHeights(a, 0, n) \cup ClaimHeights(b, lo, n) = ClaimHeights(b, 0, n)
  <2> SUFFICES ASSUME NEW n
               PROVE  ClaimHeights(a, 0, n) \cup ClaimHeights(b, lo, n) = ClaimHeights(b, 0, n)
    OBVIOUS
  <2> HIDE DEF a
  <2>. QED  BY <1>0, <1>1
<1>3. ClaimedNames(a, 0) \cup ClaimedNames(b, lo) = ClaimedNames(b, 0)
  BY <1>2 DEF ClaimedNames
<1>4. DOMAIN base = ClaimedNames(a, 0)
  BY DEF Replay, NoOwners
<1>5. ASSUME NEW n \in ClaimedNames(b, 0)
      PROVE  Replay(base, lo, b)[n] = Replay(NoOwners, 0, b)[n]
  <2>1. Replay(NoOwners, 0, b)[n] = UsernameOwner(b, Top(ClaimHeights(b, 0, n)), n)
    BY <1>5 DEF Replay, NoOwners, ClaimedNames
  <2>2. CASE ClaimHeights(b, lo, n) # {}
    <3>1. ClaimHeights(b, lo, n) = ClaimHeights(b, 0, n)
      BY <1>2, <1>5, <2>2 DEF ClaimedNames
    <3>2. n \in ClaimedNames(b, lo)
      BY <1>5, <2>2 DEF ClaimedNames
    <3>3. Replay(base, lo, b)[n] = UsernameOwner(b, Top(ClaimHeights(b, lo, n)), n)
      BY <2>2, <3>2 DEF Replay
    <3>. QED  BY <2>1, <3>1, <3>3
  <2>3. CASE ClaimHeights(b, lo, n) = {}
    <3>1. ClaimHeights(a, 0, n) = ClaimHeights(b, 0, n)
      BY <1>2, <2>3
    <3>2. n \in ClaimedNames(a, 0)
      BY <1>5, <3>1 DEF ClaimedNames
    <3>3. Replay(base, lo, b)[n] = base[n]
      BY <1>4, <2>3, <3>2 DEF Replay
    <3>4. base[n] = UsernameOwner(a, Top(ClaimHeights(a, 0, n)), n)
      BY <3>2 DEF Replay, NoOwners, ClaimedNames
    <3>5. PICK k : ClaimHeights(a, 0, n) = {k} /\ k \in 1..lo
      <4>1. PICK k : k \in ClaimHeights(a, 0, n)
        BY <3>2 DEF ClaimedNames
      <4>2. ClaimHeights(a, 0, n) = {k}
        BY <1>5, <3>1, <4>1 DEF ClaimedNames
      <4>3. k \in 1..lo
        <5> HIDE DEF a
        <5>. QED  BY <1>0, <1>1, <4>1
      <4>. QED  BY <4>2, <4>3
    <3>6. Top(ClaimHeights(a, 0, n)) = k
      BY <1>1, <3>5
    <3>7. UsernameOwner(a, k, n) = UsernameOwner(b, k, n)
      <4>1. a[k] = b[k]
        BY <3>5, PrefixBlock
      <4>2. Prefix(a, k) = Prefix(b, k)
        BY <1>1, <3>5, PrefixPrefix
      <4>. QED  BY <4>1, <4>2 DEF UsernameOwner
    <3>. QED  BY <2>1, <3>1, <3>3, <3>4, <3>6, <3>7
  <2>. QED  BY <2>2, <2>3
<1>6. DOMAIN Replay(base, lo, b) = ClaimedNames(b, 0)
  BY <1>3, <1>4 DEF Replay
<1>7. DOMAIN Replay(NoOwners, 0, b) = ClaimedNames(b, 0)
  BY DEF Replay, NoOwners
<1>8. Replay(base, lo, b) = [n \in ClaimedNames(b, 0) |-> Replay(base, lo, b)[n]]
  BY <1>6 DEF Replay
<1>9. Replay(NoOwners, 0, b) = [n \in ClaimedNames(b, 0) |-> Replay(NoOwners, 0, b)[n]]
  BY <1>7 DEF Replay
<1>. QED
  BY <1>5, <1>8, <1>9

(* The heights that claim a name are heights.                               *)
LEMMA ClaimHeightsAreHeights ==
    ASSUME NEW b, IsBlock(b), NEW n
    PROVE  ClaimHeights(b, 0, n) \subseteq 1..Len(b)
  BY DEF ClaimHeights, IsBlock

-----------------------------------------------------------------------------
(* Cumulative work *)

(* The work behind a block, from genesis on.                                *)
Work(b) ==
    LET sum[i \in 0..Len(b)] == IF i = 0 THEN 0 ELSE sum[i - 1] + WorkOf(b[i].target)
    IN  sum[Len(b)]

(* s adds up the work of b's headers one by one.                            *)
SumsUp(s, b) ==
    s = [i \in 0..Len(b) |-> IF i = 0 THEN 0 ELSE s[i - 1] + WorkOf(b[i].target)]

(* There are such sums for every block.                                     *)
LEMMA SumsExist ==
    ASSUME NEW b, Len(b) \in Nat
    PROVE  \E s : SumsUp(s, b) /\ Work(b) = s[Len(b)]
<1> DEFINE Upto(n, s) ==
              s = [i \in 0..n |-> IF i = 0 THEN 0 ELSE s[i - 1] + WorkOf(b[i].target)]
           K == {n \in Nat : \E s : Upto(n, s)}
<1>1. 0 \in K
  <2> DEFINE s == [i \in 0..0 |-> 0]
  <2>1. Upto(0, s)
    OBVIOUS
  <2> HIDE DEF s, Upto
  <2>. QED  BY <2>1
<1>2. ASSUME NEW n \in Nat, n \in K
      PROVE  n + 1 \in K
  <2>1. PICK s : Upto(n, s)
    BY <1>2
  <2> DEFINE t == [i \in 0..(n + 1) |->
                      IF i = n + 1 THEN s[n] + WorkOf(b[n + 1].target) ELSE s[i]]
  <2>2. \A i \in 0..n : t[i] = s[i]
    OBVIOUS
  <2>3. t[n + 1] = s[n] + WorkOf(b[n + 1].target)
    OBVIOUS
  <2>4. \A i \in 0..n : s[i] = IF i = 0 THEN 0 ELSE s[i - 1] + WorkOf(b[i].target)
    BY <2>1
  <2>5. t = [i \in 0..(n + 1) |-> t[i]]
    OBVIOUS
  <2> HIDE DEF t
  <2>6. \A i \in 0..(n + 1) :
           t[i] = IF i = 0 THEN 0 ELSE t[i - 1] + WorkOf(b[i].target)
    <3> SUFFICES ASSUME NEW i \in 0..(n + 1)
                 PROVE  t[i] = IF i = 0 THEN 0 ELSE t[i - 1] + WorkOf(b[i].target)
      OBVIOUS
    <3>1. CASE i = n + 1
      BY <2>2, <2>3, <3>1
    <3>2. CASE i \in 1..n
      <4>1. i - 1 \in 0..n /\ i \in 0..n /\ i # 0
        BY <3>2
      <4>. QED  BY <2>2, <2>4, <4>1
    <3>3. CASE i = 0
      BY <2>2, <2>4, <3>3
    <3>. QED  BY <3>1, <3>2, <3>3
  <2>7. Upto(n + 1, t)
    BY <2>5, <2>6
  <2> HIDE DEF Upto
  <2>. QED  BY <2>7
<1>3. Nat \subseteq K
  <2> HIDE DEF K
  <2>. QED  BY <1>1, <1>2, NatInductionOnSets
<1> DEFINE s == CHOOSE t : Upto(Len(b), t)
<1>4. Upto(Len(b), s)
  <2> HIDE DEF Upto
  <2>. QED  BY <1>3
<1>5. Work(b) = s[Len(b)]
  BY DEF Work
<1> HIDE DEF s
<1>. QED  BY <1>4, <1>5 DEF SumsUp

(* Genesis has no work behind it.                                           *)
LEMMA WorkOfGenesis == Work(Genesis) = 0
<1>1. Len(Genesis) = 0
  BY DEF Genesis
<1>2. PICK s : SumsUp(s, Genesis) /\ Work(Genesis) = s[0]
  BY <1>1, SumsExist
<1>. QED  BY <1>1, <1>2 DEF SumsUp

(* A block adds its own work to its parent's.                               *)
LEMMA WorkOfExtend ==
    ASSUME NEW p, IsBlock(p), NEW x
    PROVE  Work(Extend(p, x)) = Work(p) + WorkOf(x.target)
<1> DEFINE b == Extend(p, x)
           n == Len(p)
<1>1. /\ n \in Nat /\ Len(b) = n + 1 /\ b[n + 1] = x
      /\ \A i \in 1..n : b[i] = p[i]
  BY ExtendBlock DEF IsBlock
<1> HIDE DEF b
<1>2. PICK s : SumsUp(s, p) /\ Work(p) = s[n]
  BY <1>1, SumsExist
<1>3. PICK t : SumsUp(t, b) /\ Work(b) = t[n + 1]
  <2>1. Len(b) \in Nat
    BY <1>1
  <2>. QED  BY <1>1, <2>1, SumsExist
<1> DEFINE E == {i \in Nat : i <= n => s[i] = t[i]}
<1>4. \A i \in 0..n : s[i] = IF i = 0 THEN 0 ELSE s[i - 1] + WorkOf(p[i].target)
  BY <1>2 DEF SumsUp
<1>5. \A i \in 0..(n + 1) : t[i] = IF i = 0 THEN 0 ELSE t[i - 1] + WorkOf(b[i].target)
  BY <1>1, <1>3 DEF SumsUp
<1>6. 0 \in E
  <2>1. s[0] = 0 /\ t[0] = 0
    BY <1>1, <1>4, <1>5
  <2>. QED  BY <2>1
<1>7. ASSUME NEW i \in Nat, i \in E
      PROVE  i + 1 \in E
  <2> SUFFICES ASSUME i + 1 <= n
               PROVE  s[i + 1] = t[i + 1]
    OBVIOUS
  <2>1. s[i] = t[i] /\ b[i + 1] = p[i + 1]
    BY <1>1, <1>7
  <2>2. i + 1 \in 0..n /\ i + 1 \in 0..(n + 1) /\ i + 1 # 0 /\ (i + 1) - 1 = i
    BY <1>1
  <2>3. s[i + 1] = s[i] + WorkOf(p[i + 1].target)
    BY <1>4, <2>2
  <2>4. t[i + 1] = t[i] + WorkOf(b[i + 1].target)
    BY <1>5, <2>2
  <2>. QED  BY <2>1, <2>3, <2>4
<1>8. Nat \subseteq E
  <2> HIDE DEF E
  <2>. QED  BY <1>6, <1>7, NatInductionOnSets
<1>9. s[n] = t[n]
  BY <1>1, <1>8
<1>10. t[n + 1] = t[n] + WorkOf(x.target)
  BY <1>1, <1>5
<1>. QED  BY <1>2, <1>3, <1>9, <1>10 DEF b

(* The work behind a block is a natural number.                             *)
LEMMA WorkIsNat ==
    ASSUME NEW b, Len(b) \in Nat, \A i \in 1..Len(b) : b[i].target \in Target
    PROVE  Work(b) \in Nat
<1>1. PICK s : SumsUp(s, b) /\ Work(b) = s[Len(b)]
  BY SumsExist
<1> DEFINE E == {i \in Nat : i <= Len(b) => s[i] \in Nat}
<1>2. \A i \in 0..Len(b) : s[i] = IF i = 0 THEN 0 ELSE s[i - 1] + WorkOf(b[i].target)
  BY <1>1 DEF SumsUp
<1>3. 0 \in E
  <2>1. s[0] = 0
    BY <1>2
  <2>. QED  BY <2>1
<1>4. ASSUME NEW i \in Nat, i \in E
      PROVE  i + 1 \in E
  <2> SUFFICES ASSUME i + 1 <= Len(b)
               PROVE  s[i + 1] \in Nat
    OBVIOUS
  <2>1. s[i] \in Nat /\ WorkOf(b[i + 1].target) \in Nat
    BY <1>4, WorkAssumption
  <2>2. i + 1 \in 0..Len(b) /\ i + 1 # 0 /\ (i + 1) - 1 = i
    OBVIOUS
  <2>3. s[i + 1] = s[i] + WorkOf(b[i + 1].target)
    BY <1>2, <2>2
  <2>. QED  BY <2>1, <2>3
<1>5. Nat \subseteq E
  <2> HIDE DEF E
  <2>. QED  BY <1>3, <1>4, NatInductionOnSets
<1>. QED  BY <1>1, <1>5

-----------------------------------------------------------------------------
(* Blocks that are valid in their own history *)

(* The headers' fields are what a header can carry.                         *)
Typed(x) ==
    /\ x.timestamp \in Nat
    /\ x.target \in Target
    /\ \A tx \in x.txs : tx.name \in Name

(* The anchor is an ancestor of p, no further below height than AnchorMaxAge. *)
InItsPast(anchor, p, height) ==
    \E h \in 0..Len(p) : anchor = Prefix(p, h) /\ height - Len(anchor) <= AnchorMaxAge

(* What validation asks of a block that no floor has a say in: its size,    *)
(* its seal, its height, its target, its anchors and its names, all of them *)
(* read off its own ancestry.                                               *)
Lawful(b) ==
    LET p == Parent(b)
        x == Header(b)
    IN  /\ Cardinality(x.txs) <= MaxTxs
        /\ x.sealed
        /\ FollowsParent(x, p)
        /\ OnRetargetBoundary(p) => IntervalStart(p) >= 0
        /\ x.target = ExpectedDifficulty(p)
        /\ \A tx \in x.txs : /\ InItsPast(tx.anchor, p, x.height)
                             /\ ClaimHeights(p, 0, tx.name) = {}
        /\ \A t, u \in x.txs : t.name = u.name => t = u

Legal(b) ==
    /\ IsBlock(b)
    /\ \A i \in 1..Len(b) : Typed(b[i]) /\ b[i].height = i
    /\ \A h \in 1..Len(b) : Lawful(Prefix(b, h))

(* The prefix at a height ends with the header at that height.              *)
LEMMA PrefixParts ==
    ASSUME NEW b, IsBlock(b), NEW h \in 1..Len(b)
    PROVE  /\ IsBlock(Prefix(b, h)) /\ Len(Prefix(b, h)) = h /\ h \in Nat
           /\ Parent(Prefix(b, h)) = Prefix(b, h - 1)
           /\ Header(Prefix(b, h)) = b[h]
           /\ Prefix(b, h) = Extend(Prefix(b, h - 1), b[h])
<1>1. Len(b) \in Nat /\ h \in Nat /\ h - 1 \in 0..h /\ h \in 0..Len(b) /\ h - 1 \in 0..Len(b)
      /\ h \in 1..h
  BY DEF IsBlock
<1>2. /\ IsBlock(Prefix(b, h)) /\ Len(Prefix(b, h)) = h
      /\ \A i \in 1..h : Prefix(b, h)[i] = b[i]
      /\ Len(Prefix(b, h - 1)) = h - 1
      /\ \A i \in 1..(h - 1) : Prefix(b, h - 1)[i] = b[i]
  BY <1>1, PrefixBlock
<1>3. Parent(Prefix(b, h)) = Prefix(b, h - 1)
  BY <1>1, <1>2, PrefixPrefix DEF Parent
<1>4. Header(Prefix(b, h)) = b[h]
  <2>1. Prefix(b, h) # Genesis
    BY <1>1, <1>2 DEF Genesis
  <2>. QED  BY <1>1, <1>2, <2>1 DEF Header
<1>5. Prefix(b, h) = Extend(Prefix(b, h - 1), b[h])
  <2>1. (h - 1) + 1 = h
    BY <1>1
  <2>2. \A i \in 1..h : b[i] = IF i <= h - 1 THEN Prefix(b, h - 1)[i] ELSE b[h]
    BY <1>1, <1>2
  <2>. QED  BY <1>2, <2>1, <2>2 DEF Prefix, Extend
<1>. QED  BY <1>1, <1>2, <1>3, <1>4, <1>5

(* Every block on the way to a legal one is legal.                          *)
LEMMA LegalPrefix ==
    ASSUME NEW b, Legal(b), NEW n \in 0..Len(b)
    PROVE  Legal(Prefix(b, n)) /\ Len(Prefix(b, n)) = n
<1>1. Len(b) \in Nat /\ n \in Nat /\ IsBlock(b)
  BY DEF Legal, IsBlock
<1>2. /\ IsBlock(Prefix(b, n)) /\ Len(Prefix(b, n)) = n
      /\ \A i \in 1..n : Prefix(b, n)[i] = b[i]
  BY <1>1, PrefixBlock
<1>3. \A h \in 1..n : Prefix(Prefix(b, n), h) = Prefix(b, h)
  BY <1>1, PrefixPrefix
<1>. QED  BY <1>1, <1>2, <1>3 DEF Legal

LEMMA GenesisIsLegal == Legal(Genesis) /\ Len(Genesis) = 0
  BY DEF Legal, IsBlock, Genesis

(* A legal block's header says its height; its work is a number.            *)
LEMMA LegalHeader ==
    ASSUME NEW b, Legal(b)
    PROVE  /\ IsBlock(b) /\ Len(b) \in Nat
           /\ Header(b).height = Len(b)
           /\ Header(b).timestamp \in Nat /\ Header(b).target \in Target
           /\ b # Genesis => Len(b) \in 1..Len(b)
           /\ Len(b) = 0 => b = Genesis
           /\ Work(b) \in Nat
<1>1. IsBlock(b) /\ Len(b) \in Nat
  BY DEF Legal, IsBlock
<1>2. Len(b) = 0 => b = Genesis
  BY <1>1 DEF Genesis, IsBlock
<1>3. CASE b = Genesis
  BY <1>1, <1>3, GenesisIsLegal, BoundsAssumption, WorkOfGenesis DEF Header, GenesisHeader
<1>4. CASE b # Genesis
  <2>1. Len(b) \in 1..Len(b)
    BY <1>1, <1>2, <1>4
  <2>2. Header(b) = b[Len(b)]
    BY <1>4 DEF Header
  <2>3. Work(b) \in Nat
    BY <1>1, WorkIsNat DEF Legal, Typed
  <2>. QED  BY <1>1, <1>2, <2>1, <2>2, <2>3 DEF Legal, Typed
<1>. QED  BY <1>3, <1>4

(* First claim wins along a legal block's history.                          *)
LEMMA LegalClaims ==
    ASSUME NEW b, Legal(b), NEW n
    PROVE  /\ \A g, h \in ClaimHeights(b, 0, n) : g = h
           /\ \A h \in ClaimHeights(b, 0, n) :
                 \A t, u \in b[h].txs : t.name = n /\ u.name = n => t = u
<1>1. IsBlock(b) /\ Len(b) \in Nat
  BY DEF Legal, IsBlock
<1>2. ASSUME NEW h \in ClaimHeights(b, 0, n)
      PROVE  /\ h \in 1..Len(b) /\ h \in Nat
             /\ \A g \in ClaimHeights(b, 0, n) : ~ (g < h)
             /\ \A t, u \in b[h].txs : t.name = n /\ u.name = n => t = u
  <2>1. h \in 1..Len(b) /\ \E tx \in b[h].txs : tx.name = n
    BY <1>1 DEF ClaimHeights
  <2>2. Lawful(Prefix(b, h)) /\ Parent(Prefix(b, h)) = Prefix(b, h - 1)
        /\ Header(Prefix(b, h)) = b[h] /\ h - 1 \in 0..Len(b) /\ h \in Nat
    BY <1>1, <2>1, PrefixParts DEF Legal
  <2>3. ClaimHeights(Prefix(b, h - 1), 0, n) = {}
    BY <2>1, <2>2 DEF Lawful
  <2>4. ClaimHeights(Prefix(b, h - 1), 0, n) = {g \in ClaimHeights(b, 0, n) : g <= h - 1}
    BY <1>1, <2>2, ClaimHeightsSplit
  <2>5. ClaimHeights(b, 0, n) \subseteq 1..Len(b)
    BY <1>1, ClaimHeightsAreHeights
  <2>6. \A g \in ClaimHeights(b, 0, n) : ~ (g < h)
    <3> SUFFICES ASSUME NEW g \in ClaimHeights(b, 0, n), g < h
                 PROVE  FALSE
      OBVIOUS
    <3>1. g \in 1..Len(b) /\ g <= h - 1
      BY <1>1, <2>1, <2>5
    <3>. QED  BY <2>3, <2>4, <3>1
  <2>7. \A t, u \in b[h].txs : t.name = n /\ u.name = n => t = u
    BY <2>2 DEF Lawful
  <2>. QED  BY <2>1, <2>2, <2>6, <2>7
<1>3. \A g, h \in ClaimHeights(b, 0, n) : g = h
  <2> SUFFICES ASSUME NEW g \in ClaimHeights(b, 0, n), NEW h \in ClaimHeights(b, 0, n)
               PROVE  g = h
    OBVIOUS
  <2>1. g \in Nat /\ h \in Nat /\ ~ (g < h) /\ ~ (h < g)
    BY <1>2
  <2>. QED  BY <2>1
<1>. QED  BY <1>2, <1>3

(* A lawful block on a legal one is legal.                                  *)
LEMMA LegalExtend ==
    ASSUME NEW p, Legal(p), NEW x, Typed(x), Lawful(Extend(p, x))
    PROVE  Legal(Extend(p, x))
<1> DEFINE b == Extend(p, x)
<1>1. /\ IsBlock(p) /\ Len(p) \in Nat /\ Header(p).height = Len(p)
  BY LegalHeader
<1>2. /\ IsBlock(b) /\ Len(b) = Len(p) + 1
      /\ Header(b) = x /\ Parent(b) = p /\ b[Len(p) + 1] = x
      /\ \A i \in 1..Len(p) : b[i] = p[i]
      /\ \A h \in 0..Len(p) : Prefix(b, h) = Prefix(p, h)
      /\ Prefix(b, Len(b)) = b
  BY <1>1, ExtendBlock, PrefixWhole
<1> HIDE DEF b
<1>3. x.height = Len(p) + 1
  BY <1>1, <1>2 DEF Lawful, FollowsParent, b
<1>4. ASSUME NEW i \in 1..Len(b)
      PROVE  Typed(b[i]) /\ b[i].height = i /\ Lawful(Prefix(b, i))
  <2>1. CASE i = Len(p) + 1
    BY <1>2, <1>3, <2>1 DEF b
  <2>2. CASE i # Len(p) + 1
    <3>1. i \in 1..Len(p) /\ i \in 0..Len(p)
      BY <1>1, <1>2, <2>2
    <3>. QED  BY <1>2, <3>1 DEF Legal
  <2>. QED  BY <2>1, <2>2
<1>. QED  BY <1>2, <1>4 DEF Legal, b

(* Replaying b's blocks above the floor over the floor's snapshot gives     *)
(* what b's whole history gives.                                            *)
LEMMA StateIsWholeHistory ==
    ASSUME NEW c, NEW b, Legal(b), IsBlock(c.floor_hash),
           IsPrefixOf(c.floor_hash, b),
           c.floor_username_owner = Replay(NoOwners, 0, c.floor_hash)
    PROVE  StateAt(c, b) = Replay(NoOwners, 0, b)
<1>1. FloorHeight(c) \in 0..Len(b) /\ Prefix(b, FloorHeight(c)) = c.floor_hash
      /\ IsBlock(b)
  BY DEF Legal, IsBlock, IsPrefixOf, FloorHeight
<1>2. \A n \in Name : \A g, h \in ClaimHeights(b, 0, n) : g = h
  BY LegalClaims
<1>. QED
  BY <1>1, <1>2, ReplayCompose DEF StateAt

(* The verdict of validation on a block whose parent the node has all of:   *)
(* the block is lawful, its own history above the floor is enough, and it   *)
(* is not from the future.                                                  *)
LEMMA Verdict ==
    ASSUME NEW c, NEW p \in Known(c), Legal(p), HasState(c, p),
           IsBlock(c.floor_hash),
           c.floor_username_owner = Replay(NoOwners, 0, c.floor_hash),
           NEW x, \A tx \in x.txs : tx.name \in Name,
           NEW b, b = Extend(p, x), NEW now
    PROVE  ValidBlock(c, b, now) <=>
              /\ Lawful(b)
              /\ SelfContained(b, FloorHeight(c))
              /\ x.timestamp <= now + MaxFutureDrift
<1> DEFINE f == FloorHeight(c)
           cut == [floor_hash |-> Prefix(b, f)]
<1>1. /\ IsBlock(p) /\ Len(p) \in Nat /\ Header(p).height = Len(p)
      /\ IsBlock(b) /\ Header(b) = x /\ Parent(b) = p /\ Len(b) = Len(p) + 1
  BY LegalHeader, ExtendBlock
<1>2. HasAncestry(c, p) /\ f \in Nat /\ f <= Len(p) /\ f \in 0..Len(b)
  BY <1>1 DEF HasState, HasAncestry, IsPrefixOf, IsBlock, FloorHeight
<1>3. FloorHeight(cut) = f
  BY <1>1, <1>2, PrefixBlock DEF FloorHeight
<1>4. MedianTimePast(cut, p) = MedianTimePast(c, p)
  <2> HIDE DEF cut
  <2>. QED  BY <1>3 DEF MedianTimePast
<1>5. IntervalStart(p) \in Int
  BY <1>1, BoundsAssumption DEF IntervalStart
<1>6. ASSUME NEW tx \in x.txs
      PROVE  /\ AnchorOK(c, tx.anchor, p, x.height) <=>
                   InItsPast(tx.anchor, p, x.height) /\ Len(tx.anchor) >= f
             /\ Unclaimed(c, p, tx.name) <=> ClaimHeights(p, 0, tx.name) = {}
  <2>1. ASSUME NEW h \in 0..Len(p)
        PROVE  Len(Prefix(p, h)) = h /\ h \in Nat
    BY <1>1, <2>1, PrefixBlock
  <2>2. AnchorOK(c, tx.anchor, p, x.height) <=>
           \E h \in f..Len(p) : /\ Prefix(p, h) = tx.anchor
                                /\ x.height - Len(tx.anchor) <= AnchorMaxAge
    BY DEF AnchorOK, Ancestors
  <2>3. \A h \in f..Len(p) : h \in 0..Len(p) /\ h >= f
    BY <1>1, <1>2
  <2>4. \A h \in 0..Len(p) : h >= f => h \in f..Len(p)
    BY <1>1, <1>2
  <2>5. AnchorOK(c, tx.anchor, p, x.height) =>
           InItsPast(tx.anchor, p, x.height) /\ Len(tx.anchor) >= f
    BY <2>1, <2>2, <2>3 DEF InItsPast
  <2>6. InItsPast(tx.anchor, p, x.height) /\ Len(tx.anchor) >= f =>
           AnchorOK(c, tx.anchor, p, x.height)
    BY <2>1, <2>2, <2>4 DEF InItsPast
  <2>7. StateAt(c, p) = Replay(NoOwners, 0, p)
    BY StateIsWholeHistory DEF HasState, HasAncestry
  <2>8. DOMAIN StateAt(c, p) = ClaimedNames(p, 0)
    BY <2>7 DEF Replay, NoOwners
  <2>. QED  BY <2>5, <2>6, <2>8 DEF Unclaimed, ClaimedNames
<1>7. ValidBlock(c, b, now) <=>
         /\ Cardinality(x.txs) <= MaxTxs
         /\ x.sealed
         /\ FollowsParent(x, p)
         /\ OnRetargetBoundary(p) => IntervalStart(p) >= f
         /\ x.target = ExpectedDifficulty(p)
         /\ x.timestamp > MedianTimePast(c, p)
         /\ x.timestamp <= now + MaxFutureDrift
         /\ x.txs # {} => ValidTransactions(c, b)
  BY <1>1, <1>2 DEF ValidBlock, DifficultyKnown, ValidTimestamp
<1>8. (x.txs # {} => ValidTransactions(c, b)) <=>
         /\ \A tx \in x.txs : /\ InItsPast(tx.anchor, p, x.height)
                              /\ ClaimHeights(p, 0, tx.name) = {}
                              /\ Len(tx.anchor) >= f
         /\ \A t, u \in x.txs : t.name = u.name => t = u
  BY <1>1, <1>6 DEF ValidTransactions
<1>9. Lawful(b) <=>
         /\ Cardinality(x.txs) <= MaxTxs
         /\ x.sealed
         /\ FollowsParent(x, p)
         /\ OnRetargetBoundary(p) => IntervalStart(p) >= 0
         /\ x.target = ExpectedDifficulty(p)
         /\ \A tx \in x.txs : /\ InItsPast(tx.anchor, p, x.height)
                              /\ ClaimHeights(p, 0, tx.name) = {}
         /\ \A t, u \in x.txs : t.name = u.name => t = u
  BY <1>1 DEF Lawful
<1>10. SelfContained(b, f) <=>
         /\ OnRetargetBoundary(p) => IntervalStart(p) >= f
         /\ x.timestamp > MedianTimePast(c, p)
         /\ \A tx \in x.txs : Len(tx.anchor) >= f
  BY <1>1, <1>4 DEF SelfContained
<1>11. IntervalStart(p) >= f => IntervalStart(p) >= 0
  BY <1>2, <1>5
<1> HIDE DEF f, cut
<1>12. ValidBlock(c, b, now) => Lawful(b) /\ SelfContained(b, f)
                                /\ x.timestamp <= now + MaxFutureDrift
  BY <1>7, <1>8, <1>9, <1>10, <1>11
<1>13. Lawful(b) /\ SelfContained(b, f) /\ x.timestamp <= now + MaxFutureDrift
         => ValidBlock(c, b, now)
  BY <1>7, <1>8, <1>9, <1>10
<1>. QED  BY <1>12, <1>13 DEF f

-----------------------------------------------------------------------------
(* Sound chains *)

Fields == {"meta", "blocks", "tip_hash", "canonical_index",
           "username_owner", "floor_hash", "floor_username_owner"}

(* Every known block is legal, and its metadata says the work behind it.    *)
Accounted(c) ==
    /\ DOMAIN c = Fields
    /\ \A b \in Known(c) : Legal(b) /\ c.meta[b] = Work(b)
    /\ c.blocks \subseteq Known(c)
    /\ c.tip_hash \in Known(c)
    /\ c.floor_hash \in Known(c)

(* A known block above the floor has everything down to the floor.          *)
Complete(c) == \A b \in Known(c) : IsPrefixOf(c.floor_hash, b) => HasState(c, b)

(* No known block has more work than the tip.                               *)
Heaviest(c) == \A b \in Known(c) : Work(b) <= Work(c.tip_hash)

(* The index is the tip's ancestry, from the floor at least.                *)
Indexed(c) ==
    /\ IsPrefixOf(c.floor_hash, c.tip_hash)
    /\ FloorHeight(c)..TipHeight(c) \subseteq DOMAIN c.canonical_index
    /\ \A h \in DOMAIN c.canonical_index :
          /\ h \in 0..TipHeight(c)
          /\ c.canonical_index[h] = Prefix(c.tip_hash, h)

(* The owners are those of the tip's and of the floor's whole history.      *)
Replayed(c) ==
    /\ c.username_owner = Replay(NoOwners, 0, c.tip_hash)
    /\ c.floor_username_owner = Replay(NoOwners, 0, c.floor_hash)

(* What holds of a Chain value, whether it began at genesis or at a         *)
(* checkpoint and whatever was received and pruned since.                   *)
Sound(c) == Accounted(c) /\ Complete(c) /\ Heaviest(c) /\ Indexed(c) /\ Replayed(c)

(* What a checkpoint records of its block.                                  *)
Recorded(k) ==
    /\ Legal(k.hash)
    /\ k.cumulative_work = Work(k.hash)
    /\ k.username_owner = Replay(NoOwners, 0, k.hash)

(* A block is a prefix of itself.                                           *)
LEMMA IsPrefixOfItself ==
    ASSUME NEW b, IsBlock(b)
    PROVE  IsPrefixOf(b, b)
  BY PrefixWhole DEF IsPrefixOf, IsBlock

(* Being a prefix of is transitive.                                         *)
LEMMA PrefixesNest ==
    ASSUME NEW a, IsBlock(a), NEW b, IsBlock(b), NEW d, IsBlock(d),
           IsPrefixOf(a, b), IsPrefixOf(b, d)
    PROVE  IsPrefixOf(a, d)
<1>1. Len(a) \in 0..Len(b) /\ Len(b) \in 0..Len(d) /\ Len(a) \in Nat /\ Len(d) \in Nat
  BY DEF IsPrefixOf, IsBlock
<1>2. Prefix(Prefix(d, Len(b)), Len(a)) = Prefix(d, Len(a))
  BY <1>1 DEF Prefix
<1>3. Prefix(d, Len(b)) = b /\ Prefix(b, Len(a)) = a
  BY DEF IsPrefixOf
<1>. QED  BY <1>1, <1>2, <1>3 DEF IsPrefixOf

(* A chain that knows one block, its tip and floor, is sound.               *)
LEMMA OneBlockIsSound ==
    ASSUME NEW c, DOMAIN c = Fields, NEW b, Legal(b),
           c.meta = [k \in {b} |-> Work(b)], c.blocks \subseteq {b},
           c.tip_hash = b, c.floor_hash = b,
           c.canonical_index = [h \in {Len(b)} |-> b],
           c.username_owner = Replay(NoOwners, 0, b),
           c.floor_username_owner = Replay(NoOwners, 0, b)
    PROVE  Sound(c) /\ Known(c) = {b}
<1>1. /\ IsBlock(b) /\ Len(b) \in Nat /\ Work(b) \in Nat
      /\ Prefix(b, Len(b)) = b /\ IsPrefixOf(b, b)
  BY LegalHeader, PrefixWhole, IsPrefixOfItself
<1>2. Known(c) = {b} /\ c.meta[b] = Work(b)
  BY DEF Known
<1>3. Accounted(c)
  BY <1>2 DEF Accounted
<1>4. HasState(c, b)
  BY <1>1, <1>2 DEF HasState, HasAncestry, FloorHeight
<1>5. Complete(c) /\ Heaviest(c)
  BY <1>1, <1>2, <1>4 DEF Complete, Heaviest
<1>6. Indexed(c)
  BY <1>1 DEF Indexed, FloorHeight, TipHeight
<1>. QED  BY <1>2, <1>3, <1>5, <1>6 DEF Sound, Replayed

(* Nobody owns a name at genesis.                                           *)
LEMMA NoOwnersAtGenesis == Replay(NoOwners, 0, Genesis) = NoOwners
<1>1. \A n : ClaimHeights(Genesis, 0, n) = {}
  BY GenesisIsLegal DEF ClaimHeights
<1>. QED  BY <1>1 DEF Replay, NoOwners, ClaimedNames

(* Chain::new is sound.                                                     *)
LEMMA NewChainIsSound == Sound(NewChain) /\ Known(NewChain) = {Genesis}
<1> DEFINE c == NewChain
<1>1. /\ DOMAIN c = Fields
      /\ c.meta = [k \in {Genesis} |-> 0] /\ c.blocks = {Genesis}
      /\ c.tip_hash = Genesis /\ c.floor_hash = Genesis
      /\ c.canonical_index = [h \in {0} |-> Genesis]
      /\ c.username_owner = NoOwners /\ c.floor_username_owner = NoOwners
  BY DEF NewChain, Fields
<1> HIDE DEF c
<1>2. Sound(c) /\ Known(c) = {Genesis}
  BY <1>1, OneBlockIsSound, GenesisIsLegal, WorkOfGenesis, NoOwnersAtGenesis
<1>. QED  BY <1>2 DEF c

(* Chain::from_checkpoint of a checkpoint that was recorded is sound.       *)
LEMMA FromCheckpointIsSound ==
    ASSUME NEW k, Recorded(k)
    PROVE  Sound(FromCheckpoint(k)) /\ Known(FromCheckpoint(k)) = {k.hash}
<1> DEFINE c == FromCheckpoint(k)
<1>1. /\ DOMAIN c = Fields
      /\ c.meta = [b \in {k.hash} |-> Work(k.hash)] /\ c.blocks = {}
      /\ c.tip_hash = k.hash /\ c.floor_hash = k.hash
      /\ c.canonical_index = [h \in {Len(k.hash)} |-> k.hash]
      /\ c.username_owner = Replay(NoOwners, 0, k.hash)
      /\ c.floor_username_owner = Replay(NoOwners, 0, k.hash)
  BY DEF FromCheckpoint, Fields, Recorded
<1> HIDE DEF c
<1>2. Sound(c) /\ Known(c) = {k.hash}
  BY <1>1, OneBlockIsSound DEF Recorded
<1>. QED  BY <1>2 DEF c

-----------------------------------------------------------------------------
(* What a received block leaves *)

(* Storing a block adds it to the metadata and the bodies, and no more.     *)
LEMMA InsertedFields ==
    ASSUME NEW c, DOMAIN c = Fields, NEW b
    PROVE  LET d == Inserted(c, b) IN
           /\ DOMAIN d = Fields
           /\ Known(d) = Known(c) \cup {b}
           /\ \A k \in Known(c) : k # b => d.meta[k] = c.meta[k]
           /\ d.meta[b] = BlockWork(c, b)
           /\ d.blocks = c.blocks \cup {b}
           /\ d.tip_hash = c.tip_hash
           /\ d.canonical_index = c.canonical_index
           /\ d.username_owner = c.username_owner
           /\ d.floor_hash = c.floor_hash
           /\ d.floor_username_owner = c.floor_username_owner
  BY DEF Inserted, Fields, Known

(* Making b canonical rebuilds the index and the view, and no more.         *)
LEMMA CanonicalTipFields ==
    ASSUME NEW d, DOMAIN d = Fields, NEW b, HasState(d, b)
    PROVE  LET e == WithCanonicalTip(d, b) IN
           /\ DOMAIN e = Fields
           /\ e.meta = d.meta
           /\ e.blocks = d.blocks
           /\ e.tip_hash = b
           /\ e.canonical_index = Ancestors(d, b)
           /\ e.username_owner = StateAt(d, b)
           /\ e.floor_hash = d.floor_hash
           /\ e.floor_username_owner = d.floor_username_owner
<1>1. HasAncestry(d, b)
  BY DEF HasState
<1>. QED
  BY <1>1 DEF WithCanonicalTip, Fields

(* A block on a known parent that descends from the floor descends from it  *)

(* A block on a known parent that has everything down to the floor has it   *)
(* too, once it is stored.                                                  *)
LEMMA ExtensionHasState ==
    ASSUME NEW c, Sound(c), NEW p \in Known(c), HasAncestry(c, p), NEW x
    PROVE  /\ IsPrefixOf(c.floor_hash, Extend(p, x))
           /\ HasState(c, p)
           /\ HasState(Inserted(c, Extend(p, x)), Extend(p, x))
<1> DEFINE b == Extend(p, x)
           d == Inserted(c, b)
           f == FloorHeight(c)
<1>1. /\ IsBlock(p) /\ IsBlock(c.floor_hash)
      /\ f \in Nat /\ Len(p) \in Nat /\ f <= Len(p)
  BY LegalHeader DEF Sound, Accounted, HasAncestry, IsPrefixOf, FloorHeight
<1>2. /\ IsBlock(b) /\ Len(b) = Len(p) + 1
      /\ \A h \in 0..Len(p) : Prefix(b, h) = Prefix(p, h)
      /\ Prefix(b, Len(b)) = b
  BY <1>1, ExtendBlock, PrefixWhole
<1>3. IsPrefixOf(c.floor_hash, b)
  <2> HIDE DEF b
  <2>1. Prefix(p, f) = c.floor_hash
    BY DEF HasAncestry, IsPrefixOf, FloorHeight
  <2>. QED  BY <1>1, <1>2, <2>1 DEF IsPrefixOf, FloorHeight
<1>4. /\ Known(d) = Known(c) \cup {b}
      /\ d.blocks = c.blocks \cup {b}
      /\ d.floor_hash = c.floor_hash
  BY InsertedFields DEF Sound, Accounted
<1>5. HasState(c, p)
  BY DEF Sound, Complete, HasAncestry
<1>6. ASSUME NEW h \in f..Len(p)
      PROVE  /\ Prefix(b, h) \in Known(c)
             /\ h > f => Prefix(b, h) \in c.blocks
  <2>1. Prefix(b, h) = Prefix(p, h)
    BY <1>1, <1>2
  <2>. QED  BY <1>1, <1>5, <2>1 DEF HasState, HasAncestry
<1>7. HasAncestry(d, b)
  <2> HIDE DEF b, d
  <2>1. \A h \in f..Len(b) : Prefix(b, h) \in Known(d)
    BY <1>1, <1>2, <1>4, <1>6
  <2>. QED  BY <1>3, <1>4, <2>1 DEF HasAncestry, FloorHeight
<1>8. HasState(d, b)
  <2> HIDE DEF b, d
  <2>1. \A h \in (f + 1)..Len(b) : Prefix(b, h) \in d.blocks
    BY <1>1, <1>2, <1>4, <1>6
  <2>. QED  BY <1>4, <1>7, <2>1 DEF HasState, FloorHeight
<1>. QED
  BY <1>3, <1>5, <1>8

(* A block that passes validation lands beside the tip or becomes it; any   *)
(* other block changes nothing.  Acceptance never fails half way.           *)
LEMMA ApplyCases ==
    ASSUME NEW c, Sound(c), NEW p, IsBlock(p), NEW x, NEW now,
           NEW b, b = Extend(p, x), NEW d, d = Inserted(c, b),
           NEW o, o = ApplyOutcome(c, b, now)
    PROVE  \/ /\ TryApply(c, b, now) = c
              /\ o \in {"AlreadyKnown", "Rejected"}
              /\ b \notin Known(c) => o = "Rejected" /\ ~ ValidBlock(c, b, now)
           \/ /\ ValidBlock(c, b, now)
              /\ b \notin Known(c)
              /\ p \in Known(c)
              /\ HasState(c, p)
              /\ HasState(d, b)
              /\ \/ /\ TryApply(c, b, now) = d
                    /\ BlockWork(c, b) <= TipWork(c)
                    /\ o = "AddedToFork"
                 \/ /\ TryApply(c, b, now) = WithCanonicalTip(d, b)
                    /\ ~ (BlockWork(c, b) <= TipWork(c))
                    /\ o \in {"ExtendedTip", "ReorgedTo"}
<1>1. Parent(b) = p
  BY ExtendBlock
<1>2. CASE b \in Known(c) \/ ~ ValidBlock(c, b, now)
  <2>1. o \in {"AlreadyKnown", "Rejected"} /\ (b \notin Known(c) => o = "Rejected")
    BY <1>2 DEF ApplyOutcome
  <2>. QED  BY <1>2, <2>1 DEF TryApply
<1>3. CASE b \notin Known(c) /\ ValidBlock(c, b, now)
  <2>1. p \in Known(c) /\ HasAncestry(c, p)
    BY <1>1, <1>3 DEF ValidBlock
  <2>2. Outweighs(d, b) <=> ~ (BlockWork(c, b) <= TipWork(c))
    <3>1. DOMAIN c = Fields /\ c.tip_hash \in Known(c)
      BY DEF Sound, Accounted
    <3>2. TipWork(d) = TipWork(c) /\ d.meta[b] = BlockWork(c, b)
      BY <1>3, <3>1, InsertedFields DEF TipWork
    <3>. QED  BY <3>2 DEF Outweighs
  <2>3. HasState(c, p) /\ HasState(d, b)
    BY <2>1, ExtensionHasState
  <2>4. CASE BlockWork(c, b) <= TipWork(c)
    <3>1. o = "AddedToFork"
      BY <1>3, <2>2, <2>4 DEF ApplyOutcome
    <3>2. TryApply(c, b, now) = d
      BY <3>1 DEF TryApply
    <3>. QED  BY <1>3, <2>1, <2>3, <2>4, <3>1, <3>2
  <2>5. CASE ~ (BlockWork(c, b) <= TipWork(c))
    <3>1. o \in {"ExtendedTip", "ReorgedTo"}
      BY <1>3, <2>2, <2>3, <2>5 DEF ApplyOutcome
    <3>2. TryApply(c, b, now) = WithCanonicalTip(d, b)
      BY <3>1 DEF TryApply
    <3>. QED  BY <1>3, <2>1, <2>3, <2>5, <3>1, <3>2
  <2>. QED  BY <2>4, <2>5
<1>. QED
  BY <1>2, <1>3

(* The work of a known block and of the tip, and of a block on top.         *)
LEMMA KnownWork ==
    ASSUME NEW c, Sound(c), NEW p \in Known(c), NEW x, Typed(x)
    PROVE  /\ TipWork(c) = Work(c.tip_hash) /\ Work(c.tip_hash) \in Nat
           /\ BlockWork(c, Extend(p, x)) = Work(Extend(p, x))
           /\ Work(Extend(p, x)) = Work(p) + WorkOf(x.target)
           /\ Work(Extend(p, x)) \in Nat
           /\ Work(Extend(p, x)) > Work(p) /\ Work(p) \in Nat
<1>1. /\ Legal(p) /\ c.meta[p] = Work(p) /\ Legal(c.tip_hash)
      /\ c.meta[c.tip_hash] = Work(c.tip_hash)
  BY DEF Sound, Accounted
<1>2. IsBlock(p) /\ Work(p) \in Nat /\ Work(c.tip_hash) \in Nat
  BY <1>1, LegalHeader
<1>3. WorkOf(x.target) \in Nat /\ WorkOf(x.target) > 0
  BY WorkAssumption DEF Typed
<1>4. Header(Extend(p, x)) = x /\ Parent(Extend(p, x)) = p
  BY <1>2, ExtendBlock
<1>5. Work(Extend(p, x)) = Work(p) + WorkOf(x.target)
  BY <1>2, WorkOfExtend
<1>6. BlockWork(c, Extend(p, x)) = Work(p) + WorkOf(x.target)
  BY <1>1, <1>4 DEF BlockWork
<1>. QED  BY <1>1, <1>2, <1>3, <1>5, <1>6 DEF TipWork

(* A chain that a valid block was added to, as a fork or as the new tip.    *)
Accepted(c, e, b) ==
    /\ Known(e) = Known(c) \cup {b}
    /\ e.blocks = c.blocks \cup {b}
    /\ e.floor_hash = c.floor_hash
    /\ e.floor_username_owner = c.floor_username_owner
    /\ \/ /\ e.tip_hash = c.tip_hash
          /\ e.username_owner = c.username_owner
          /\ Work(b) <= Work(c.tip_hash)
       \/ e.tip_hash = b /\ Work(b) > Work(c.tip_hash)

(* Chain::try_apply keeps a chain sound: either nothing changes or the block*)
(* was valid and everything about it is in place.                           *)
LEMMA AppliedIsSound ==
    ASSUME NEW c, Sound(c), NEW p, IsBlock(p), NEW x, Typed(x), NEW now,
           NEW b, b = Extend(p, x), NEW e, e = TryApply(c, b, now),
           NEW o, o = ApplyOutcome(c, b, now)
    PROVE  /\ Sound(e)
           /\ \/ /\ e = c /\ o \in {"AlreadyKnown", "Rejected"}
                 /\ b \notin Known(c) => o = "Rejected" /\ ~ ValidBlock(c, b, now)
              \/ /\ ValidBlock(c, b, now) /\ b \notin Known(c)
                 /\ p \in Known(c) /\ HasState(c, p)
                 /\ Legal(b) /\ SelfContained(b, FloorHeight(c))
                 /\ Accepted(c, e, b)
                 /\ o \in {"AddedToFork", "ExtendedTip", "ReorgedTo"}
<1> DEFINE d == Inserted(c, b)
<1>1. CASE e = c /\ o \in {"AlreadyKnown", "Rejected"}
           /\ (b \notin Known(c) => o = "Rejected" /\ ~ ValidBlock(c, b, now))
  BY <1>1
<1>2. CASE /\ ValidBlock(c, b, now) /\ b \notin Known(c)
           /\ p \in Known(c) /\ HasState(c, p) /\ HasState(d, b)
           /\ \/ /\ e = d /\ BlockWork(c, b) <= TipWork(c)
                 /\ o = "AddedToFork"
              \/ /\ e = WithCanonicalTip(d, b) /\ ~ (BlockWork(c, b) <= TipWork(c))
                 /\ o \in {"ExtendedTip", "ReorgedTo"}
  <2>1. /\ DOMAIN c = Fields /\ Legal(p) /\ Legal(c.floor_hash)
        /\ IsBlock(c.floor_hash) /\ IsBlock(p) /\ Len(p) \in Nat
        /\ FloorHeight(c) \in Nat /\ FloorHeight(c) <= Len(p)
        /\ c.floor_username_owner = Replay(NoOwners, 0, c.floor_hash)
    BY <1>2, LegalHeader
       DEF Sound, Accounted, Replayed, HasState, HasAncestry, IsPrefixOf, FloorHeight
  <2>2. Lawful(b) /\ SelfContained(b, FloorHeight(c))
    BY <1>2, <2>1, Verdict DEF Typed
  <2>3. Legal(b)
    BY <2>1, <2>2, LegalExtend
  <2>4. /\ TipWork(c) = Work(c.tip_hash) /\ Work(c.tip_hash) \in Nat
        /\ BlockWork(c, b) = Work(b) /\ Work(b) \in Nat
    BY <1>2, KnownWork
  <2>5. /\ DOMAIN d = Fields
        /\ Known(d) = Known(c) \cup {b}
        /\ \A k \in Known(c) : d.meta[k] = c.meta[k]
        /\ d.meta[b] = Work(b)
        /\ d.blocks = c.blocks \cup {b}
        /\ d.tip_hash = c.tip_hash
        /\ d.canonical_index = c.canonical_index
        /\ d.username_owner = c.username_owner
        /\ d.floor_hash = c.floor_hash
        /\ d.floor_username_owner = c.floor_username_owner
    BY <1>2, <2>1, <2>4, InsertedFields
  <2> HIDE DEF d
  <2>6. /\ DOMAIN e = Fields
        /\ e.meta = d.meta
        /\ e.blocks = d.blocks
        /\ e.floor_hash = c.floor_hash
        /\ e.floor_username_owner = c.floor_username_owner
        /\ \/ /\ e.tip_hash = c.tip_hash /\ e.username_owner = c.username_owner
              /\ e.canonical_index = c.canonical_index
              /\ Work(b) <= Work(c.tip_hash)
           \/ /\ e.tip_hash = b /\ e.username_owner = StateAt(d, b)
              /\ e.canonical_index = Ancestors(d, b)
              /\ Work(b) > Work(c.tip_hash)
    BY <1>2, <2>4, <2>5, CanonicalTipFields
  <2>7. Known(e) = Known(c) \cup {b} /\ FloorHeight(e) = FloorHeight(c)
        /\ FloorHeight(d) = FloorHeight(c)
    BY <2>5, <2>6 DEF Known, FloorHeight
  <2>8. Accepted(c, e, b)
    BY <2>5, <2>6, <2>7 DEF Accepted
  <2>9. Accounted(e)
    BY <2>3, <2>5, <2>6, <2>7 DEF Sound, Accounted
  <2>10. Complete(e)
    <3>1. \A k : HasState(c, k) => HasState(e, k)
      BY <2>5, <2>6, <2>7 DEF HasState, HasAncestry
    <3>2. HasState(e, b)
      BY <1>2, <2>5, <2>6, <2>7 DEF HasState, HasAncestry, Known
    <3>. QED  BY <2>6, <2>7, <3>1, <3>2 DEF Sound, Complete
  <2>11. Heaviest(e)
    <3>1. \A k \in Known(c) : Work(k) <= Work(c.tip_hash) /\ Work(k) \in Nat
      BY LegalHeader DEF Sound, Heaviest, Accounted
    <3>. QED  BY <2>4, <2>6, <2>7, <3>1 DEF Heaviest
  <2>12. Prefix(b, Len(b)) = b /\ Len(b) = Len(p) + 1 /\ IsBlock(b)
         /\ IsPrefixOf(c.floor_hash, b)
    <3>1. IsBlock(b) /\ Len(b) = Len(p) + 1
      BY <2>1, ExtendBlock
    <3>. QED  BY <1>2, <2>5, <3>1, PrefixWhole DEF HasState, HasAncestry
  <2>13. Indexed(e)
    <3>1. CASE e.tip_hash = c.tip_hash /\ e.canonical_index = c.canonical_index
      BY <2>6, <2>7, <3>1 DEF Sound, Indexed, TipHeight
    <3>2. CASE e.tip_hash = b /\ e.canonical_index = Ancestors(d, b)
      BY <2>1, <2>6, <2>7, <2>12, <3>2 DEF Indexed, Ancestors, TipHeight
    <3>. QED  BY <2>6, <3>1, <3>2
  <2>14. Replayed(e)
    <3>1. StateAt(d, b) = Replay(NoOwners, 0, b)
      BY <2>1, <2>3, <2>5, <2>12, StateIsWholeHistory
    <3>. QED  BY <2>1, <2>6, <3>1 DEF Sound, Replayed
  <2>. QED
    BY <1>2, <2>2, <2>3, <2>8, <2>9, <2>10, <2>11, <2>13, <2>14 DEF Sound
<1>. QED  BY <1>1, <1>2, ApplyCases

(* A canonical height above the floor and below the tip.                    *)
LEMMA CanonicalBlock ==
    ASSUME NEW c, Sound(c), NEW h \in DOMAIN c.canonical_index, h > FloorHeight(c)
    PROVE  LET b == c.canonical_index[h] IN
           /\ h \in 0..TipHeight(c) /\ h \in Nat /\ b = Prefix(c.tip_hash, h)
           /\ b \in Known(c) /\ Legal(b) /\ Len(b) = h
           /\ IsPrefixOf(b, c.tip_hash) /\ IsPrefixOf(c.floor_hash, b)
           /\ HasState(c, b)
           /\ StateAt(c, b) = Replay(NoOwners, 0, b)
<1> DEFINE b == c.canonical_index[h]
           t == c.tip_hash
<1>1. /\ Legal(t) /\ IsBlock(t) /\ Len(t) \in Nat
      /\ Legal(c.floor_hash) /\ IsBlock(c.floor_hash) /\ FloorHeight(c) \in Nat
  BY LegalHeader DEF Sound, Accounted, FloorHeight
<1>2. h \in 0..Len(t) /\ b = Prefix(t, h) /\ h \in Nat
  BY <1>1 DEF Sound, Indexed, TipHeight
<1>3. Legal(b) /\ Len(b) = h
  BY <1>1, <1>2, LegalPrefix
<1>4. HasState(c, t) /\ IsPrefixOf(c.floor_hash, t)
  BY DEF Sound, Complete, Indexed, Accounted
<1>5. b \in Known(c)
  BY <1>1, <1>2, <1>4 DEF HasState, HasAncestry
<1>6. IsPrefixOf(b, t)
  BY <1>1, <1>2, <1>3 DEF IsPrefixOf
<1>7. IsPrefixOf(c.floor_hash, b)
  <2>1. Len(c.floor_hash) \in 0..h /\ Len(c.floor_hash) <= h
    BY <1>1, <1>2 DEF FloorHeight
  <2>2. Prefix(Prefix(t, h), Len(c.floor_hash)) = Prefix(t, Len(c.floor_hash))
    BY <1>1, <1>2, <2>1, PrefixPrefix
  <2>. QED  BY <1>2, <1>3, <1>4, <2>1, <2>2 DEF IsPrefixOf
<1>8. HasState(c, b)
  BY <1>5, <1>7 DEF Sound, Complete
<1>9. StateAt(c, b) = Replay(NoOwners, 0, b)
  BY <1>1, <1>3, <1>7, StateIsWholeHistory DEF Sound, Replayed
<1>. QED
  BY <1>2, <1>3, <1>5, <1>6, <1>7, <1>8, <1>9 DEF TipHeight

(* Chain::prune_bodies_up_to keeps a chain sound: bodies go, never one still*)
(* needed, and what they said is in the floor snapshot.                     *)
LEMMA PrunedIsSound ==
    ASSUME NEW c, Sound(c), NEW h, NEW e, e = Pruned(c, h)
    PROVE  /\ Sound(e)
           /\ e.tip_hash = c.tip_hash /\ e.meta = c.meta
           /\ e.username_owner = c.username_owner
           /\ \/ e = c
              \/ /\ h \in DOMAIN c.canonical_index /\ h > FloorHeight(c)
                 /\ e.floor_hash = c.canonical_index[h]
                 /\ e.blocks = {k \in c.blocks : Header(k).height > h}
<1>1. CASE e = c
  BY <1>1
<1>2. CASE e # c
  <2> DEFINE b == c.canonical_index[h]
             t == c.tip_hash
  <2>1. /\ ~ (h <= FloorHeight(c))
        /\ h \in DOMAIN c.canonical_index
        /\ e = [c EXCEPT !.blocks = {k \in @ : Header(k).height > h},
                         !.floor_username_owner = StateAt(c, b),
                         !.floor_hash = b]
    BY <1>2 DEF Pruned
  <2>2. /\ DOMAIN e = Fields /\ DOMAIN c = Fields
        /\ e.meta = c.meta
        /\ e.blocks = {k \in c.blocks : Header(k).height > h}
        /\ e.tip_hash = t
        /\ e.canonical_index = c.canonical_index
        /\ e.username_owner = c.username_owner
        /\ e.floor_hash = b
        /\ e.floor_username_owner = StateAt(c, b)
    BY <2>1 DEF Sound, Accounted, Fields
  <2>3. h \in 0..Len(t) /\ Legal(c.floor_hash) /\ FloorHeight(c) \in Nat /\ Len(t) \in Nat
        /\ h \in Nat /\ h > FloorHeight(c)
    <3>1. h \in 0..Len(t) /\ Legal(t) /\ Legal(c.floor_hash)
      BY <2>1 DEF Sound, Indexed, Accounted, TipHeight
    <3>2. FloorHeight(c) \in Nat /\ Len(t) \in Nat
      BY <3>1, LegalHeader DEF FloorHeight
    <3>. QED  BY <2>1, <3>1, <3>2
  <2>4. /\ b = Prefix(t, h) /\ b \in Known(c) /\ Legal(b) /\ Len(b) = h
        /\ IsPrefixOf(b, t) /\ IsPrefixOf(c.floor_hash, b)
        /\ StateAt(c, b) = Replay(NoOwners, 0, b)
    BY <2>1, <2>3, CanonicalBlock
  <2> HIDE DEF b, t
  <2>5. FloorHeight(e) = h /\ TipHeight(e) = TipHeight(c) /\ Known(e) = Known(c)
    BY <2>2, <2>4 DEF FloorHeight, TipHeight, Known, t
  <2>6. Accounted(e)
    BY <2>2, <2>4, <2>5 DEF Sound, Accounted, t
  <2>7. Complete(e)
    <3> SUFFICES ASSUME NEW k \in Known(c), IsPrefixOf(b, k)
                 PROVE  HasState(e, k)
      BY <2>2, <2>5 DEF Complete
    <3>1. Legal(k) /\ IsBlock(k) /\ Len(k) \in Nat /\ IsBlock(b) /\ IsBlock(c.floor_hash)
      BY <2>3, <2>4, LegalHeader DEF Sound, Accounted
    <3>2. IsPrefixOf(c.floor_hash, k)
      BY <2>4, <3>1, PrefixesNest
    <3>3. HasState(c, k)
      BY <3>2 DEF Sound, Complete
    <3>4. \A g \in h..Len(k) : Prefix(k, g) \in Known(e)
      BY <2>3, <2>5, <3>1, <3>3 DEF HasState, HasAncestry
    <3>5. ASSUME NEW g \in (h + 1)..Len(k)
          PROVE  Prefix(k, g) \in e.blocks
      <4>1. Prefix(k, g) \in c.blocks
        BY <2>3, <3>1, <3>3 DEF HasState
      <4>2. g \in 1..Len(k) /\ g \in 0..Len(k) /\ g > h
        BY <2>3, <3>1
      <4>3. Legal(Prefix(k, g)) /\ Len(Prefix(k, g)) = g
        BY <3>1, <4>2, LegalPrefix
      <4>4. Header(Prefix(k, g)).height = g
        BY <4>3, LegalHeader
      <4>. QED  BY <2>2, <4>1, <4>2, <4>4
    <3>. QED  BY <2>2, <2>5, <3>4, <3>5 DEF HasState, HasAncestry
  <2>8. Heaviest(e)
    BY <2>2, <2>5 DEF Sound, Heaviest, t
  <2>9. Indexed(e)
    <3>1. h..TipHeight(c) \subseteq FloorHeight(c)..TipHeight(c)
      BY <2>3 DEF TipHeight, t
    <3>. QED  BY <2>2, <2>4, <2>5, <3>1 DEF Sound, Indexed, t
  <2>10. Replayed(e)
    BY <2>2, <2>4 DEF Sound, Replayed, t
  <2>. QED
    BY <2>1, <2>2, <2>3, <2>6, <2>7, <2>8, <2>9, <2>10 DEF Sound, b, t
<1>. QED  BY <1>1, <1>2

-----------------------------------------------------------------------------
(* The median time past *)

(* The heights whose time is below t, and those whose time is not above it. *)
Earlier(W, T, t) == {h \in W : T[h] < t}
UpToTime(W, T, t) == {h \in W : T[h] <= t}

(* Of finitely many times there is always one that has no more than rank    *)
(* below it and more than rank not above it.                                *)
LEMMA RankExists ==
    ASSUME NEW W, IsFiniteSet(W), NEW T \in [W -> Nat],
           NEW rank \in Nat, rank < Cardinality(W)
    PROVE  \E g \in W : /\ Cardinality(Earlier(W, T, T[g])) <= rank
                        /\ Cardinality(UpToTime(W, T, T[g])) > rank
<1> USE DEF Earlier, UpToTime
<1> DEFINE V == {T[h] : h \in W}
           UpTo(t) == {h \in W : T[h] <= t}
           Good == {t \in V : Cardinality(UpTo(t)) > rank}
<1>1. \A U \in SUBSET W : IsFiniteSet(U) /\ Cardinality(U) \in Nat
  BY FS_Subset, FS_CardinalityType
<1>2. IsFiniteSet(V) /\ V \in SUBSET Nat
  <2>1. T \in Surjection(W, V)
    BY DEF Surjection
  <2>. QED  BY <2>1, FS_Surjection
<1>3. V # {}
  BY FS_EmptySet
<1>4. Good # {}
  <2>1. PICK t \in V : \A s \in V : s <= t
    <3> HIDE DEF V
    <3>1. V \in SUBSET Int
      BY <1>2
    <3>. QED  BY <1>2, <1>3, <3>1, GreatestElement
  <2>2. UpTo(t) = W
    BY <2>1
  <2>. QED  BY <2>1, <2>2
<1>5. PICK t \in Good : \A s \in Good : t <= s
  <2>1. Good \in SUBSET Nat
    BY <1>2
  <2> HIDE DEF Good
  <2>. QED  BY <1>4, <2>1, LeastElement
<1>6. Cardinality({h \in W : T[h] < t}) <= rank
  <2> DEFINE Below == {s \in V : s < t}
  <2>1. CASE Below = {}
    <3>1. {h \in W : T[h] < t} = {}
      BY <2>1
    <3>. QED  BY <3>1, FS_EmptySet
  <2>2. CASE Below # {}
    <3>1. PICK g \in Below : \A s \in Below : s <= g
      <4>1. Below \in SUBSET Int /\ IsFiniteSet(Below)
        <5>1. Below \in SUBSET V
          OBVIOUS
        <5>. QED  BY <1>2, <5>1, FS_Subset
      <4> HIDE DEF Below
      <4>. QED  BY <2>2, <4>1, GreatestElement
    <3>2. g \in V /\ g \in Nat /\ t \in Nat /\ g < t
      BY <1>2, <3>1
    <3>3. {h \in W : T[h] < t} = UpTo(g)
      <4>1. \A h \in W : T[h] < t => T[h] <= g
        BY <3>1
      <4>. QED  BY <3>2, <4>1
    <3>4. ~ (Cardinality(UpTo(g)) > rank)
      <4>1. g \notin Good
        BY <1>5, <3>2
      <4>. QED  BY <3>2, <4>1
    <3>5. Cardinality(UpTo(g)) \in Nat
      BY <1>1
    <3> HIDE DEF UpTo
    <3>. QED  BY <3>3, <3>4, <3>5
  <2>. QED  BY <2>1, <2>2
<1>7. PICK g \in W : t = T[g]
  BY <1>5
<1>. QED  BY <1>5, <1>6, <1>7

(* Halves.                                                                  *)
LEMMA Halves ==
    /\ \A n \in Nat : n \div 2 \in Nat /\ (n > 0 => n \div 2 < n)
    /\ \A n, k \in Nat : n <= k => n \div 2 <= k \div 2
<1>1. \A n \in Nat : n \div 2 \in Nat /\ (n > 0 => n \div 2 < n)
  BY Z3
<1>2. \A n, k \in Nat : n <= k => n \div 2 <= k \div 2
  BY Z3
<1>. QED  BY <1>1, <1>2

(* What MedianTimePast looks at, and what it picks, on a chain not pruned.  *)
WindowStart(p) ==
    IF Len(p) - MedianWindow + 1 > 0 THEN Len(p) - MedianWindow + 1 ELSE 0
TimeAt(p, h) == Header(Prefix(p, h)).timestamp
Rank(p) == (Len(p) - WindowStart(p) + 1) \div 2

(* Every time the median reads is a natural number.                         *)
LEMMA TimeIsNat ==
    ASSUME NEW p, Legal(p), NEW h \in 0..Len(p)
    PROVE  TimeAt(p, h) \in Nat
  BY LegalPrefix, LegalHeader DEF TimeAt

(* The window is never empty, and moves up by at most one block at a time.  *)
LEMMA Windows ==
    ASSUME NEW n \in Nat, NEW p, Len(p) = n, NEW b, Len(b) = n + 1
    PROVE  /\ WindowStart(p) \in 0..n
           /\ WindowStart(b) \in {WindowStart(p), WindowStart(p) + 1}
           /\ n - WindowStart(p) + 1 \in Nat
           /\ n - WindowStart(p) + 1 > 0
           /\ (n + 1) - WindowStart(b) + 1 \in Nat
           /\ n - WindowStart(p) + 1 <= (n + 1) - WindowStart(b) + 1
<1>1. MedianWindow \in Nat /\ MedianWindow > 0
  BY BoundsAssumption
<1>2. CASE n - MedianWindow + 1 > 0
  <2>1. WindowStart(p) = n - MedianWindow + 1
    BY <1>2, Zenon DEF WindowStart
  <2>2. (n + 1) - MedianWindow + 1 > 0
    BY <1>1, <1>2
  <2>3. WindowStart(b) = (n + 1) - MedianWindow + 1
    BY <2>2, Zenon DEF WindowStart
  <2>. QED  BY <1>1, <1>2, <2>1, <2>3
<1>3. CASE ~ (n - MedianWindow + 1 > 0)
  <2>1. WindowStart(p) = 0
    BY <1>3, Zenon DEF WindowStart
  <2>2. CASE (n + 1) - MedianWindow + 1 > 0
    <3>1. WindowStart(b) = (n + 1) - MedianWindow + 1
      BY <2>2, Zenon DEF WindowStart
    <3>. QED  BY <1>1, <1>3, <2>1, <2>2, <3>1
  <2>3. CASE ~ ((n + 1) - MedianWindow + 1 > 0)
    <3>1. WindowStart(b) = 0
      BY <2>3, Zenon DEF WindowStart
    <3>. QED  BY <1>1, <2>1, <3>1
  <2>. QED  BY <2>2, <2>3
<1>. QED  BY <1>2, <1>3

(* The median the code picks has the rank it looks for.                     *)
LEMMA MedianHasRank ==
    ASSUME NEW c, FloorHeight(c) = 0, NEW p, Legal(p)
    PROVE  LET m == MedianTimePast(c, p)
               W == WindowStart(p)..Len(p)
           IN  /\ m \in Nat /\ \E h \in 0..Len(p) : m = TimeAt(p, h)
               /\ Cardinality({h \in W : TimeAt(p, h) < m}) <= Rank(p)
               /\ Cardinality({h \in W : TimeAt(p, h) <= m}) > Rank(p)
<1> DEFINE W == WindowStart(p)..Len(p)
           T == [h \in W |-> TimeAt(p, h)]
           Fits(t) == /\ Cardinality({h \in W : TimeAt(p, h) < t}) <= Rank(p)
                      /\ Cardinality({h \in W : TimeAt(p, h) <= t}) > Rank(p)
<1>1. IsBlock(p) /\ Len(p) \in Nat
  BY LegalHeader
<1>2. FloorHeight(c) = 0
  OBVIOUS
<1>3. MedianWindow \in Nat /\ MedianWindow > 0
  BY BoundsAssumption
<1>4. /\ WindowStart(p) \in 0..Len(p)
      /\ Rank(p) \in Nat /\ Rank(p) < Len(p) - WindowStart(p) + 1
  <2>1. /\ WindowStart(p) \in 0..Len(p)
        /\ Len(p) - WindowStart(p) + 1 \in Nat
        /\ Len(p) - WindowStart(p) + 1 > 0
    <3>1. Len(Extend(p, p)) = Len(p) + 1
      BY <1>1, ExtendBlock
    <3>. QED  BY <1>1, <3>1, Windows
  <2>. QED  BY <2>1, Halves DEF Rank
<1>5. IsFiniteSet(W) /\ Rank(p) < Cardinality(W)
  BY <1>1, <1>4, FS_Interval
<1>6. \A h \in 0..Len(p) : TimeAt(p, h) \in Nat
  BY TimeIsNat
<1>7. T \in [W -> Nat]
  BY <1>1, <1>4, <1>6
<1>8. \E g \in W : /\ Cardinality(Earlier(W, T, T[g])) <= Rank(p)
                   /\ Cardinality(UpToTime(W, T, T[g])) > Rank(p)
  <2> DEFINE r == Rank(p)
  <2>1. r \in Nat /\ r < Cardinality(W)
    BY <1>4, <1>5
  <2> HIDE DEF W, T, r
  <2>2. \E g \in W : /\ Cardinality(Earlier(W, T, T[g])) <= r
                     /\ Cardinality(UpToTime(W, T, T[g])) > r
    BY <1>5, <1>7, <2>1, RankExists
  <2>. QED  BY <2>2 DEF r
<1>9. \E t \in {TimeAt(p, h) : h \in W} : Fits(t)
  <2>1. /\ \A h \in W : T[h] = TimeAt(p, h)
        /\ \A t : Earlier(W, T, t) = {h \in W : TimeAt(p, h) < t}
        /\ \A t : UpToTime(W, T, t) = {h \in W : TimeAt(p, h) <= t}
    BY DEF Earlier, UpToTime
  <2>2. PICK g \in W : /\ Cardinality(Earlier(W, T, T[g])) <= Rank(p)
                      /\ Cardinality(UpToTime(W, T, T[g])) > Rank(p)
    BY <1>8
  <2> HIDE DEF W, T
  <2>3. Fits(T[g])
    BY <2>1, <2>2
  <2>4. T[g] \in {TimeAt(p, h) : h \in W}
    BY <2>1, <2>2
  <2> HIDE DEF Fits
  <2>. QED  BY <2>3, <2>4
<1>10. MedianTimePast(c, p) =
          CHOOSE t \in {TimeAt(p, h) : h \in W} : Fits(t)
  BY <1>2 DEF MedianTimePast, WindowStart, TimeAt, Rank
<1>11. /\ MedianTimePast(c, p) \in {TimeAt(p, h) : h \in W}
       /\ Fits(MedianTimePast(c, p))
  <2> HIDE DEF Fits, W
  <2>. QED  BY <1>9, <1>10
<1>. QED  BY <1>1, <1>4, <1>6, <1>11

===============================================================================
