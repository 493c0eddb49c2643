--------------------------- MODULE NodeLedgerProofs ---------------------------
(* Proofs about NodeLedger.                                                 *)
EXTENDS NodeLedger, ChainFacts

-----------------------------------------------------------------------------
(* What every reachable state satisfies *)

(* A node's chain: genesis, bodies and tip are known blocks.                *)
ChainOK(c) ==
    /\ DOMAIN c = Fields
    /\ Genesis \in Known(c)
    /\ c.blocks \subseteq Known(c)
    /\ c.tip_hash \in Known(c)
    /\ \A b \in Known(c) : Len(b) \in Nat

(* A block grinded on by n.                                                 *)
OwnAttempt(n, a) ==
    /\ Len(a.block) \in Nat
    /\ a.block # Genesis /\ Header(a.block).miner = n

NodeOK(n, s) ==
    /\ DOMAIN s = {"chain", "mempool", "active", "started", "attempts"}
    /\ ChainOK(s.chain)
    /\ \A a \in s.attempts : OwnAttempt(n, a)

(* A block whose miner, if it is a node, knows it.                          *)
Owned(b) ==
    /\ Len(b) \in Nat
    /\ b # Genesis => \A n \in Node : Header(b).miner = n => b \in Known(node[n].chain)

NodesOK ==
    /\ DOMAIN node = Node
    /\ \A n \in Node : NodeOK(n, node[n])

KnownAreOwned == \A n \in Node : \A b \in Known(node[n].chain) : Owned(b)

(* The links are queues between nodes; what they hold together.             *)
Wired(L) ==
    /\ DOMAIN L = Node
    /\ \A m \in Node : DOMAIN L[m] = Node /\ \A n \in Node : IsSeq(L[m][n])

Carried(L) == UNION {Items(L[m][n]) : m, n \in Node}

LinksOK ==
    /\ Wired(link)
    /\ \A msg \in Carried(link) : msg.kind = "block" => Owned(msg.block)

SyncOK(y) ==
    /\ y.phase \in {"tip asked", "tip told", "blocks asked", "blocks told"} =>
          y.peer \in Node
    /\ y.phase = "tip told" => y.height \in Nat
    /\ y.phase = "blocks asked" => y.from \in Nat /\ y.count \in Nat
    /\ y.phase = "blocks told" =>
          Len(y.blocks) \in Nat /\ \A i \in 1..Len(y.blocks) : Owned(y.blocks[i])

SyncsOK ==
    /\ DOMAIN sync = Node
    /\ \A n \in Node : SyncOK(sync[n])

(* Wherever a block is, its miner knows it.                                 *)
IInv == NodesOK /\ KnownAreOwned /\ LinksOK /\ SyncsOK

-----------------------------------------------------------------------------
(* Applying a block *)

(* Trying a block adds it or nothing to what is known.                      *)
LEMMA TryApplyGrows ==
    ASSUME NEW c, ChainOK(c), NEW b, Len(b) \in Nat, NEW now,
           NEW e, e = TryApply(c, b, now)
    PROVE  /\ ChainOK(e)
           /\ Known(c) \subseteq Known(e) /\ Known(e) \subseteq Known(c) \cup {b}
           /\ ApplyOutcome(c, b, now) \notin {"AlreadyKnown", "Rejected"}
                 => b \in Known(e)
<1> DEFINE d == Inserted(c, b)
<1>1. /\ DOMAIN d = Fields /\ Known(d) = Known(c) \cup {b}
      /\ d.blocks = c.blocks \cup {b} /\ d.tip_hash = c.tip_hash
  BY DEF Inserted, ChainOK, Fields, Known
<1>2. ChainOK(d)
  <2> HIDE DEF d
  <2>. QED  BY <1>1 DEF ChainOK
<1>3. ASSUME NEW f, f = WithCanonicalTip(d, b)
      PROVE  ChainOK(f) /\ Known(f) = Known(d)
  <2> HIDE DEF d
  <2>1. /\ DOMAIN f = Fields /\ f.meta = d.meta /\ f.blocks = d.blocks
        /\ f.tip_hash \in {d.tip_hash, b}
    <3>1. DOMAIN d = Fields
      BY <1>1
    <3>2. CASE ~ HasAncestry(d, b)
      BY <1>3, <3>1, <3>2 DEF WithCanonicalTip
    <3>3. CASE HasAncestry(d, b) /\ ~ HasState(d, b)
      BY <1>3, <3>1, <3>3 DEF WithCanonicalTip, Fields
    <3>4. CASE HasAncestry(d, b) /\ HasState(d, b)
      BY <1>3, <3>1, <3>4 DEF WithCanonicalTip, Fields
    <3>. QED  BY <3>2, <3>3, <3>4
  <2>2. Known(f) = Known(d)
    BY <2>1 DEF Known
  <2>. QED  BY <1>1, <1>2, <2>1, <2>2 DEF ChainOK
<1>4. CASE ApplyOutcome(c, b, now) \in {"AlreadyKnown", "Rejected"}
  <2>1. e = c
    BY <1>4 DEF TryApply
  <2>. QED  BY <1>4, <2>1
<1>5. CASE ApplyOutcome(c, b, now) = "AddedToFork"
  <2>1. e = d
    BY <1>5 DEF TryApply
  <2> HIDE DEF d
  <2>. QED  BY <1>1, <1>2, <2>1
<1>6. CASE ApplyOutcome(c, b, now) \notin {"AlreadyKnown", "Rejected", "AddedToFork"}
  <2>1. e = WithCanonicalTip(d, b)
    BY <1>6 DEF TryApply
  <2> HIDE DEF d
  <2>. QED  BY <1>1, <1>3, <2>1
<1>. QED  BY <1>4, <1>5, <1>6

(* What a node grinds on is a block of its own.                             *)
LEMMA CandidateIsOwn ==
    ASSUME NEW n, NEW s, Len(s.chain.tip_hash) \in Nat
    PROVE  /\ Len(Candidate(n, s)) \in Nat
           /\ Candidate(n, s) # Genesis /\ Header(Candidate(n, s)).miner = n
<1> DEFINE p == s.chain.tip_hash
           b == Candidate(n, s)
<1>1. PICK x : b = Extend(p, x) /\ x.miner = n
  BY DEF Candidate
<1>2. b = [i \in 1..(Len(p) + 1) |-> b[i]] /\ b[Len(p) + 1] = x
  BY <1>1 DEF Extend
<1> HIDE DEF b
<1>3. Len(b) = Len(p) + 1
  BY <1>2, FunctionLen
<1>4. b # Genesis
  BY <1>3 DEF Genesis
<1>. QED  BY <1>1, <1>2, <1>3, <1>4 DEF Header, b

(* Starting an attempt leaves the chain alone and adds an own attempt.      *)
LEMMA StartedFields ==
    ASSUME NEW n, NEW s, NodeOK(n, s)
    PROVE  NodeOK(n, Started(n, s)) /\ Started(n, s).chain = s.chain
<1> DEFINE a == [generation |-> NextGeneration(s), block |-> Candidate(n, s)]
           t == Started(n, s)
<1>1. OwnAttempt(n, a)
  <2>1. Len(s.chain.tip_hash) \in Nat
    BY DEF NodeOK, ChainOK
  <2>2. a.block = Candidate(n, s)
    OBVIOUS
  <2> HIDE DEF a
  <2>. QED  BY <2>1, <2>2, CandidateIsOwn DEF OwnAttempt
<1>2. /\ DOMAIN t = DOMAIN s /\ t.chain = s.chain
      /\ t.attempts \subseteq s.attempts \cup {a}
  BY DEF Started, NodeOK
<1> HIDE DEF a, t
<1>. QED  BY <1>1, <1>2 DEF NodeOK, t

(* The same when it depends on whether mining is on.                        *)
LEMMA RestartFields ==
    ASSUME NEW n, NEW s, NodeOK(n, s)
    PROVE  NodeOK(n, RestartIfActive(n, s)) /\ RestartIfActive(n, s).chain = s.chain
  BY StartedFields DEF RestartIfActive

(* Applying a block adds it or nothing to the chain, and it is gossiped on  *)
(* only when it is known.                                                   *)
LEMMA AppliedFields ==
    ASSUME NEW n, NEW s, NodeOK(n, s), NEW b, Len(b) \in Nat
    PROVE  LET t == Applied(n, s, b) IN
           /\ NodeOK(n, t)
           /\ Known(s.chain) \subseteq Known(t.chain)
           /\ Known(t.chain) \subseteq Known(s.chain) \cup {b}
           /\ Accepts(n, s, b) => b \in Known(t.chain)
<1> DEFINE e == TryApply(s.chain, b, Clock[n])
           r == [s EXCEPT !.chain = TryApply(@, b, Clock[n]),
                          !.mempool = @ \ Header(b).txs]
           t == Applied(n, s, b)
<1>1. /\ ChainOK(e)
      /\ Known(s.chain) \subseteq Known(e) /\ Known(e) \subseteq Known(s.chain) \cup {b}
      /\ Accepts(n, s, b) => b \in Known(e)
  BY TryApplyGrows DEF NodeOK, Accepts, Outcome
<1>2. DOMAIN r = DOMAIN s /\ r.chain = e /\ r.attempts = s.attempts
  <2> HIDE DEF e
  <2>. QED  BY DEF NodeOK, e
<1>3. NodeOK(n, r)
  <2> HIDE DEF e, r
  <2>. QED  BY <1>1, <1>2 DEF NodeOK
<1>4. CASE ~ Accepts(n, s, b)
  BY <1>4 DEF Applied
<1>5. CASE Accepts(n, s, b)
  <2>1. t \in {r, RestartIfActive(n, r)}
    BY <1>5 DEF Applied
  <2>2. NodeOK(n, t) /\ t.chain = e
    <3> HIDE DEF r, t, e
    <3>. QED  BY <1>2, <1>3, <2>1, RestartFields
  <2> HIDE DEF t, e
  <2>. QED  BY <1>1, <2>2 DEF t
<1>. QED  BY <1>4, <1>5

IsBatch(blocks) ==
    Len(blocks) \in Nat /\ \A i \in 1..Len(blocks) : Len(blocks[i]) \in Nat

(* e knows what c does and some of the blocks, and no more.                 *)
GrownBy(c, e, blocks) ==
    /\ Known(c) \subseteq Known(e)
    /\ \A b \in Known(e) \ Known(c) : \E i \in 1..Len(blocks) : b = blocks[i]

(* One block of a batch: nothing after an error.                            *)
BatchStep(n, q, b) ==
    IF ~ q.ok THEN q
    ELSE [s |-> [q.s EXCEPT !.mempool = @ \ Header(b).txs,
                            !.chain = TryApply(@, b, Clock[n])],
          ok |-> Outcome(n, q.s, b) \notin {"Rejected", "Failed"}]

(* f[i] is what there is after i blocks.                                    *)
BatchRun(n, s, blocks, f) ==
    /\ f[0] = [s |-> s, ok |-> TRUE]
    /\ \A i \in 1..Len(blocks) : f[i] = BatchStep(n, f[i - 1], blocks[i])

(* A batch is applied a block at a time.  That the recursion over it has a  *)
(* function that satisfies it is induction on how far it is defined.        *)
LEMMA BatchSteps ==
    ASSUME NEW n, NEW s, NEW blocks, Len(blocks) \in Nat
    PROVE  \E f : BatchRun(n, s, blocks, f) /\ BatchApplied(n, s, blocks) = f[Len(blocks)]
<1> DEFINE N == Len(blocks)
           Rec(f, k) == f = [i \in 0..k |-> IF i = 0 THEN [s |-> s, ok |-> TRUE]
                                            ELSE BatchStep(n, f[i - 1], blocks[i])]
           upto == CHOOSE f : Rec(f, N)
<1>1. \E f : Rec(f, N)
  <2> DEFINE K == {k \in Nat : \E f : Rec(f, k)}
  <2>1. 0 \in K
    <3> DEFINE f == [i \in 0..0 |-> [s |-> s, ok |-> TRUE]]
    <3>1. Rec(f, 0)
      OBVIOUS
    <3>. QED  BY <3>1
  <2>2. ASSUME NEW k \in Nat, k \in K
        PROVE  k + 1 \in K
    <3>1. PICK f : Rec(f, k)
      BY <2>2
    <3> DEFINE g == [i \in 0..(k + 1) |-> IF i = k + 1 THEN BatchStep(n, f[k], blocks[k + 1])
                                          ELSE f[i]]
    <3>2. \A i \in 0..k : g[i] = f[i]
      OBVIOUS
    <3>3. \A i \in 0..k : f[i] = IF i = 0 THEN [s |-> s, ok |-> TRUE]
                                 ELSE BatchStep(n, f[i - 1], blocks[i])
      BY <3>1
    <3>4. ASSUME NEW i \in 0..(k + 1)
          PROVE  g[i] = IF i = 0 THEN [s |-> s, ok |-> TRUE]
                        ELSE BatchStep(n, g[i - 1], blocks[i])
      <4>1. CASE i = k + 1
        <5>1. i # 0 /\ i - 1 = k /\ k \in 0..k
          BY <4>1
        <5>2. g[i] = BatchStep(n, f[k], blocks[k + 1]) /\ g[i - 1] = f[k]
          BY <3>2, <4>1, <5>1
        <5> HIDE DEF g
        <5>. QED  BY <4>1, <5>1, <5>2
      <4>2. CASE i # k + 1
        <5>1. i \in 0..k /\ (i # 0 => i - 1 \in 0..k)
          BY <4>2
        <5> HIDE DEF g
        <5>. QED  BY <3>2, <3>3, <5>1
      <4>. QED  BY <4>1, <4>2
    <3>5. Rec(g, k + 1)
      <4>1. g = [i \in 0..(k + 1) |-> g[i]]
        OBVIOUS
      <4> HIDE DEF g
      <4>2. [i \in 0..(k + 1) |-> g[i]] =
            [i \in 0..(k + 1) |-> IF i = 0 THEN [s |-> s, ok |-> TRUE]
                                 ELSE BatchStep(n, g[i - 1], blocks[i])]
        BY <3>4
      <4>. QED  BY <4>1, <4>2
    <3> HIDE DEF g, Rec
    <3>6. \E h : Rec(h, k + 1)
      BY <3>5
    <3>. QED  BY <3>6
  <2>3. Nat \subseteq K
    <3> HIDE DEF K
    <3>. QED  BY <2>1, <2>2, NatInductionOnSets
  <2>. QED  BY <2>3
<1>2. Rec(upto, N)
  <2> HIDE DEF Rec
  <2>. QED  BY <1>1
<1>3. BatchApplied(n, s, blocks) = upto[N]
  BY DEF BatchApplied, BatchStep
<1>4. \A i \in 0..N : upto[i] = IF i = 0 THEN [s |-> s, ok |-> TRUE]
                                ELSE BatchStep(n, upto[i - 1], blocks[i])
  <2> HIDE DEF upto
  <2>. QED  BY <1>2
<1>5. upto[0] = [s |-> s, ok |-> TRUE]
  <2>1. 0 \in 0..N
    OBVIOUS
  <2> HIDE DEF upto, N
  <2>. QED  BY <1>4, <2>1, Zenon
<1>6. \A i \in 1..N : upto[i] = BatchStep(n, upto[i - 1], blocks[i])
  <2>1. \A i \in 1..N : i \in 0..N /\ i # 0
    OBVIOUS
  <2> HIDE DEF upto
  <2>. QED  BY <1>4, <2>1
<1> HIDE DEF upto
<1>7. BatchRun(n, s, blocks, upto)
  BY <1>5, <1>6 DEF BatchRun
<1>. QED  BY <1>3, <1>7

(* A batch of blocks adds some of them, an error in between or not.         *)
LEMMA BatchFields ==
    ASSUME NEW n, NEW s, NodeOK(n, s), NEW blocks, IsBatch(blocks)
    PROVE  /\ NodeOK(n, BatchApplied(n, s, blocks).s)
           /\ GrownBy(s.chain, BatchApplied(n, s, blocks).s.chain, blocks)
<1> USE DEF IsBatch, GrownBy
<1> DEFINE N == Len(blocks)
           Good(q) == /\ NodeOK(n, q.s)
                      /\ Known(s.chain) \subseteq Known(q.s.chain)
                      /\ \A b \in Known(q.s.chain) \ Known(s.chain) :
                            \E i \in 1..N : b = blocks[i]
<1>2. PICK upto : BatchRun(n, s, blocks, upto) /\ BatchApplied(n, s, blocks) = upto[N]
  BY BatchSteps
<1>3. /\ upto[0] = [s |-> s, ok |-> TRUE]
      /\ \A i \in 1..N : upto[i] = BatchStep(n, upto[i - 1], blocks[i])
  BY <1>2 DEF BatchRun
<1>5. Good(upto[0])
  BY <1>3
<1>6. ASSUME NEW i \in 1..N, NEW q, Good(q)
      PROVE  Good(BatchStep(n, q, blocks[i]))
  <2>1. CASE ~ q.ok
    BY <1>6, <2>1 DEF BatchStep
  <2>2. CASE q.ok
    <3> DEFINE b == blocks[i]
               e == TryApply(q.s.chain, b, Clock[n])
               t == [q.s EXCEPT !.mempool = @ \ Header(b).txs,
                                !.chain = TryApply(@, b, Clock[n])]
    <3>1. NodeOK(n, q.s) /\ Len(b) \in Nat
      BY <1>6
    <3>2. /\ ChainOK(e) /\ Known(q.s.chain) \subseteq Known(e)
          /\ Known(e) \subseteq Known(q.s.chain) \cup {b}
      <4> HIDE DEF b
      <4>. QED  BY <3>1, TryApplyGrows DEF NodeOK
    <3>3. DOMAIN t = DOMAIN q.s /\ t.chain = e /\ t.attempts = q.s.attempts
      <4> HIDE DEF e, b
      <4>. QED  BY <3>1 DEF NodeOK, e
    <3>4. NodeOK(n, t)
      <4> HIDE DEF e, t, b
      <4>. QED  BY <3>1, <3>2, <3>3 DEF NodeOK
    <3>5. BatchStep(n, q, b).s = t
      BY <2>2 DEF BatchStep
    <3> HIDE DEF e, t
    <3>6. \A k \in Known(t.chain) \ Known(s.chain) : \E j \in 1..N : k = blocks[j]
      BY <1>6, <3>2, <3>3
    <3>. QED  BY <1>6, <3>2, <3>3, <3>4, <3>5, <3>6
  <2>. QED  BY <2>1, <2>2
<1>7. \A i \in 0..N : Good(upto[i])
  <2> DEFINE G == {i \in Nat : i <= N => Good(upto[i])}
  <2> HIDE DEF Good
  <2>1. 0 \in G
    BY <1>5
  <2>2. ASSUME NEW i \in Nat, i \in G
        PROVE  i + 1 \in G
    <3>1. CASE i + 1 <= N
      <4>1. Good(upto[i]) /\ i + 1 \in 1..N
        BY <2>2, <3>1
      <4>2. upto[i + 1] = BatchStep(n, upto[i], blocks[i + 1])
        <5>1. (i + 1) - 1 = i
          OBVIOUS
        <5>. QED  BY <1>3, <4>1, <5>1
      <4>. QED  BY <1>6, <4>1, <4>2
    <3>2. CASE ~ (i + 1 <= N)
      BY <3>2
    <3>. QED  BY <3>1, <3>2
  <2>3. Nat \subseteq G
    <3> HIDE DEF G
    <3>. QED  BY <2>1, <2>2, NatInductionOnSets
  <2>. QED  BY <2>3
<1>8. Good(upto[N])
  <2> HIDE DEF Good
  <2>. QED  BY <1>7
<1>. QED  BY <1>2, <1>8

-----------------------------------------------------------------------------
(* What a step leaves of the invariant *)

(* Publishing adds the messages to what the links carry.                    *)
LEMMA PublishedLinks ==
    ASSUME NEW L, Wired(L), NEW n \in Node, NEW msgs, IsSeq(msgs)
    PROVE  /\ Wired(Published(L, n, msgs))
           /\ Carried(Published(L, n, msgs)) \subseteq Carried(L) \cup Items(msgs)
<1> DEFINE P == Published(L, n, msgs)
<1>1. /\ DOMAIN P = Node
      /\ \A m \in Node : DOMAIN P[m] = Node
      /\ \A m, k \in Node : P[m][k] = L[m][k] \/ P[m][k] = L[m][k] \o msgs
  BY DEF Published, Wired
<1>2. \A m, k \in Node :
         /\ IsSeq(L[m][k]) /\ Items(L[m][k]) \subseteq Carried(L)
         /\ IsSeq(L[m][k] \o msgs)
         /\ Items(L[m][k] \o msgs) = Items(L[m][k]) \cup Items(msgs)
  <2> SUFFICES ASSUME NEW m \in Node, NEW k \in Node
               PROVE  /\ IsSeq(L[m][k]) /\ Items(L[m][k]) \subseteq Carried(L)
                      /\ IsSeq(L[m][k] \o msgs)
                      /\ Items(L[m][k] \o msgs) = Items(L[m][k]) \cup Items(msgs)
    OBVIOUS
  <2>1. IsSeq(L[m][k])
    BY DEF Wired
  <2>2. Items(L[m][k]) \subseteq Carried(L)
    BY DEF Carried
  <2>. QED  BY <2>1, <2>2, ConcatSeq
<1> HIDE DEF P
<1>3. Wired(P)
  <2>1. \A m, k \in Node : IsSeq(P[m][k])
    BY <1>1, <1>2
  <2>. QED  BY <1>1, <2>1 DEF Wired
<1>4. \A m, k \in Node : Items(P[m][k]) \subseteq Carried(L) \cup Items(msgs)
  <2> SUFFICES ASSUME NEW m \in Node, NEW k \in Node
               PROVE  Items(P[m][k]) \subseteq Carried(L) \cup Items(msgs)
    OBVIOUS
  <2>1. CASE P[m][k] = L[m][k]
    BY <1>2, <2>1
  <2>2. CASE P[m][k] = L[m][k] \o msgs
    BY <1>2, <2>2
  <2>. QED  BY <1>1, <2>1, <2>2
<1>. QED  BY <1>3, <1>4 DEF Carried, P

(* Taking a message off a link leaves the others.                           *)
LEMMA TakenLinks ==
    ASSUME Wired(link), NEW m \in Node, NEW n \in Node, link[m][n] # << >>
    PROVE  /\ Wired(Taken(m, n)) /\ Carried(Taken(m, n)) \subseteq Carried(link)
           /\ Head(link[m][n]) \in Carried(link)
<1> DEFINE T == Taken(m, n)
<1>1. /\ DOMAIN T = Node /\ \A i \in Node : DOMAIN T[i] = Node
      /\ \A i, k \in Node : T[i][k] = IF i = m /\ k = n THEN Tail(link[m][n])
                                      ELSE link[i][k]
  BY DEF Taken, Wired
<1>2. IsSeq(link[m][n])
  BY DEF Wired
<1>3. /\ IsSeq(Tail(link[m][n])) /\ Items(Tail(link[m][n])) \subseteq Items(link[m][n])
      /\ Head(link[m][n]) \in Items(link[m][n])
  BY <1>2, TailSeq
<1>4. \A i, k \in Node : IsSeq(link[i][k]) /\ Items(link[i][k]) \subseteq Carried(link)
  BY DEF Wired, Carried
<1> HIDE DEF T
<1>5. Wired(T)
  <2>1. \A i, k \in Node : IsSeq(T[i][k])
    BY <1>1, <1>3, <1>4
  <2>. QED  BY <1>1, <2>1 DEF Wired
<1>6. \A i, k \in Node : Items(T[i][k]) \subseteq Carried(link)
  BY <1>1, <1>3, <1>4
<1>7. Carried(T) \subseteq Carried(link)
  BY <1>6 DEF Carried
<1>8. Head(link[m][n]) \in Carried(link)
  BY <1>3, <1>4
<1>. QED  BY <1>5, <1>7, <1>8 DEF T

(* A node whose chain grew by blocks of its own and by blocks their miners  *)
(* know leaves every block known to its miner.                              *)
LEMMA NodeStep ==
    ASSUME IInv, NEW n \in Node, NEW t, node' = [node EXCEPT ![n] = t],
           NodeOK(n, t), Known(node[n].chain) \subseteq Known(t.chain),
           \A b \in Known(t.chain) \ Known(node[n].chain) :
              Owned(b) \/ (b # Genesis /\ Header(b).miner = n)
    PROVE  /\ NodesOK' /\ KnownAreOwned'
           /\ \A b : Owned(b) => Owned(b)'
           /\ \A b \in Known(t.chain) : Owned(b)'
           /\ \A m \in Node \ {n} : node'[m] = node[m]
           /\ node'[n] = t
<1>1. /\ DOMAIN node' = Node /\ node'[n] = t
      /\ \A m \in Node \ {n} : node'[m] = node[m]
  BY DEF IInv, NodesOK
<1>2. NodesOK'
  BY <1>1 DEF IInv, NodesOK
<1>3. \A m \in Node : Known(node[m].chain) \subseteq Known(node'[m].chain)
  BY <1>1
<1>4. \A b : Owned(b) => Owned(b)'
  BY <1>3 DEF Owned
<1>5. ASSUME NEW b \in Known(t.chain)
      PROVE  Owned(b)'
  <2>1. Len(b) \in Nat
    BY DEF NodeOK, ChainOK
  <2>2. CASE Owned(b)
    BY <1>4, <2>2
  <2>3. CASE b # Genesis /\ Header(b).miner = n
    BY <1>1, <2>1, <2>3 DEF Owned
  <2>4. CASE b \in Known(node[n].chain)
    <3>1. Owned(b)
      BY <2>4 DEF IInv, KnownAreOwned
    <3>. QED  BY <1>4, <3>1
  <2>. QED  BY <2>2, <2>3, <2>4
<1>6. KnownAreOwned'
  <2> SUFFICES ASSUME NEW m \in Node, NEW b \in Known(node'[m].chain)
               PROVE  Owned(b)'
    BY DEF KnownAreOwned
  <2>1. CASE m = n
    BY <1>1, <1>5, <2>1
  <2>2. CASE m # n
    <3>1. Owned(b)
      BY <1>1, <2>2 DEF IInv, KnownAreOwned
    <3>. QED  BY <1>4, <3>1
  <2>. QED  BY <2>1, <2>2
<1>. QED  BY <1>1, <1>2, <1>4, <1>5, <1>6

(* The links carry owned blocks, old ones and those published.              *)
LEMMA LinksStep ==
    ASSUME LinksOK, \A b : Owned(b) => Owned(b)',
           Wired(link'), NEW S, Carried(link') \subseteq Carried(link) \cup S,
           \A msg \in S : msg.kind = "block" => Owned(msg.block)'
    PROVE  LinksOK'
  BY DEF LinksOK, Wired, Carried

(* What a sync was told is still true of a chain that grew.                 *)
LEMMA SyncsStep ==
    ASSUME SyncsOK, \A b : Owned(b) => Owned(b)', UNCHANGED sync
    PROVE  SyncsOK'
<1>1. \A y : SyncOK(y) => SyncOK(y)'
  BY DEF SyncOK
<1>. QED  BY <1>1 DEF SyncsOK

-----------------------------------------------------------------------------
(* Step by step *)

(* While a node is not mining, what its chain gains its miner knows.        *)
GainsAreOwned ==
    \A n \in Node : node[n].active = 0 =>
        \A b \in Known(node'[n].chain) \ Known(node[n].chain) : Owned(b)

(* A step that leaves the chains alone.                                     *)
LEMMA QuietStep ==
    ASSUME IInv, NEW n \in Node, NEW t, node' = [node EXCEPT ![n] = t],
           NodeOK(n, t), t.chain = node[n].chain
    PROVE  /\ NodesOK' /\ KnownAreOwned' /\ GainsAreOwned
           /\ \A b : Owned(b) => Owned(b)'
<1>1. /\ NodesOK' /\ KnownAreOwned' /\ \A b : Owned(b) => Owned(b)'
      /\ \A m \in Node : node'[m].chain = node[m].chain
  BY NodeStep
<1>. QED  BY <1>1 DEF GainsAreOwned

(* The app's commands.                                                      *)
LEMMA CommandSteps ==
    ASSUME IInv, NEW n \in Node,
           \/ \E name \in Name : SubmitUsernameClaim(n, name)
           \/ StartMining(n) \/ StopMining(n)
    PROVE  IInv' /\ GainsAreOwned
<1>1. NodeOK(n, node[n]) /\ DOMAIN node = Node
  BY DEF IInv, NodesOK
<1>2. CASE \E name \in Name : SubmitUsernameClaim(n, name)
  <2>1. PICK tx, msgs, t :
           /\ t = [node[n] EXCEPT !.mempool = @ \cup {tx}]
           /\ node' = [node EXCEPT ![n] = t]
           /\ msgs = << [kind |-> "tx", tx |-> tx] >>
           /\ link' = Published(link, n, msgs) /\ sync' = sync
    BY <1>2 DEF SubmitUsernameClaim
  <2>2. NodeOK(n, t) /\ t.chain = node[n].chain
    BY <1>1, <2>1 DEF NodeOK
  <2>3. NodesOK' /\ KnownAreOwned' /\ GainsAreOwned /\ \A b : Owned(b) => Owned(b)'
    BY <2>1, <2>2, QuietStep
  <2>4. IsSeq(msgs) /\ Items(msgs) = {[kind |-> "tx", tx |-> tx]}
    BY <2>1, ShortSeqs
  <2>5. LinksOK /\ Wired(link)
    BY DEF IInv, LinksOK
  <2>6. LinksOK'
    <3>1. Wired(link') /\ Carried(link') \subseteq Carried(link) \cup Items(msgs)
      BY <2>1, <2>4, <2>5, PublishedLinks
    <3>2. \A msg \in Items(msgs) : msg.kind # "block"
      BY <2>4
    <3>. QED  BY <2>3, <2>5, <3>1, <3>2, LinksStep
  <2>. QED  BY <2>1, <2>3, <2>6, SyncsStep DEF IInv
<1>3. CASE StartMining(n) \/ StopMining(n)
  <2>1. PICK t : /\ t \in {Started(n, node[n]), [node[n] EXCEPT !.active = 0]}
                 /\ node' = [node EXCEPT ![n] = t]
                 /\ link' = link /\ sync' = sync
    BY <1>3 DEF StartMining, StopMining
  <2>2. NodeOK(n, t) /\ t.chain = node[n].chain
    <3>1. CASE t = Started(n, node[n])
      BY <1>1, <3>1, StartedFields
    <3>2. CASE t = [node[n] EXCEPT !.active = 0]
      BY <1>1, <3>2 DEF NodeOK
    <3>. QED  BY <2>1, <3>1, <3>2
  <2>3. NodesOK' /\ KnownAreOwned' /\ GainsAreOwned /\ \A b : Owned(b) => Owned(b)'
    BY <2>1, <2>2, QuietStep
  <2>4. LinksOK'
    BY <2>1, <2>3, LinksStep DEF IInv, LinksOK
  <2>. QED  BY <2>1, <2>3, <2>4, SyncsStep DEF IInv
<1>. QED  BY <1>2, <1>3

(* What a node gossips on after applying a block.                           *)
LEMMA GossipItems ==
    ASSUME NEW n, NEW s, NEW b
    PROVE  /\ IsSeq(Gossip(n, s, b))
           /\ \A msg \in Items(Gossip(n, s, b)) : Accepts(n, s, b) /\ msg.block = b
  BY ShortSeqs DEF Gossip

(* The attempt's result: only the current one's block counts.               *)
LEMMA MiningStep ==
    ASSUME IInv, NEW n \in Node, NEW a \in node[n].attempts, MiningResult(n, a)
    PROVE  IInv' /\ GainsAreOwned
<1> DEFINE s == [node[n] EXCEPT !.attempts = @ \ {a}]
           b == a.block
           t == Applied(n, s, b)
           u == node'[n]
<1>1. NodeOK(n, node[n]) /\ DOMAIN node = Node /\ LinksOK /\ Wired(link) /\ SyncsOK
  BY DEF IInv, NodesOK, LinksOK
<1>2. /\ NodeOK(n, s) /\ s.chain = node[n].chain /\ s.active = node[n].active
      /\ OwnAttempt(n, a)
  BY <1>1 DEF NodeOK
<1>3. Len(b) \in Nat /\ b # Genesis /\ Header(b).miner = n
  BY <1>2 DEF OwnAttempt
<1>4. /\ NodeOK(n, t)
      /\ Known(s.chain) \subseteq Known(t.chain)
      /\ Known(t.chain) \subseteq Known(s.chain) \cup {b}
      /\ Accepts(n, s, b) => b \in Known(t.chain)
  <2> HIDE DEF s, b
  <2>. QED  BY <1>2, <1>3, AppliedFields
<1>5. CASE ~ IsCurrent(s, a)
  <2>1. node' = [node EXCEPT ![n] = s] /\ link' = link /\ sync' = sync
    BY <1>5 DEF MiningResult
  <2> HIDE DEF s
  <2>2. NodesOK' /\ KnownAreOwned' /\ GainsAreOwned /\ \A k : Owned(k) => Owned(k)'
    BY <1>2, <2>1, QuietStep
  <2>3. LinksOK'
    BY <1>1, <2>1, <2>2, LinksStep DEF LinksOK
  <2>. QED  BY <1>1, <2>1, <2>2, <2>3, SyncsStep DEF IInv
<1>6. CASE IsCurrent(s, a)
  <2>1. PICK v : /\ v \in {t, RestartIfActive(n, t)}
                 /\ node' = [node EXCEPT ![n] = v]
                 /\ link' = Published(link, n, Gossip(n, s, b)) /\ sync' = sync
    BY <1>6 DEF MiningResult
  <2>2. node[n].active # 0
    BY <1>2, <1>6 DEF IsCurrent
  <2> HIDE DEF s, t, b
  <2>3. NodeOK(n, v) /\ v.chain = t.chain
    BY <1>4, <2>1, RestartFields
  <2>4. \A k \in Known(v.chain) \ Known(node[n].chain) :
           k # Genesis /\ Header(k).miner = n
    BY <1>2, <1>3, <1>4, <2>3
  <2>5. /\ NodesOK' /\ KnownAreOwned' /\ \A k : Owned(k) => Owned(k)'
        /\ \A k \in Known(v.chain) : Owned(k)'
        /\ \A m \in Node \ {n} : node'[m] = node[m]
    BY <1>2, <1>4, <2>1, <2>3, <2>4, NodeStep
  <2>6. GainsAreOwned
    BY <2>2, <2>5 DEF GainsAreOwned
  <2>7. LinksOK'
    <3> DEFINE msgs == Gossip(n, s, b)
    <3>1. IsSeq(msgs) /\ \A msg \in Items(msgs) : Accepts(n, s, b) /\ msg.block = b
      BY GossipItems
    <3>2. \A msg \in Items(msgs) : Owned(msg.block)'
      <4>1. Accepts(n, s, b) => Owned(b)'
        BY <1>4, <2>3, <2>5
      <4> HIDE DEF msgs
      <4>. QED  BY <3>1, <4>1
    <3> HIDE DEF msgs
    <3>3. Wired(link') /\ Carried(link') \subseteq Carried(link) \cup Items(msgs)
      BY <1>1, <2>1, <3>1, PublishedLinks DEF msgs
    <3>. QED  BY <1>1, <2>5, <3>2, <3>3, LinksStep
  <2>. QED  BY <1>1, <2>1, <2>5, <2>6, <2>7, SyncsStep DEF IInv
<1>. QED  BY <1>5, <1>6

(* Gossip delivered or lost.                                                *)
LEMMA GossipSteps ==
    ASSUME IInv, NEW m \in Node, NEW n \in Node,
           DeliverBlock(m, n) \/ DeliverClaim(m, n) \/ LoseGossip(m, n)
    PROVE  IInv' /\ GainsAreOwned
<1> DEFINE msg == Head(link[m][n])
<1>1. NodeOK(n, node[n]) /\ DOMAIN node = Node /\ LinksOK /\ Wired(link) /\ SyncsOK
  BY DEF IInv, NodesOK, LinksOK
<1>2. sync' = sync /\ link[m][n] # << >>
  BY DEF DeliverBlock, DeliverClaim, LoseGossip
<1>3. /\ Wired(Taken(m, n)) /\ Carried(Taken(m, n)) \subseteq Carried(link)
      /\ msg \in Carried(link)
  BY <1>1, <1>2, TakenLinks
<1>4. CASE DeliverBlock(m, n)
  <2>0. PICK b : b = msg.block
    OBVIOUS
  <2> DEFINE s == node[n]
             t == Applied(n, s, b)
             out == Gossip(n, s, b)
  <2>1. /\ node' = [node EXCEPT ![n] = t]
        /\ link' = Published(Taken(m, n), n, out)
    BY <1>4, <2>0 DEF DeliverBlock
  <2>2. Owned(b)
    BY <1>1, <1>3, <1>4, <2>0 DEF DeliverBlock, LinksOK
  <2>3. /\ NodeOK(n, t)
        /\ Known(s.chain) \subseteq Known(t.chain)
        /\ Known(t.chain) \subseteq Known(s.chain) \cup {b}
        /\ Accepts(n, s, b) => b \in Known(t.chain)
    <3>1. Len(b) \in Nat
      BY <2>2 DEF Owned
    <3> HIDE DEF s
    <3>. QED  BY <1>1, <3>1, AppliedFields DEF s
  <2> HIDE DEF t, out, msg
  <2>4. /\ NodesOK' /\ KnownAreOwned' /\ \A k : Owned(k) => Owned(k)'
        /\ node'[n] = t /\ \A k \in Node \ {n} : node'[k] = node[k]
    BY <2>1, <2>2, <2>3, NodeStep
  <2>5. GainsAreOwned
    <3> SUFFICES ASSUME NEW k \in Node,
                        NEW g \in Known(node'[k].chain) \ Known(node[k].chain)
                 PROVE  Owned(g)
      BY DEF GainsAreOwned
    <3>. QED  BY <2>2, <2>3, <2>4
  <2>6. IsSeq(out) /\ \A x \in Items(out) : Owned(x.block)'
    <3>1. IsSeq(out) /\ \A x \in Items(out) : x.block = b
      BY GossipItems DEF out
    <3>2. Owned(b)'
      BY <2>2, <2>4
    <3>. QED  BY <3>1, <3>2
  <2>7. Wired(link') /\ Carried(link') \subseteq Carried(link) \cup Items(out)
    BY <1>3, <2>1, <2>6, PublishedLinks
  <2>8. LinksOK'
    BY <1>1, <2>4, <2>6, <2>7, LinksStep
  <2>. QED  BY <1>1, <1>2, <2>4, <2>5, <2>8, SyncsStep DEF IInv
<1>5. CASE DeliverClaim(m, n)
  <2> DEFINE s == [node[n] EXCEPT !.mempool = @ \cup {msg.tx}]
             t == WithClaim(n, node[n], msg.tx)
  <2>1. node' = [node EXCEPT ![n] = t] /\ link' = Taken(m, n)
    BY <1>5 DEF DeliverClaim
  <2>2. NodeOK(n, s) /\ s.chain = node[n].chain
    BY <1>1 DEF NodeOK
  <2>3. t = RestartIfActive(n, s)
    BY DEF WithClaim
  <2>4. NodeOK(n, t) /\ t.chain = node[n].chain
    <3> HIDE DEF s, t
    <3>. QED  BY <2>2, <2>3, RestartFields
  <2> HIDE DEF t
  <2>5. NodesOK' /\ KnownAreOwned' /\ GainsAreOwned /\ \A b : Owned(b) => Owned(b)'
    BY <2>1, <2>4, QuietStep
  <2>6. LinksOK'
    <3>1. Wired(link)' /\ Carried(link)' \subseteq Carried(link)
      BY <1>3, <2>1 DEF Wired, Carried
    <3>. QED  BY <1>1, <2>5, <3>1 DEF LinksOK
  <2>. QED  BY <1>1, <1>2, <2>5, <2>6, SyncsStep DEF IInv
<1>6. CASE LoseGossip(m, n)
  <2>1. node' = node /\ link' = Taken(m, n)
    BY <1>6 DEF LoseGossip
  <2>2. NodesOK' /\ KnownAreOwned' /\ GainsAreOwned /\ \A b : Owned(b) => Owned(b)'
    BY <2>1 DEF IInv, NodesOK, KnownAreOwned, GainsAreOwned, Owned
  <2>3. LinksOK'
    <3>1. Wired(link)' /\ Carried(link)' \subseteq Carried(link)
      BY <1>3, <2>1 DEF Wired, Carried
    <3>. QED  BY <1>1, <2>2, <3>1 DEF LinksOK
  <2>. QED  BY <1>1, <1>2, <2>2, <2>3, SyncsStep DEF IInv
<1>. QED  BY <1>4, <1>5, <1>6

(* The steps of a chain sync before its blocks are applied.                 *)
LEMMA SyncSteps ==
    ASSUME IInv, NEW n \in Node,
           \/ \E m \in Node \ {n} : RequestChainSync(n, m)
           \/ AnswerTip(n) \/ HandleTip(n) \/ AnswerBlocks(n) \/ SyncLost(n)
    PROVE  IInv' /\ GainsAreOwned
<1>1. DOMAIN node = Node /\ DOMAIN sync = Node /\ SyncOK(sync[n])
  BY DEF IInv, NodesOK, SyncsOK
<1>2. \A m \in Node : ChainOK(node[m].chain)
  BY DEF IInv, NodesOK, NodeOK
<1>3. \A m \in Node : TipHeight(node[m].chain) \in Nat
  BY <1>2 DEF ChainOK, TipHeight
<1>4. ASSUME NEW y, sync' = [sync EXCEPT ![n] = y], UNCHANGED <<node, link>>, SyncOK(y)
      PROVE  IInv' /\ GainsAreOwned
  <2>1. \A k \in Node : SyncOK(sync[k]) /\ sync'[k] \in {sync[k], y}
    BY <1>1, <1>4 DEF IInv, SyncsOK
  <2>2. DOMAIN sync' = Node /\ \A k \in Node : SyncOK(sync'[k])
    BY <1>1, <1>4, <2>1
  <2>3. \A b : Owned(b) <=> Owned(b)'
    BY <1>4 DEF Owned
  <2>4. \A x : SyncOK(x) => SyncOK(x)'
    BY <2>3 DEF SyncOK
  <2>5. SyncsOK'
    BY <2>2, <2>4 DEF SyncsOK
  <2>6. NodesOK' /\ KnownAreOwned' /\ LinksOK' /\ GainsAreOwned
    BY <1>4, <2>3
       DEF IInv, NodesOK, KnownAreOwned, LinksOK, GainsAreOwned, Wired, Carried
  <2>. QED  BY <2>5, <2>6 DEF IInv
<1>5. CASE \E m \in Node \ {n} : RequestChainSync(n, m)
  <2>1. PICK m \in Node \ {n} : RequestChainSync(n, m)
    BY <1>5
  <2>2. SyncOK([phase |-> "tip asked", peer |-> m])
    BY DEF SyncOK
  <2>. QED  BY <1>4, <2>1, <2>2 DEF RequestChainSync
<1>6. CASE AnswerTip(n)
  <2> DEFINE p == sync[n].peer
             y == [phase |-> "tip told", peer |-> p,
                   height |-> TipHeight(node[p].chain),
                   work |-> TipWork(node[p].chain)]
  <2>1. p \in Node
    BY <1>1, <1>6 DEF AnswerTip, SyncOK
  <2>2. SyncOK(y)
    BY <1>3, <2>1 DEF SyncOK
  <2>. QED  BY <1>4, <1>6, <2>2 DEF AnswerTip
<1>7. CASE HandleTip(n)
  <2> DEFINE c == node[n].chain
             x == [phase |-> "completed"]
             y == [phase |-> "blocks asked", peer |-> sync[n].peer,
                   from |-> FromHeight(c), count |-> BatchSize(c, sync[n].height)]
  <2>1. sync[n].peer \in Node /\ sync[n].height \in Nat
    BY <1>1, <1>7 DEF HandleTip, SyncOK
  <2>2. FromHeight(c) \in Nat
    BY <1>3 DEF FromHeight
  <2>3. BatchSize(c, sync[n].height) \in Nat
    <3> DEFINE k == sync[n].height
               h == TipHeight(c)
    <3>1. k \in Nat /\ h \in Nat /\ MaxBatch \in Nat
      BY <1>3, <2>1, NodeAssumption
    <3> HIDE DEF k, h
    <3>2. \A j \in Int : (IF j < 0 \/ j > MaxBatch THEN MaxBatch ELSE j) \in Nat
      BY <3>1
    <3>. QED  BY <3>1, <3>2 DEF BatchSize, k, h
  <2>4. SyncOK(x) /\ SyncOK(y)
    <3>1. SyncOK(x)
      BY DEF SyncOK
    <3>2. SyncOK(y)
      <4> HIDE DEF c
      <4>. QED  BY <2>1, <2>2, <2>3 DEF SyncOK
    <3>. QED  BY <3>1, <3>2
  <2>5. \E z \in {x, y} : sync' = [sync EXCEPT ![n] = z]
    BY <1>7 DEF HandleTip
  <2>6. UNCHANGED <<node, link>>
    BY <1>7 DEF HandleTip
  <2> HIDE DEF x, y
  <2>. QED  BY <1>4, <2>4, <2>5, <2>6
<1>8. CASE AnswerBlocks(n)
  <2> DEFINE p == sync[n].peer
             c == node[p].chain
             from == sync[n].from
             count == sync[n].count
             f == [i \in 1..count |-> c.canonical_index[from + i - 1]]
             x == [phase |-> "failed"]
             y == [phase |-> "blocks told", peer |-> p, blocks |-> f]
  <2>1. p \in Node /\ from \in Nat /\ count \in Nat
    BY <1>1, <1>8 DEF AnswerBlocks, SyncOK
  <2>2. Len(f) = count
    <3>1. f = [i \in 1..count |-> f[i]]
      OBVIOUS
    <3> HIDE DEF f, count
    <3>. QED  BY <2>1, <3>1, FunctionLen
  <2>3. ASSUME \A h \in from..(from + count - 1) : CanServe(c, h)
        PROVE  SyncOK(y)
    <3>1. ASSUME NEW i \in 1..count
          PROVE  Owned(f[i])
      <4>1. from + i - 1 \in from..(from + count - 1)
        BY <2>1
      <4>2. f[i] \in c.blocks
        BY <2>3, <4>1 DEF CanServe
      <4>3. f[i] \in Known(c)
        BY <1>2, <2>1, <4>2 DEF ChainOK
      <4>. QED  BY <2>1, <4>3 DEF IInv, KnownAreOwned
    <3>2. y.phase = "blocks told" /\ y.blocks = f /\ y.peer = p
      OBVIOUS
    <3> HIDE DEF f, y, p, count
    <3>. QED  BY <2>1, <2>2, <3>1, <3>2 DEF SyncOK
  <2>4. SyncOK(x)
    BY DEF SyncOK
  <2>5. \/ sync' = [sync EXCEPT ![n] = x]
        \/ /\ \A h \in from..(from + count - 1) : CanServe(c, h)
           /\ sync' = [sync EXCEPT ![n] = y]
    BY <1>8 DEF AnswerBlocks
  <2>6. UNCHANGED <<node, link>>
    BY <1>8 DEF AnswerBlocks
  <2> HIDE DEF x, y, c, from, count
  <2>. QED  BY <1>4, <2>3, <2>4, <2>5, <2>6
<1>9. CASE SyncLost(n)
  <2>1. SyncOK([phase |-> "failed"])
    BY DEF SyncOK
  <2>. QED  BY <1>4, <1>9, <2>1 DEF SyncLost
<1>. QED  BY <1>5, <1>6, <1>7, <1>8, <1>9

(* The blocks of a sync: each one its miner knows.                          *)
LEMMA BlocksStep ==
    ASSUME IInv, NEW n \in Node, HandleBlocks(n)
    PROVE  IInv' /\ GainsAreOwned
<1> DEFINE s == node[n]
<1>1. PICK blocks : blocks = sync[n].blocks
  OBVIOUS
<1>2. PICK r : r = BatchApplied(n, s, blocks)
  OBVIOUS
<1>3. NodeOK(n, s) /\ DOMAIN node = Node /\ DOMAIN sync = Node
      /\ LinksOK /\ SyncsOK /\ SyncOK(sync[n])
  BY DEF IInv, NodesOK, SyncsOK
<1>4. Len(blocks) \in Nat /\ \A i \in 1..Len(blocks) : Owned(blocks[i])
  BY <1>1, <1>3 DEF HandleBlocks, SyncOK
<1>5. \A i \in 1..Len(blocks) : Len(blocks[i]) \in Nat
  BY <1>4 DEF Owned
<1>6. /\ NodeOK(n, r.s)
      /\ Known(s.chain) \subseteq Known(r.s.chain)
      /\ \A b \in Known(r.s.chain) \ Known(s.chain) :
            \E i \in 1..Len(blocks) : b = blocks[i]
  <2>1. IsBatch(blocks)
    BY <1>4, <1>5 DEF IsBatch
  <2> HIDE DEF s
  <2>2. NodeOK(n, r.s) /\ GrownBy(s.chain, r.s.chain, blocks)
    BY <1>2, <1>3, <2>1, BatchFields
  <2>. QED  BY <2>2 DEF GrownBy
<1>7. PICK t : /\ t \in {r.s, RestartIfActive(n, r.s)}
               /\ node' = [node EXCEPT ![n] = t] /\ link' = link
  BY <1>1, <1>2 DEF HandleBlocks
<1>8. PICK y : /\ y \in {[phase |-> "completed"], [phase |-> "failed"]}
               /\ sync' = [sync EXCEPT ![n] = y]
  BY <1>1, <1>2 DEF HandleBlocks
<1>9. NodeOK(n, t) /\ t.chain = r.s.chain
  BY <1>6, <1>7, RestartFields
<1>10. \A b \in Known(t.chain) \ Known(node[n].chain) : Owned(b)
  BY <1>4, <1>6, <1>9
<1>11. /\ NodesOK' /\ KnownAreOwned' /\ \A b : Owned(b) => Owned(b)'
       /\ node'[n] = t /\ \A m \in Node \ {n} : node'[m] = node[m]
  BY <1>6, <1>7, <1>9, <1>10, NodeStep
<1>12. GainsAreOwned
  <2> SUFFICES ASSUME NEW k \in Node,
                      NEW b \in Known(node'[k].chain) \ Known(node[k].chain)
               PROVE  Owned(b)
    BY DEF GainsAreOwned
  <2>. QED  BY <1>10, <1>11
<1>13. LinksOK'
  BY <1>3, <1>7, <1>11 DEF LinksOK, Wired, Carried
<1>14. SyncsOK'
  <2>1. \A x : SyncOK(x) => SyncOK(x)'
    BY <1>11 DEF SyncOK
  <2>2. SyncOK(y)
    <3>1. y.phase \in {"completed", "failed"}
      BY <1>8
    <3>. QED  BY <3>1 DEF SyncOK
  <2>3. DOMAIN sync' = Node /\ \A k \in Node : SyncOK(sync'[k])
    BY <1>3, <1>8, <2>2 DEF SyncsOK
  <2>. QED  BY <2>1, <2>3 DEF SyncsOK
<1>. QED  BY <1>11, <1>12, <1>13, <1>14 DEF IInv

(* Every step keeps the invariant, and adds to a chain whose node is not    *)
(* mining only blocks their miners know.                                    *)
LEMMA NextStep ==
    ASSUME IInv, [Next]_vars
    PROVE  IInv' /\ GainsAreOwned
<1>1. CASE UNCHANGED vars
  <2>1. node' = node /\ link' = link /\ sync' = sync
    BY <1>1 DEF vars
  <2>2. NodesOK' /\ KnownAreOwned' /\ GainsAreOwned /\ \A b : Owned(b) => Owned(b)'
    BY <2>1 DEF IInv, NodesOK, KnownAreOwned, GainsAreOwned, Owned
  <2>3. LinksOK'
    BY <2>1, <2>2 DEF IInv, LinksOK, Wired, Carried
  <2>. QED  BY <2>1, <2>2, <2>3, SyncsStep DEF IInv
<1>2. CASE \E n \in Claimants, name \in Name : SubmitUsernameClaim(n, name)
  BY <1>2, CommandSteps, NodeAssumption
<1>3. CASE \E n \in Miners : StartMining(n) \/ StopMining(n)
  BY <1>3, CommandSteps, NodeAssumption
<1>4. ASSUME NEW n \in Node, FindBlock(n) \/ Deliver(n) \/ Sync(n) \/ SyncLost(n)
      PROVE  IInv' /\ GainsAreOwned
  <2>1. CASE FindBlock(n)
    BY <2>1, MiningStep DEF FindBlock
  <2>2. CASE Deliver(n)
    BY <2>2, GossipSteps DEF Deliver
  <2>3. CASE AnswerTip(n) \/ HandleTip(n) \/ AnswerBlocks(n) \/ SyncLost(n)
    BY <2>3, SyncSteps
  <2>4. CASE HandleBlocks(n)
    BY <2>4, BlocksStep
  <2>. QED  BY <1>4, <2>1, <2>2, <2>3, <2>4 DEF Sync
<1>5. CASE \E m, n \in Node : LoseGossip(m, n)
  BY <1>5, GossipSteps
<1>6. CASE \E n \in Syncers : \E m \in Node \ {n} : RequestChainSync(n, m)
  BY <1>6, SyncSteps, NodeAssumption
<1>. QED  BY <1>1, <1>2, <1>3, <1>4, <1>5, <1>6 DEF Next

(* It holds of the first state.                                             *)
LEMMA InitOK == Init => IInv
<1> SUFFICES ASSUME Init PROVE IInv
  OBVIOUS
<1>1. Len(Genesis) = 0
  BY DEF Genesis
<1>2. ChainOK(NewChain) /\ Known(NewChain) = {Genesis}
  BY <1>1 DEF ChainOK, NewChain, Fields, Known
<1>3. \A n \in Node : NodeOK(n, NewNode)
  <2> HIDE DEF NewChain
  <2>. QED  BY <1>2 DEF NodeOK, NewNode
<1>4. \A n \in Node : node[n] = NewNode
  BY DEF Init
<1>5. NodesOK
  BY <1>3 DEF Init, NodesOK
<1>6. KnownAreOwned
  <2> HIDE DEF NewChain, Genesis
  <2>. QED  BY <1>1, <1>2, <1>4 DEF KnownAreOwned, Owned, NewNode
<1>7. LinksOK
  <2>1. DOMAIN link = Node /\ \A m \in Node : DOMAIN link[m] = Node
    BY DEF Init
  <2>2. \A m, n \in Node : link[m][n] = << >>
    BY DEF Init
  <2>3. \A m, n \in Node : IsSeq(link[m][n]) /\ Items(link[m][n]) = {}
    BY <2>2, ShortSeqs
  <2>4. Wired(link)
    BY <2>1, <2>3 DEF Wired
  <2>5. Carried(link) = {}
    <3>1. \A S \in {Items(link[m][n]) : m, n \in Node} : S = {}
      BY <2>3
    <3>. QED  BY <3>1 DEF Carried
  <2>. QED  BY <2>4, <2>5 DEF LinksOK
<1>8. SyncsOK
  BY DEF Init, SyncsOK, SyncOK
<1>. QED  BY <1>5, <1>6, <1>7, <1>8 DEF IInv

(* Wherever a block is, in a chain, on a link or in a sync, its miner       *)
(* accepted it first.                                                       *)
THEOREM IInvHolds == Spec => []IInv
<1>1. IInv /\ [Next]_vars => IInv'
  BY NextStep
<1>. QED  BY <1>1, InitOK, PTL DEF Spec

(* Once mining is stopped, no earlier attempt's result counts, and nothing  *)
(* the network brings back is a block of one's own one does not know.       *)
THEOREM StoppedMinerAddsNothingHolds == Spec => StoppedMinerAddsNothing
<1>1. IInv /\ [Next]_vars =>
      [\A n \in Node : node[n].active = 0 =>
          \A b \in Known(node'[n].chain) \ Known(node[n].chain) : Header(b).miner # n]_vars
  <2> SUFFICES ASSUME IInv, [Next]_vars, NEW n \in Node, node[n].active = 0,
                      NEW b \in Known(node'[n].chain) \ Known(node[n].chain)
               PROVE  Header(b).miner # n
    OBVIOUS
  <2>1. Owned(b)
    BY NextStep DEF GainsAreOwned
  <2>2. b # Genesis
    BY DEF IInv, NodesOK, NodeOK, ChainOK
  <2>. QED  BY <2>1, <2>2 DEF Owned
<1>. QED  BY <1>1, IInvHolds, PTL DEF Spec, StoppedMinerAddsNothing

-----------------------------------------------------------------------------
(* What nodes mine and pass on *)

(* Every node's clock is after genesis and no other one is so far ahead of  *)
(* it that MaxHeight blocks, a second apart each, outrun the drift allowed. *)
ClocksAgree ==
    /\ \E m \in Node : GenesisTime < Clock[m]
    /\ \A m, n \in Node : Clock[m] + MaxHeight <= Clock[n] + MaxFutureDrift

(* A retarget stays within the compact targets.                             *)
RetargetStays == \A t \in Target : \A span \in Nat \ {0} : Retarget(t, span) \in Target

(* Ids are numbers and no two claims have the same one.                     *)
IdsDiffer(S) == \A t, u \in S : TxId(t) \in Nat /\ (TxId(t) = TxId(u) => t = u)

(* What apps may have submitted.                                            *)
Pool(S) == IsFiniteSet(S) /\ IdsDiffer(S) /\ \A tx \in S : tx.name \in Name

(* No block is later than a node's clock allows at its height.              *)
Timely(b) ==
    ClocksAgree => \A h \in 0..Len(b) : \E m \in Node : TimeAt(b, h) < Clock[m] + h

(* A block that is valid in its own history and in time for every node.     *)
Mineable(b) ==
    /\ Legal(b) /\ Timely(b)
    /\ b # Genesis => SelfContained(b, 0)

Mined(b) == Mineable(b) /\ Len(b) <= MaxHeight

(* A block is the one below it extended.                                    *)
LEMMA MineableParts ==
    ASSUME NEW b, Mineable(b), b # Genesis
    PROVE  /\ Legal(b) /\ Legal(Parent(b)) /\ IsBlock(Parent(b)) /\ Typed(Header(b))
           /\ b = Extend(Parent(b), Header(b)) /\ Lawful(b) /\ SelfContained(b, 0)
           /\ Len(b) \in Nat /\ Len(b) = Len(Parent(b)) + 1 /\ Len(Parent(b)) \in Nat
<1>1. Legal(b) /\ IsBlock(b) /\ Len(b) \in Nat /\ Len(b) \in 1..Len(b)
  BY LegalHeader DEF Mineable
<1>2. Prefix(b, Len(b)) = b
  BY <1>1, PrefixWhole
<1>3. /\ Parent(b) = Prefix(b, Len(b) - 1) /\ Header(b) = b[Len(b)]
      /\ b = Extend(Parent(b), Header(b))
  <2>1. /\ Parent(Prefix(b, Len(b))) = Prefix(b, Len(b) - 1)
        /\ Header(Prefix(b, Len(b))) = b[Len(b)]
        /\ Prefix(b, Len(b)) = Extend(Prefix(b, Len(b) - 1), b[Len(b)])
    BY <1>1, PrefixParts
  <2>. QED  BY <1>2, <2>1
<1>4. Legal(Parent(b)) /\ Len(Parent(b)) = Len(b) - 1
  <2>1. Len(b) - 1 \in 0..Len(b)
    BY <1>1
  <2>. QED  BY <1>1, <1>3, <2>1, LegalPrefix
<1>5. IsBlock(Parent(b))
  BY <1>4 DEF Legal
<1>6. Typed(Header(b)) /\ Lawful(b)
  BY <1>1, <1>2, <1>3 DEF Legal
<1>. QED  BY <1>1, <1>3, <1>4, <1>5, <1>6 DEF Mineable

(* Genesis is one.                                                          *)
LEMMA GenesisIsMined == Mined(Genesis)
<1>1. Legal(Genesis) /\ Len(Genesis) = 0
  BY GenesisIsLegal
<1>2. Timely(Genesis)
  <2> SUFFICES ASSUME ClocksAgree, NEW h \in 0..Len(Genesis)
               PROVE  \E m \in Node : TimeAt(Genesis, h) < Clock[m] + h
    BY DEF Timely
  <2>1. h = 0 /\ Prefix(Genesis, h) = Genesis
    BY <1>1 DEF Prefix, Genesis
  <2>2. TimeAt(Genesis, h) = GenesisTime
    BY <2>1 DEF TimeAt, Header, GenesisHeader
  <2>. QED  BY <2>1, <2>2, NodeAssumption DEF ClocksAgree
<1>. QED  BY <1>1, <1>2, NodeAssumption DEF Mined, Mineable

(* A block as late as its miner makes it is timely when the one below is:   *)
(* its time is the miner's own, or a second after one of its ancestors.     *)
LEMMA TimelyExtend ==
    ASSUME NEW c, FloorHeight(c) = 0, NEW p, Legal(p), Timely(p), NEW n \in Node, NEW x,
           x.timestamp = Clock[n] \/ x.timestamp = MedianTimePast(c, p) + 1,
           NEW b, b = Extend(p, x)
    PROVE  Timely(b)
<1>1. /\ IsBlock(p) /\ Len(p) \in Nat /\ IsBlock(b) /\ Len(b) = Len(p) + 1
      /\ Header(b) = x /\ Prefix(b, Len(b)) = b
      /\ \A h \in 0..Len(p) : Prefix(b, h) = Prefix(p, h)
  <2>1. IsBlock(p) /\ Len(p) \in Nat
    BY LegalHeader
  <2>. QED  BY <2>1, ExtendBlock, PrefixWhole
<1> SUFFICES ASSUME ClocksAgree, NEW h \in 0..Len(b)
             PROVE  \E m \in Node : TimeAt(b, h) < Clock[m] + h
  BY DEF Timely
<1>2. \A k \in 0..Len(p) : \E m \in Node : TimeAt(p, k) < Clock[m] + k
  BY DEF Timely
<1>3. CASE h # Len(b)
  <2>1. h \in 0..Len(p)
    BY <1>1, <1>3
  <2>. QED  BY <1>1, <1>2, <2>1 DEF TimeAt
<1>4. CASE h = Len(b)
  <2>1. TimeAt(b, h) = x.timestamp /\ h = Len(p) + 1
    BY <1>1, <1>4 DEF TimeAt
  <2>2. CASE x.timestamp = Clock[n]
    <3>1. Clock[n] \in Nat
      BY NodeAssumption
    <3>. QED  BY <1>1, <2>1, <2>2, <3>1
  <2>3. CASE x.timestamp = MedianTimePast(c, p) + 1
    <3>1. PICK k \in 0..Len(p) : MedianTimePast(c, p) = TimeAt(p, k)
      BY MedianHasRank
    <3>2. PICK m \in Node : TimeAt(p, k) < Clock[m] + k
      BY <1>2
    <3>3. TimeAt(p, k) \in Nat /\ Clock[m] \in Nat
      BY TimeIsNat, NodeAssumption
    <3>4. TimeAt(b, h) < Clock[m] + h
      BY <1>1, <2>1, <2>3, <3>1, <3>2, <3>3
    <3>. QED  BY <3>4
  <2>. QED  BY <2>2, <2>3
<1>. QED  BY <1>3, <1>4

(* And no node finds such a block too far in the future.                    *)
LEMMA TimelyIsInTime ==
    ASSUME ClocksAgree, NEW b, Legal(b), Timely(b), Len(b) <= MaxHeight + 1, NEW n \in Node
    PROVE  Header(b).timestamp <= Clock[n] + MaxFutureDrift
<1>1. IsBlock(b) /\ Len(b) \in Nat /\ Prefix(b, Len(b)) = b /\ Header(b).timestamp \in Nat
  BY LegalHeader, PrefixWhole
<1>2. PICK m \in Node : TimeAt(b, Len(b)) < Clock[m] + Len(b)
  <2>1. Len(b) \in 0..Len(b)
    BY <1>1
  <2>. QED  BY <2>1 DEF Timely
<1>3. /\ Clock[m] \in Nat /\ Clock[n] \in Nat /\ MaxHeight \in Nat /\ MaxFutureDrift \in Nat
      /\ Clock[m] + MaxHeight <= Clock[n] + MaxFutureDrift
  BY NodeAssumption, BoundsAssumption DEF ClocksAgree
<1>4. TimeAt(b, Len(b)) = Header(b).timestamp
  BY <1>1 DEF TimeAt
<1>. QED  BY <1>1, <1>2, <1>3, <1>4

(* A candidate's claims fit a block, are valid on the tip and differ in name*)
LEMMA SelectedFits ==
    ASSUME NEW S, Pool(S), NEW s, s.mempool \subseteq S
    PROVE  /\ Cardinality(Selected(s)) <= MaxTxs
           /\ Selected(s) \subseteq Includable(s) \cap S
           /\ \A t, u \in Selected(s) : t.name = u.name => t = u
<1> DEFINE valid == FirstOfEachName(s.mempool) \cap Includable(s)
           Before(tx) == {u \in valid : TxId(u) < TxId(tx)}
           chosen == Selected(s)
<1>1. /\ chosen = {tx \in valid : Cardinality(Before(tx)) < MaxTxs}
      /\ valid \subseteq S /\ valid \subseteq Includable(s)
      /\ \A tx \in valid : \A u \in valid : u.name = tx.name => TxId(tx) <= TxId(u)
  BY DEF Selected, FirstOfEachName, Includable
<1>2. IsFiniteSet(valid) /\ IsFiniteSet(chosen)
  BY <1>1, FS_Subset DEF Pool
<1>3. \A t, u \in valid : TxId(t) \in Nat /\ (TxId(t) = TxId(u) => t = u)
  BY <1>1 DEF Pool, IdsDiffer
<1> HIDE DEF valid, chosen
<1>4. \A t, u \in chosen : t.name = u.name => t = u
  <2> SUFFICES ASSUME NEW t \in chosen, NEW u \in chosen, t.name = u.name PROVE t = u
    OBVIOUS
  <2>1. TxId(t) <= TxId(u) /\ TxId(u) <= TxId(t) /\ t \in valid /\ u \in valid
    BY <1>1
  <2>2. TxId(t) \in Nat /\ TxId(u) \in Nat
    BY <1>3, <2>1
  <2>. QED  BY <1>3, <2>1, <2>2
<1>5. Cardinality(chosen) <= MaxTxs
  <2>1. MaxTxs \in Nat
    BY BoundsAssumption
  <2>2. CASE chosen = {}
    BY <2>1, <2>2, FS_EmptySet
  <2>3. CASE chosen # {}
    <3> DEFINE ids == {TxId(t) : t \in chosen}
    <3>1. ids \in SUBSET Int /\ ids # {} /\ IsFiniteSet(ids)
      <4>1. ids \in SUBSET Int /\ ids # {}
        <5>1. \A t \in chosen : TxId(t) \in Int
          BY <1>1, <1>3
        <5>2. ids # {}
          BY <2>3, Zenon
        <5>. QED  BY <5>1, <5>2
      <4>2. IsFiniteSet(ids)
        <5> DEFINE f == [t \in chosen |-> TxId(t)]
        <5>1. f \in Surjection(chosen, ids)
          BY DEF Surjection
        <5> HIDE DEF f, ids
        <5>. QED  BY <1>2, <5>1, FS_Surjection
      <4>. QED  BY <4>1, <4>2
    <3>2. PICK last \in chosen : \A t \in chosen : TxId(t) <= TxId(last)
      <4>1. PICK k \in ids : \A m \in ids : m <= k
        <5> HIDE DEF ids
        <5>. QED  BY <3>1, GreatestElement
      <4>. QED  BY <4>1
    <3>3. chosen \subseteq Before(last) \cup {last}
      <4> SUFFICES ASSUME NEW t \in chosen, t # last PROVE t \in Before(last)
        OBVIOUS
      <4>1. t \in valid /\ last \in valid
        BY <1>1
      <4>2. TxId(t) \in Nat /\ TxId(last) \in Nat /\ TxId(t) # TxId(last)
        BY <1>3, <4>1
      <4>3. TxId(t) < TxId(last)
        BY <3>2, <4>2
      <4>. QED  BY <4>1, <4>3
    <3>4. Cardinality(Before(last)) < MaxTxs
      BY <1>1
    <3> DEFINE B == Before(last)
    <3>5. IsFiniteSet(B) /\ last \notin B
      <4>1. B \subseteq valid
        OBVIOUS
      <4>2. TxId(last) \in Nat
        BY <1>1, <1>3
      <4>. QED  BY <1>2, <4>1, <4>2, FS_Subset
    <3> HIDE DEF B
    <3>6. /\ IsFiniteSet(B \cup {last})
          /\ Cardinality(B \cup {last}) = Cardinality(B) + 1 /\ Cardinality(B) \in Nat
      BY <3>5, FS_AddElement, FS_CardinalityType
    <3>7. /\ Cardinality(chosen) <= Cardinality(B \cup {last})
          /\ Cardinality(chosen) \in Nat
      <4>1. chosen \in SUBSET (B \cup {last})
        BY <3>3 DEF B
      <4>. QED  BY <1>2, <3>6, <4>1, FS_Subset, FS_CardinalityType
    <3>8. Cardinality(B) < MaxTxs
      BY <3>4 DEF B
    <3>. QED  BY <2>1, <3>6, <3>7, <3>8
  <2>. QED  BY <2>2, <2>3
<1>6. chosen \subseteq Includable(s) \cap S
  BY <1>1
<1>. QED  BY <1>4, <1>5, <1>6 DEF chosen

(* The interval a retarget looks back on never begins below genesis.        *)
LEMMA IntervalFits ==
    ASSUME NEW b, Legal(b)
    PROVE  OnRetargetBoundary(b) =>
               IntervalStart(b) \in 0..Len(b)
<1>1. Header(b).height = Len(b) /\ Len(b) \in Nat
  BY LegalHeader
<1>2. RetargetInterval \in Nat /\ RetargetInterval > 0
  BY BoundsAssumption
<1>3. \A n, r \in Nat : n > 0 /\ r > 0 /\ n % r = 0 => n - r >= 0
  <2> SUFFICES ASSUME NEW n \in Nat, NEW r \in Nat, n > 0, r > 0, n < r
               PROVE  n % r = n
    OBVIOUS
  <2>. QED  BY Z3
<1> DEFINE n == Len(b) + 1
           r == RetargetInterval
<1>4. n \in Nat /\ r \in Nat /\ n > 0 /\ r > 0
  BY <1>1, <1>2
<1>5. (OnRetargetBoundary(b) <=> n % r = 0) /\ IntervalStart(b) = n - r
  <2>1. OnRetargetBoundary(b) = (n % r = 0)
    BY <1>1, Zenon DEF OnRetargetBoundary
  <2>2. IntervalStart(b) = n - r
    BY <1>1, <1>4 DEF IntervalStart
  <2>. QED  BY <2>1, <2>2
<1> HIDE DEF r
<1>6. OnRetargetBoundary(b) => n - r >= 0
  <2> HIDE DEF n
  <2>. QED  BY <1>3, <1>4, <1>5
<1>7. n - r <= Len(b) /\ n - r \in Int
  BY <1>1, <1>4
<1>. QED  BY <1>1, <1>5, <1>6, <1>7

(* The difficulty expected of a block on a legal one is a compact target.   *)
LEMMA ExpectedIsTarget ==
    ASSUME RetargetStays, NEW p, Legal(p)
    PROVE  ExpectedDifficulty(p) \in Target
<1>1. Header(p).target \in Target /\ Header(p).timestamp \in Nat
  BY LegalHeader
<1>2. CASE ~ OnRetargetBoundary(p)
  BY <1>1, <1>2 DEF ExpectedDifficulty
<1>3. CASE OnRetargetBoundary(p)
  <2> DEFINE span == Header(p).timestamp - Header(Prefix(p, IntervalStart(p))).timestamp
             used == IF span > 1 THEN span ELSE 1
  <2>1. Header(Prefix(p, IntervalStart(p))).timestamp \in Nat
    BY <1>3, IntervalFits, LegalPrefix, LegalHeader
  <2>2. used \in Nat \ {0}
    BY <1>1, <2>1
  <2>3. ExpectedDifficulty(p) = Retarget(Header(p).target, used)
    BY <1>3 DEF ExpectedDifficulty
  <2> HIDE DEF used
  <2>. QED  BY <1>1, <2>2, <2>3 DEF RetargetStays
<1>. QED  BY <1>2, <1>3

(* A chain of a node: sound, never pruned, of blocks nodes mined.           *)
ChainMined(c) ==
    /\ Sound(c) /\ c.floor_hash = Genesis
    /\ \A b \in Known(c) : Mined(b)

(* What that says of the floor and of every known block.                    *)
LEMMA MinedParts ==
    ASSUME NEW c, ChainMined(c)
    PROVE  /\ FloorHeight(c) = 0 /\ IsBlock(c.floor_hash) /\ c.tip_hash \in Known(c)
           /\ c.floor_username_owner = Replay(NoOwners, 0, c.floor_hash)
           /\ \A b \in Known(c) : Mined(b) /\ Legal(b) /\ HasAncestry(c, b) /\ HasState(c, b)
<1>1. /\ FloorHeight(c) = 0 /\ IsBlock(c.floor_hash) /\ c.tip_hash \in Known(c)
      /\ c.floor_username_owner = Replay(NoOwners, 0, c.floor_hash)
  <2>1. Legal(Genesis) /\ Len(Genesis) = 0
    BY GenesisIsLegal
  <2>. QED  BY <2>1 DEF ChainMined, Sound, Accounted, Replayed, FloorHeight, Legal
<1>2. ASSUME NEW b \in Known(c)
      PROVE  Mined(b) /\ Legal(b) /\ HasAncestry(c, b) /\ HasState(c, b)
  <2>1. Mined(b) /\ Legal(b)
    BY DEF ChainMined, Mined, Mineable
  <2>2. IsPrefixOf(Genesis, b)
    <3>1. IsBlock(b) /\ Len(b) \in Nat /\ Len(Genesis) = 0
      BY <2>1, LegalHeader, GenesisIsLegal
    <3>2. Prefix(b, 0) = Genesis
      BY DEF Prefix, Genesis
    <3>. QED  BY <3>1, <3>2 DEF IsPrefixOf
  <2>3. HasState(c, b)
    BY <2>2 DEF ChainMined, Sound, Complete
  <2>. QED  BY <2>1, <2>3 DEF HasState
<1>. QED  BY <1>1, <1>2

(* A mineable block on a known one is valid for every node.                 *)
LEMMA ValidOnParent ==
    ASSUME ClocksAgree, NEW c, ChainMined(c), NEW n \in Node,
           NEW b, Mineable(b), b # Genesis, Len(b) <= MaxHeight + 1, Parent(b) \in Known(c)
    PROVE  ValidBlock(c, b, Clock[n])
<1> DEFINE p == Parent(b)
           x == Header(b)
<1>1. /\ Legal(b) /\ Legal(p) /\ Typed(x) /\ b = Extend(p, x)
      /\ Lawful(b) /\ SelfContained(b, 0)
  BY MineableParts
<1>2. /\ FloorHeight(c) = 0 /\ IsBlock(c.floor_hash) /\ HasState(c, p)
      /\ c.floor_username_owner = Replay(NoOwners, 0, c.floor_hash)
  BY MinedParts
<1>3. x.timestamp <= Clock[n] + MaxFutureDrift
  BY <1>1, TimelyIsInTime DEF Mineable
<1>4. \A tx \in x.txs : tx.name \in Name
  BY <1>1 DEF Typed
<1> HIDE DEF p, x
<1>. QED  BY <1>1, <1>2, <1>3, <1>4, Verdict DEF p

(* One on the tip is the new tip.                                           *)
LEMMA ExtendsTheTip ==
    ASSUME ClocksAgree, NEW c, ChainMined(c), NEW n \in Node,
           NEW b, Mineable(b), b # Genesis, Len(b) <= MaxHeight + 1, Parent(b) = c.tip_hash
    PROVE  ApplyOutcome(c, b, Clock[n]) = "ExtendedTip"
<1> DEFINE p == Parent(b)
           x == Header(b)
           d == Inserted(c, b)
           o == ApplyOutcome(c, b, Clock[n])
<1>1. /\ IsBlock(p) /\ Typed(x) /\ b = Extend(p, x) /\ p \in Known(c) /\ p = c.tip_hash
      /\ Sound(c)
  BY MineableParts, MinedParts DEF ChainMined
<1>2. ValidBlock(c, b, Clock[n])
  BY <1>1, ValidOnParent
<1>3. /\ TipWork(c) = Work(p) /\ BlockWork(c, b) = Work(b)
      /\ Work(b) \in Nat /\ Work(p) \in Nat /\ Work(b) > Work(p)
  <2> HIDE DEF p, x
  <2>. QED  BY <1>1, KnownWork
<1>4. b \notin Known(c)
  <2>1. ~ (Work(b) <= Work(p))
    BY <1>3
  <2>. QED  BY <1>1, <2>1 DEF Sound, Heaviest
<1>5. o \in {"ExtendedTip", "ReorgedTo"}
  <2>1. ~ (BlockWork(c, b) <= TipWork(c))
    BY <1>3
  <2> HIDE DEF p, x
  <2>. QED  BY <1>1, <1>2, <1>4, <2>1, ApplyCases
<1>6. o # "ReorgedTo"
  BY <1>1, <1>4 DEF ApplyOutcome
<1>. QED  BY <1>5, <1>6

(* Applying a mined block: the chain is one of mined blocks still.          *)
LEMMA ApplyMined ==
    ASSUME NEW c, ChainMined(c), NEW b, Mined(b), NEW now,
           NEW e, e = TryApply(c, b, now), NEW o, o = ApplyOutcome(c, b, now)
    PROVE  /\ ChainMined(e)
           /\ o \in {"AlreadyKnown", "Rejected", "AddedToFork", "ExtendedTip", "ReorgedTo"}
           /\ o \notin {"ExtendedTip", "ReorgedTo"} => e.tip_hash = c.tip_hash
           /\ o \in {"AlreadyKnown", "Rejected"} => e = c
           /\ o # "Rejected" => b \in Known(e)
           /\ b \notin Known(c) /\ ValidBlock(c, b, now) => o # "Rejected"
           /\ b \in Known(c) => o = "AlreadyKnown"
<1>1. CASE b = Genesis
  <2>1. b \in Known(c)
    BY <1>1 DEF ChainMined, Sound, Accounted
  <2>2. o = "AlreadyKnown" /\ e = c
    BY <2>1 DEF ApplyOutcome, TryApply
  <2>. QED  BY <2>1, <2>2
<1>2. CASE b # Genesis
  <2>0. PICK p, x : p = Parent(b) /\ x = Header(b)
    OBVIOUS
  <2>1. IsBlock(p) /\ Typed(x) /\ b = Extend(p, x) /\ Sound(c)
    BY <1>2, <2>0, MineableParts DEF Mined, ChainMined
  <2>2. /\ Sound(e)
        /\ \/ /\ e = c /\ o \in {"AlreadyKnown", "Rejected"}
              /\ b \notin Known(c) => o = "Rejected" /\ ~ ValidBlock(c, b, now)
           \/ /\ ValidBlock(c, b, now) /\ b \notin Known(c)
              /\ Accepted(c, e, b)
              /\ o \in {"AddedToFork", "ExtendedTip", "ReorgedTo"}
    BY <2>1, AppliedIsSound
  <2>3. b \in Known(c) => o = "AlreadyKnown"
    BY DEF ApplyOutcome
  <2>4. o = "AddedToFork" => e.tip_hash = c.tip_hash
    <3>1. o = "AddedToFork" => e = Inserted(c, b)
      BY DEF TryApply
    <3>2. Inserted(c, b).tip_hash = c.tip_hash
      BY InsertedFields DEF ChainMined, Sound, Accounted
    <3>. QED  BY <3>1, <3>2
  <2>5. Known(e) = Known(c) \/ Known(e) = Known(c) \cup {b}
    BY <2>2 DEF Accepted
  <2>6. e.floor_hash = Genesis
    BY <2>2 DEF Accepted, ChainMined
  <2>7. ChainMined(e)
    BY <2>2, <2>5, <2>6 DEF ChainMined
  <2>8. o # "Rejected" => b \in Known(e)
    BY <2>2 DEF Accepted
  <2>. QED  BY <2>2, <2>3, <2>4, <2>7, <2>8
<1>. QED  BY <1>1, <1>2

(* What a node of such a chain grinds on is mineable, on the tip.           *)
LEMMA CandidateIsMineable ==
    ASSUME RetargetStays, NEW n \in Node, NEW S, Pool(S),
           NEW s, ChainMined(s.chain), s.mempool \subseteq S,
           NEW c, c = s.chain, NEW p, p = c.tip_hash, NEW b, b = Candidate(n, s)
    PROVE  /\ DifficultyKnown(c, p) /\ HasAncestry(c, p)
           /\ Mineable(b) /\ b # Genesis /\ Len(b) <= MaxHeight + 1 /\ Parent(b) = p
<1> DEFINE median == MedianTimePast(c, p)
<1>1. /\ FloorHeight(c) = 0 /\ IsBlock(c.floor_hash) /\ p \in Known(c)
      /\ c.floor_username_owner = Replay(NoOwners, 0, c.floor_hash)
      /\ Mined(p) /\ Legal(p) /\ HasAncestry(c, p) /\ HasState(c, p)
  BY MinedParts
<1>2. /\ IsBlock(p) /\ Len(p) \in Nat /\ Header(p).height = Len(p)
      /\ Len(p) <= MaxHeight /\ Timely(p)
  BY <1>1, LegalHeader DEF Mined, Mineable
<1>3. median \in Nat /\ Clock[n] \in Nat /\ MaxFutureDrift \in Nat
  BY <1>1, MedianHasRank, NodeAssumption, BoundsAssumption
<1>4. PICK x : /\ b = Extend(p, x)
               /\ x.height = Len(p) + 1 /\ x.target = ExpectedDifficulty(p)
               /\ x.txs = Selected(s) /\ x.sealed
               /\ x.timestamp = IF Clock[n] > median + 1 THEN Clock[n] ELSE median + 1
  <2> DEFINE y == [height |-> Len(p) + 1,
                   timestamp |-> IF Clock[n] > median + 1 THEN Clock[n] ELSE median + 1,
                   target |-> ExpectedDifficulty(p),
                   txs |-> Selected(s), sealed |-> TRUE, miner |-> n]
  <2>1. b = Extend(p, y)
    BY DEF Candidate
  <2>. QED  BY <2>1
<1> HIDE DEF median
<1>5. /\ x.timestamp \in Nat /\ x.timestamp > median
      /\ x.timestamp = Clock[n] \/ x.timestamp = median + 1
  BY <1>3, <1>4
<1>6. DifficultyKnown(c, p)
  <2>1. OnRetargetBoundary(p) => IntervalStart(p) >= 0
    BY <1>1, IntervalFits
  <2>. QED  BY <1>1, <2>1 DEF DifficultyKnown
<1>7. Typed(x)
  BY <1>1, <1>4, <1>5, ExpectedIsTarget, SelectedFits DEF Typed, Pool
<1>8. Parent(b) = p /\ Header(b) = x /\ Len(b) = Len(p) + 1 /\ b # Genesis
  BY <1>2, <1>4, ExtendBlock
<1>9. ValidBlock(c, b, x.timestamp)
  <2>1. ASSUME NEW tx \in x.txs
        PROVE  AnchorOK(c, tx.anchor, p, x.height) /\ Unclaimed(c, p, tx.name)
    <3>1. tx \in Includable(s)
      BY <1>4, SelectedFits
    <3>2. ValidForMempool(c, tx, TipHeight(c) + 1)
      BY <3>1 DEF Includable
    <3>. QED  BY <1>4, <3>2 DEF ValidForMempool, TipHeight
  <2>2. \A t, u \in x.txs : t.name = u.name => t = u
    BY <1>4, SelectedFits
  <2>3. ValidTransactions(c, b)
    BY <1>1, <1>8, <2>1, <2>2 DEF ValidTransactions
  <2>4. ValidTimestamp(c, x, p, x.timestamp)
    BY <1>3, <1>5 DEF ValidTimestamp, median
  <2>5. Cardinality(x.txs) <= MaxTxs
    BY <1>4, SelectedFits
  <2>6. FollowsParent(x, p)
    BY <1>2, <1>4 DEF FollowsParent
  <2>. QED  BY <1>1, <1>4, <1>6, <1>8, <2>3, <2>4, <2>5, <2>6 DEF ValidBlock
<1>10. Lawful(b) /\ SelfContained(b, 0)
  <2>1. \A tx \in x.txs : tx.name \in Name
    BY <1>7 DEF Typed
  <2>. QED  BY <1>1, <1>4, <1>9, <2>1, Verdict
<1>11. Legal(b)
  BY <1>1, <1>4, <1>7, <1>10, LegalExtend
<1>12. Timely(b)
  BY <1>1, <1>2, <1>4, <1>5, TimelyExtend DEF median
<1>13. Len(b) <= MaxHeight + 1
  BY <1>2, <1>8, NodeAssumption
<1>. QED  BY <1>1, <1>6, <1>8, <1>10, <1>11, <1>12, <1>13 DEF Mineable

-----------------------------------------------------------------------------
(* A node at work *)

(* A node's chain, its mempool, of claims in S, and its attempts.           *)
NodeMines(s, S) ==
    /\ DOMAIN s = {"chain", "mempool", "active", "started", "attempts"}
    /\ ChainMined(s.chain)
    /\ s.mempool \subseteq S
    /\ s.active \in Nat /\ s.started \in Nat
    /\ \A a \in s.attempts :
          Mineable(a.block) /\ a.block # Genesis /\ Len(a.block) <= MaxHeight + 1

(* While it mines, an attempt of the current generation is on the tip.      *)
AtWork(s) ==
    ClocksAgree /\ s.active # 0 =>
        \E a \in s.attempts : a.generation = s.active /\ Parent(a.block) = s.chain.tip_hash

(* A started attempt is on the tip.                                         *)
LEMMA StartedAtWork ==
    ASSUME RetargetStays, NEW n \in Node, NEW S, Pool(S), NEW s, NodeMines(s, S),
           NEW t, t = Started(n, s)
    PROVE  NodeMines(t, S) /\ AtWork(t) /\ t.chain = s.chain
<1> DEFINE a == [generation |-> s.started + 1, block |-> Candidate(n, s)]
           c == s.chain
           p == c.tip_hash
<1>1. /\ DifficultyKnown(c, p) /\ HasAncestry(c, p)
      /\ Mineable(a.block) /\ a.block # Genesis /\ Len(a.block) <= MaxHeight + 1
      /\ Parent(a.block) = p /\ a.generation = s.started + 1
  <2>1. a.block = Candidate(n, s) /\ a.generation = s.started + 1
    OBVIOUS
  <2>2. ChainMined(s.chain) /\ s.mempool \subseteq S
    BY DEF NodeMines
  <2> HIDE DEF a
  <2>. QED  BY <2>1, <2>2, CandidateIsMineable
<1>2. /\ DOMAIN t = DOMAIN s /\ t.chain = s.chain /\ t.mempool = s.mempool
      /\ t.active = s.started + 1 /\ t.started = s.started + 1
      /\ t.attempts = s.attempts \cup {a}
  BY <1>1, Zenon DEF Started, NextGeneration, NodeMines
<1> HIDE DEF a
<1>3. NodeMines(t, S)
  BY <1>1, <1>2 DEF NodeMines
<1>4. AtWork(t)
  BY <1>1, <1>2 DEF AtWork
<1>. QED  BY <1>2, <1>3, <1>4

LEMMA RestartAtWork ==
    ASSUME RetargetStays, NEW n \in Node, NEW S, Pool(S), NEW s, NodeMines(s, S),
           NEW t, t = RestartIfActive(n, s)
    PROVE  NodeMines(t, S) /\ AtWork(t) /\ t.chain = s.chain
<1>1. CASE s.active = 0
  BY <1>1 DEF RestartIfActive, AtWork
<1>2. CASE s.active # 0
  BY <1>2, StartedAtWork DEF RestartIfActive
<1>. QED  BY <1>1, <1>2

(* A new chain and a smaller mempool for the same attempts.                 *)
LEMMA NodeMinesOn ==
    ASSUME NEW S, NEW s, NodeMines(s, S), NEW t, DOMAIN t = DOMAIN s,
           ChainMined(t.chain), t.mempool \subseteq s.mempool,
           t.active = s.active, t.started = s.started, t.attempts = s.attempts
    PROVE  /\ NodeMines(t, S)
           /\ AtWork(s) /\ t.chain.tip_hash = s.chain.tip_hash => AtWork(t)
<1>1. NodeMines(t, S)
  BY DEF NodeMines
<1>. QED  BY <1>1 DEF AtWork

(* An applied block restarts mining exactly when it moved the tip.          *)
LEMMA AppliedAtWork ==
    ASSUME RetargetStays, NEW n \in Node, NEW S, Pool(S), NEW s, NodeMines(s, S),
           NEW b, Mined(b), NEW t, t = Applied(n, s, b)
    PROVE  /\ NodeMines(t, S)
           /\ AtWork(s) \/ TipChanges(n, s, b) => AtWork(t)
<1> DEFINE e == TryApply(s.chain, b, Clock[n])
           o == ApplyOutcome(s.chain, b, Clock[n])
           pool == s.mempool \ Header(b).txs
           r == [s EXCEPT !.chain = e, !.mempool = pool]
<1>1. /\ ChainMined(e)
      /\ o \in {"AlreadyKnown", "Rejected", "AddedToFork", "ExtendedTip", "ReorgedTo"}
      /\ o \notin {"ExtendedTip", "ReorgedTo"} => e.tip_hash = s.chain.tip_hash
  BY ApplyMined DEF NodeMines
<1>2. NodeMines(r, S) /\ (AtWork(s) /\ e.tip_hash = s.chain.tip_hash => AtWork(r))
  <2>1. /\ DOMAIN r = DOMAIN s /\ r.chain = e /\ r.mempool = pool
        /\ r.active = s.active /\ r.started = s.started /\ r.attempts = s.attempts
    <3> HIDE DEF e, pool
    <3>. QED  BY DEF NodeMines
  <2>2. r.mempool \subseteq s.mempool
    BY <2>1
  <2> HIDE DEF e, pool, r
  <2>. QED  BY <1>1, <2>1, <2>2, NodeMinesOn
<1>3. /\ (Accepts(n, s, b) <=> o \notin {"AlreadyKnown", "Rejected", "Failed"})
      /\ (TipChanges(n, s, b) <=> o \in {"ExtendedTip", "ReorgedTo"})
  BY DEF Accepts, TipChanges, Outcome
<1>4. t = IF ~ Accepts(n, s, b) THEN s
          ELSE IF TipChanges(n, s, b) THEN RestartIfActive(n, r) ELSE r
  BY Zenon DEF Applied
<1>5. CASE ~ Accepts(n, s, b)
  <2>1. t = s /\ ~ TipChanges(n, s, b)
    BY <1>3, <1>4, <1>5
  <2>. QED  BY <2>1
<1>6. CASE Accepts(n, s, b) /\ TipChanges(n, s, b)
  <2>1. t = RestartIfActive(n, r)
    BY <1>4, <1>6
  <2> HIDE DEF r
  <2>. QED  BY <1>2, <2>1, RestartAtWork
<1>7. CASE Accepts(n, s, b) /\ ~ TipChanges(n, s, b)
  <2>1. t = r
    BY <1>4, <1>7
  <2> HIDE DEF r, e, o
  <2>. QED  BY <1>1, <1>2, <1>3, <1>7, <2>1
<1>. QED  BY <1>5, <1>6, <1>7

(* What a peer tells: mined blocks, each one the parent of the next.        *)
Told(blocks) ==
    /\ Len(blocks) \in Nat
    /\ \A i \in 1..Len(blocks) : Mined(blocks[i])
    /\ \A i \in 1..Len(blocks) : \A j \in 1..Len(blocks) :
          j = i + 1 => blocks[j] # Genesis /\ Parent(blocks[j]) = blocks[i]

(* q is what the first i blocks made of s: only the first one can fail.     *)
Batched(s, S, blocks, i, q) ==
    /\ NodeMines(q.s, S)
    /\ q.s.active = s.active /\ q.s.attempts = s.attempts
    /\ i = 0 => q.ok /\ q.s.chain = s.chain
    /\ q.ok /\ i # 0 => blocks[i] \in Known(q.s.chain)
    /\ ClocksAgree /\ ~ q.ok => q.s.chain = s.chain

LEMMA BatchTurn ==
    ASSUME NEW n \in Node, NEW S, NEW s, NodeMines(s, S), NEW blocks, Told(blocks),
           NEW i \in 1..Len(blocks), NEW q, Batched(s, S, blocks, i - 1, q),
           NEW t, t = BatchStep(n, q, blocks[i])
    PROVE  Batched(s, S, blocks, i, t)
<1>1. i \in Nat /\ i # 0 /\ Len(blocks) \in Nat
  BY DEF Told
<1>2. CASE ~ q.ok
  <2>1. t = q
    BY <1>2 DEF BatchStep
  <2>. QED  BY <1>1, <1>2, <2>1 DEF Batched
<1>3. CASE q.ok
  <2>0. PICK b : b = blocks[i]
    OBVIOUS
  <2> DEFINE c == q.s.chain
             e == TryApply(c, b, Clock[n])
             o == ApplyOutcome(c, b, Clock[n])
             pool == q.s.mempool \ Header(b).txs
             r == [q.s EXCEPT !.mempool = pool, !.chain = e]
  <2>1. Mined(b) /\ NodeMines(q.s, S) /\ ChainMined(c)
    BY <2>0 DEF Told, Batched, NodeMines
  <2>2. /\ ChainMined(e)
        /\ o \in {"AlreadyKnown", "Rejected", "AddedToFork", "ExtendedTip", "ReorgedTo"}
        /\ o \in {"AlreadyKnown", "Rejected"} => e = c
        /\ o # "Rejected" => b \in Known(e)
        /\ b \notin Known(c) /\ ValidBlock(c, b, Clock[n]) => o # "Rejected"
        /\ b \in Known(c) => o = "AlreadyKnown"
    <3> HIDE DEF c
    <3>. QED  BY <2>1, ApplyMined
  <2>3. t.s = r /\ (t.ok <=> o \notin {"Rejected", "Failed"})
    BY <1>3, <2>0 DEF BatchStep, Outcome
  <2>4. /\ DOMAIN r = DOMAIN q.s /\ r.chain = e /\ r.mempool = pool
        /\ r.active = q.s.active /\ r.started = q.s.started /\ r.attempts = q.s.attempts
    <3> HIDE DEF e, pool
    <3>. QED  BY <2>1 DEF NodeMines
  <2>5. NodeMines(r, S)
    <3>1. r.mempool \subseteq q.s.mempool
      BY <2>4
    <3> HIDE DEF e, pool, r
    <3>. QED  BY <2>1, <2>2, <2>4, <3>1, NodeMinesOn
  <2>6. ASSUME ClocksAgree, ~ t.ok
        PROVE  e = s.chain
    <3>1. o = "Rejected" /\ e = c
      BY <2>2, <2>3, <2>6
    <3>2. CASE i = 1
      BY <3>1, <3>2 DEF Batched
    <3>3. CASE i # 1
      <4>1. i - 1 \in 1..Len(blocks) /\ i = (i - 1) + 1 /\ i - 1 # 0
        BY <1>1, <3>3
      <4>2. b # Genesis /\ Parent(b) = blocks[i - 1]
        BY <2>0, <4>1 DEF Told
      <4>3. Parent(b) \in Known(c)
        BY <1>3, <4>1, <4>2 DEF Batched
      <4>4. Mineable(b) /\ Len(b) <= MaxHeight + 1
        <5>1. Len(b) \in Nat
          BY <2>1, LegalHeader DEF Mined, Mineable
        <5>. QED  BY <2>1, <5>1, NodeAssumption DEF Mined
      <4>5. ValidBlock(c, b, Clock[n])
        <5> HIDE DEF c
        <5>. QED  BY <2>1, <2>6, <4>2, <4>3, <4>4, ValidOnParent
      <4> HIDE DEF o, c
      <4>. QED  BY <2>2, <3>1, <4>5
    <3>. QED  BY <3>2, <3>3
  <2>7. t.ok => b \in Known(e)
    BY <2>2, <2>3
  <2> HIDE DEF e, o, pool, r
  <2>. QED  BY <1>1, <2>0, <2>3, <2>4, <2>5, <2>6, <2>7 DEF Batched
<1>. QED  BY <1>2, <1>3

(* A batch that fails leaves the chain as it was, and one that does not     *)
(* move the tip leaves the attempts on it.                                  *)
LEMMA BatchAtWork ==
    ASSUME NEW n \in Node, NEW S, NEW s, NodeMines(s, S), NEW blocks, Told(blocks),
           NEW r, r = BatchApplied(n, s, blocks)
    PROVE  /\ NodeMines(r.s, S) /\ r.s.active = s.active /\ r.s.attempts = s.attempts
           /\ ClocksAgree /\ ~ r.ok => r.s.chain = s.chain
           /\ AtWork(s) /\ r.s.chain.tip_hash = s.chain.tip_hash => AtWork(r.s)
<1>0. PICK N \in Nat : N = Len(blocks)
  BY DEF Told
<1>1. PICK upto : BatchRun(n, s, blocks, upto) /\ r = upto[N]
  BY <1>0, BatchSteps
<1>2. /\ upto[0] = [s |-> s, ok |-> TRUE]
      /\ \A i \in 1..N : upto[i] = BatchStep(n, upto[i - 1], blocks[i])
  BY <1>0, <1>1 DEF BatchRun
<1> DEFINE G == {i \in Nat : i <= N => Batched(s, S, blocks, i, upto[i])}
<1>3. 0 \in G
  <2>1. upto[0].s = s /\ upto[0].ok
    BY <1>2
  <2>. QED  BY <2>1 DEF Batched
<1>4. ASSUME NEW i \in Nat, i \in G
      PROVE  i + 1 \in G
  <2>1. CASE i + 1 <= N
    <3>1. Batched(s, S, blocks, i, upto[i]) /\ i + 1 \in 1..N /\ (i + 1) - 1 = i
      BY <1>4, <2>1
    <3>2. upto[i + 1] = BatchStep(n, upto[i], blocks[i + 1])
      BY <1>2, <3>1
    <3>. QED  BY <1>0, <3>1, <3>2, BatchTurn
  <2>2. CASE ~ (i + 1 <= N)
    BY <2>2
  <2>. QED  BY <2>1, <2>2
<1>5. Batched(s, S, blocks, N, r)
  <2>1. Nat \subseteq G
    <3> HIDE DEF G
    <3>. QED  BY <1>3, <1>4, NatInductionOnSets
  <2>. QED  BY <1>0, <1>1, <2>1
<1>. QED  BY <1>5 DEF Batched, AtWork

-----------------------------------------------------------------------------
(* A network at work *)

(* Claims under way were submitted, blocks under way were mined.            *)
MessageOK(msg, S) ==
    /\ msg.kind = "block" => Mined(msg.block)
    /\ msg.kind = "tx" => msg.tx \in S

NodesMine == \A n \in Node : NodeMines(node[n], submitted) /\ AtWork(node[n])
LinksMine == \A msg \in Carried(link) : MessageOK(msg, submitted)
SyncsMine == \A n \in Node : sync[n].phase = "blocks told" => Told(sync[n].blocks)

NetworkMines == NodesMine /\ LinksMine /\ SyncsMine

ClaimsOK == IsFiniteSet(submitted) /\ \A tx \in submitted : tx.name \in Name

(* Every chain is sound and every miner at work, as long as ids differ.     *)
MinerInv == IInv /\ ClaimsOK /\ (IdsDiffer(submitted) => NetworkMines)

(* Claims are only added, and have names.                                   *)
LEMMA ClaimsStep ==
    ASSUME ClaimsOK, [Next]_vars
    PROVE  ClaimsOK' /\ submitted \subseteq submitted'
<1>1. CASE \E n \in Claimants, name \in Name : SubmitUsernameClaim(n, name)
  <2>1. PICK n \in Claimants, name \in Name : SubmitUsernameClaim(n, name)
    BY <1>1
  <2>2. PICK tx : tx.name = name /\ submitted' = submitted \cup {tx}
    BY <2>1 DEF SubmitUsernameClaim
  <2>3. IsFiniteSet(submitted')
    BY <2>2, FS_AddElement DEF ClaimsOK
  <2>. QED  BY <2>2, <2>3 DEF ClaimsOK
<1>2. CASE submitted' = submitted
  BY <1>2 DEF ClaimsOK
<1>3. ASSUME NEW n \in Node, FindBlock(n) \/ Deliver(n) \/ Sync(n) \/ SyncLost(n)
      PROVE  submitted' = submitted
  BY <1>3 DEF FindBlock, MiningResult, Deliver, DeliverBlock, DeliverClaim, Sync, AnswerTip,
              HandleTip, AnswerBlocks, HandleBlocks, SyncLost
<1>4. CASE \/ \E n \in Miners : StartMining(n) \/ StopMining(n)
           \/ \E m, n \in Node : LoseGossip(m, n)
           \/ \E n \in Syncers : \E m \in Node \ {n} : RequestChainSync(n, m)
           \/ UNCHANGED vars
  BY <1>2, <1>4 DEF StartMining, StopMining, LoseGossip, RequestChainSync, vars
<1>. QED  BY <1>1, <1>2, <1>3, <1>4 DEF Next

LEMMA MinesWithMore ==
    ASSUME NEW S, NEW T, S \subseteq T, NEW s, NodeMines(s, S)
    PROVE  NodeMines(s, T)
  BY DEF NodeMines

(* A step that gives one node t.                                            *)
LEMMA NodesMineStep ==
    ASSUME NodesOK, NodesMine, submitted \subseteq submitted', NEW n \in Node, NEW t,
           node' = [node EXCEPT ![n] = t], NodeMines(t, submitted'), AtWork(t)
    PROVE  NodesMine'
<1>1. \A k \in Node : node'[k] = IF k = n THEN t ELSE node[k]
  BY DEF NodesOK
<1>2. \A k \in Node : NodeMines(node'[k], submitted') /\ AtWork(node'[k])
  BY <1>1, MinesWithMore DEF NodesMine
<1>. QED  BY <1>2 DEF NodesMine

(* A step that puts no more than msgs on the links.                         *)
LEMMA LinksMineStep ==
    ASSUME LinksMine, submitted \subseteq submitted', NEW msgs,
           Carried(link') \subseteq Carried(link) \cup msgs,
           \A msg \in msgs : MessageOK(msg, submitted')
    PROVE  LinksMine'
<1>1. \A msg \in Carried(link') : MessageOK(msg, submitted')
  BY DEF LinksMine, MessageOK
<1>. QED  BY <1>1 DEF LinksMine

LEMMA LinksMineOn ==
    ASSUME LinksMine, submitted \subseteq submitted', Carried(link') \subseteq Carried(link)
    PROVE  LinksMine'
<1>1. \A msg \in Carried(link') : MessageOK(msg, submitted')
  BY DEF LinksMine, MessageOK
<1>. QED  BY <1>1 DEF LinksMine

(* What is gossiped of a mined block.                                       *)
LEMMA GossipMined ==
    ASSUME NEW n, NEW s, NEW b, Mined(b), NEW S
    PROVE  /\ IsSeq(Gossip(n, s, b))
           /\ \A msg \in Items(Gossip(n, s, b)) : MessageOK(msg, S)
<1> DEFINE out == << [kind |-> "block", block |-> b] >>
<1>1. IsSeq(out) /\ Items(out) = {[kind |-> "block", block |-> b]}
  BY ShortSeqs
<1>2. MessageOK([kind |-> "block", block |-> b], S)
  BY DEF MessageOK
<1>3. Gossip(n, s, b) \in {out, << >>}
  BY DEF Gossip
<1> HIDE DEF out
<1>. QED  BY <1>1, <1>2, <1>3, ShortSeqs

(* The step of an app: a claim is submitted, mining starts or stops.        *)
LEMMA CommandsMine ==
    ASSUME RetargetStays, IInv, NetworkMines, Pool(submitted'), submitted \subseteq submitted',
           NEW n \in Node,
           (\E name \in Name : SubmitUsernameClaim(n, name)) \/ StartMining(n) \/ StopMining(n)
    PROVE  NetworkMines'
<1>1. NodesOK /\ Wired(link) /\ NodesMine /\ LinksMine /\ SyncsMine
  BY DEF IInv, LinksOK, NetworkMines
<1>2. NodeMines(node[n], submitted) /\ AtWork(node[n]) /\ NodeMines(node[n], submitted')
  BY <1>1, MinesWithMore DEF NodesMine
<1>3. SyncsMine'
  BY <1>1 DEF SyncsMine, SubmitUsernameClaim, StartMining, StopMining
<1>4. ASSUME NEW name \in Name, SubmitUsernameClaim(n, name)
      PROVE  NodesMine' /\ LinksMine'
  <2> DEFINE tx == [name |-> name, owner |-> n, anchor |-> node[n].chain.tip_hash]
             t == [node[n] EXCEPT !.mempool = @ \cup {tx}]
             msg == [kind |-> "tx", tx |-> tx]
  <2>1. /\ submitted' = submitted \cup {tx} /\ node' = [node EXCEPT ![n] = t]
        /\ link' = Published(link, n, << msg >>)
    BY <1>4 DEF SubmitUsernameClaim
  <2>2. /\ DOMAIN t = DOMAIN node[n] /\ t.chain = node[n].chain
        /\ t.mempool = node[n].mempool \cup {tx} /\ t.active = node[n].active
        /\ t.started = node[n].started /\ t.attempts = node[n].attempts
    <3> HIDE DEF tx
    <3>. QED  BY <1>2 DEF NodeMines
  <2>3. msg.kind = "tx" /\ msg.tx = tx
    OBVIOUS
  <2> HIDE DEF tx, t, msg
  <2>4. NodeMines(t, submitted') /\ AtWork(t)
    BY <1>2, <2>1, <2>2 DEF NodeMines, AtWork
  <2>5. NodesMine'
    BY <1>1, <2>1, <2>4, NodesMineStep
  <2>6. Carried(link') \subseteq Carried(link) \cup {msg}
    <3>1. IsSeq(<<msg>>) /\ Items(<<msg>>) = {msg}
      BY ShortSeqs
    <3>. QED  BY <1>1, <2>1, <3>1, PublishedLinks
  <2>7. MessageOK(msg, submitted')
    BY <2>1, <2>3 DEF MessageOK
  <2>8. LinksMine'
    <3>1. PICK msgs : msgs = {msg}
      OBVIOUS
    <3>. QED  BY <1>1, <2>6, <2>7, <3>1, LinksMineStep
  <2>. QED  BY <2>5, <2>8
<1>5. CASE StartMining(n)
  <2>1. PICK t : t = Started(n, node[n])
    OBVIOUS
  <2>2. node' = [node EXCEPT ![n] = t] /\ link' = link
    BY <1>5, <2>1 DEF StartMining
  <2>3. NodeMines(t, submitted') /\ AtWork(t)
    BY <1>2, <2>1, StartedAtWork
  <2>4. LinksMine'
    BY <1>1, <2>2, LinksMineOn
  <2>. QED  BY <1>1, <1>3, <2>2, <2>3, <2>4, NodesMineStep DEF NetworkMines
<1>6. CASE StopMining(n)
  <2> DEFINE t == [node[n] EXCEPT !.active = 0]
  <2>1. node' = [node EXCEPT ![n] = t] /\ link' = link
    BY <1>6 DEF StopMining
  <2>2. /\ DOMAIN t = DOMAIN node[n] /\ t.chain = node[n].chain
        /\ t.mempool = node[n].mempool /\ t.active = 0
        /\ t.started = node[n].started /\ t.attempts = node[n].attempts
    BY <1>2 DEF NodeMines
  <2> HIDE DEF t
  <2>3. NodeMines(t, submitted') /\ AtWork(t)
    BY <1>2, <2>2 DEF NodeMines, AtWork
  <2>4. LinksMine'
    BY <1>1, <2>1, LinksMineOn
  <2>. QED  BY <1>1, <1>3, <2>1, <2>3, <2>4, NodesMineStep DEF NetworkMines
<1>. QED  BY <1>3, <1>4, <1>5, <1>6 DEF NetworkMines

(* A result that counts is followed by another attempt, one that does not   *)
(* leaves the current attempt alone.                                        *)
LEMMA MiningMines ==
    ASSUME RetargetStays, IInv, NetworkMines, Pool(submitted'), submitted \subseteq submitted',
           NEW n \in Node, NEW a \in node[n].attempts, MiningResult(n, a)
    PROVE  NetworkMines'
<1> DEFINE s == [node[n] EXCEPT !.attempts = @ \ {a}]
           b == a.block
           t == Applied(n, s, b)
<1>1. NodesOK /\ Wired(link) /\ NodesMine /\ LinksMine /\ SyncsMine
  BY DEF IInv, LinksOK, NetworkMines
<1>2. NodeMines(node[n], submitted) /\ AtWork(node[n]) /\ NodeMines(node[n], submitted')
  BY <1>1, MinesWithMore DEF NodesMine
<1>3. SyncsMine'
  BY <1>1 DEF SyncsMine, MiningResult
<1>4. /\ DOMAIN s = DOMAIN node[n] /\ s.chain = node[n].chain
      /\ s.mempool = node[n].mempool /\ s.active = node[n].active
      /\ s.started = node[n].started /\ s.attempts = node[n].attempts \ {a}
  BY <1>2 DEF NodeMines
<1>5. NodeMines(s, submitted') /\ Mined(b)
  <2>1. Len(b) <= MaxHeight
    BY DEF MiningResult
  <2> HIDE DEF s
  <2>. QED  BY <1>2, <1>4, <2>1 DEF NodeMines, Mined
<1>6. CASE ~ IsCurrent(s, a)
  <2>1. node' = [node EXCEPT ![n] = s] /\ link' = link
    BY <1>6 DEF MiningResult
  <2> HIDE DEF s
  <2>2. AtWork(s)
    BY <1>2, <1>4, <1>6 DEF AtWork, IsCurrent
  <2>3. NodesMine' /\ LinksMine'
    BY <1>1, <1>5, <2>1, <2>2, NodesMineStep, LinksMineOn
  <2>. QED  BY <1>3, <2>3 DEF NetworkMines
<1>7. CASE IsCurrent(s, a)
  <2>1. PICK v : /\ v = IF TipChanges(n, s, b) THEN t ELSE RestartIfActive(n, t)
                 /\ node' = [node EXCEPT ![n] = v]
                 /\ link' = Published(link, n, Gossip(n, s, b))
    BY <1>7 DEF MiningResult
  <2> HIDE DEF s, b, t
  <2>2. NodeMines(t, submitted') /\ (TipChanges(n, s, b) => AtWork(t))
    BY <1>5, AppliedAtWork DEF t
  <2>3. NodeMines(v, submitted') /\ AtWork(v)
    <3>1. CASE TipChanges(n, s, b)
      BY <2>1, <2>2, <3>1
    <3>2. CASE ~ TipChanges(n, s, b)
      BY <2>1, <2>2, <3>2, RestartAtWork
    <3>. QED  BY <3>1, <3>2
  <2>4. NodesMine'
    BY <1>1, <2>1, <2>3, NodesMineStep
  <2>5. LinksMine'
    <3>1. PICK out : out = Gossip(n, s, b)
      OBVIOUS
    <3>2. IsSeq(out) /\ \A msg \in Items(out) : MessageOK(msg, submitted')
      BY <1>5, <3>1, GossipMined
    <3>3. Carried(link') \subseteq Carried(link) \cup Items(out)
      BY <1>1, <2>1, <3>1, <3>2, PublishedLinks
    <3>. QED  BY <1>1, <3>2, <3>3, LinksMineStep
  <2>. QED  BY <1>3, <2>4, <2>5 DEF NetworkMines
<1>. QED  BY <1>6, <1>7

(* Gossip delivered or lost.                                                *)
LEMMA GossipMines ==
    ASSUME RetargetStays, IInv, NetworkMines, Pool(submitted'), submitted \subseteq submitted',
           NEW m \in Node, NEW n \in Node,
           DeliverBlock(m, n) \/ DeliverClaim(m, n) \/ LoseGossip(m, n)
    PROVE  NetworkMines'
<1> DEFINE msg == Head(link[m][n])
<1>1. NodesOK /\ Wired(link) /\ NodesMine /\ LinksMine /\ SyncsMine
  BY DEF IInv, LinksOK, NetworkMines
<1>2. NodeMines(node[n], submitted) /\ AtWork(node[n]) /\ NodeMines(node[n], submitted')
  BY <1>1, MinesWithMore DEF NodesMine
<1>3. SyncsMine' /\ link[m][n] # << >>
  BY <1>1 DEF SyncsMine, DeliverBlock, DeliverClaim, LoseGossip
<1>4. /\ Wired(Taken(m, n)) /\ Carried(Taken(m, n)) \subseteq Carried(link)
      /\ msg \in Carried(link)
  BY <1>1, <1>3, TakenLinks
<1>5. MessageOK(msg, submitted)
  BY <1>1, <1>4 DEF LinksMine
<1>6. CASE DeliverBlock(m, n)
  <2>0. PICK b, s : b = msg.block /\ s = node[n]
    OBVIOUS
  <2>1. PICK t, out : /\ t = Applied(n, s, b) /\ out = Gossip(n, s, b)
                      /\ node' = [node EXCEPT ![n] = t]
                      /\ link' = Published(Taken(m, n), n, out)
    BY <1>6, <2>0 DEF DeliverBlock
  <2>2. Mined(b)
    BY <1>5, <1>6, <2>0 DEF DeliverBlock, MessageOK
  <2>3. NodeMines(t, submitted') /\ AtWork(t)
    BY <1>2, <2>0, <2>1, <2>2, AppliedAtWork
  <2>4. NodesMine'
    BY <1>1, <2>1, <2>3, NodesMineStep
  <2>5. IsSeq(out) /\ \A x \in Items(out) : MessageOK(x, submitted')
    BY <2>1, <2>2, GossipMined
  <2>6. Carried(link') \subseteq Carried(link) \cup Items(out)
    BY <1>4, <2>1, <2>5, PublishedLinks
  <2>7. LinksMine'
    BY <1>1, <2>5, <2>6, LinksMineStep
  <2>. QED  BY <1>3, <2>4, <2>7 DEF NetworkMines
<1>7. CASE DeliverClaim(m, n)
  <2> DEFINE s == [node[n] EXCEPT !.mempool = @ \cup {msg.tx}]
  <2>1. PICK t : t = RestartIfActive(n, s) /\ node' = [node EXCEPT ![n] = t]
                 /\ link' = Taken(m, n)
    BY <1>7 DEF DeliverClaim, WithClaim
  <2>2. msg.tx \in submitted'
    BY <1>5, <1>7 DEF DeliverClaim, MessageOK
  <2>3. /\ DOMAIN s = DOMAIN node[n] /\ s.chain = node[n].chain
        /\ s.mempool = node[n].mempool \cup {msg.tx} /\ s.active = node[n].active
        /\ s.started = node[n].started /\ s.attempts = node[n].attempts
    <3> HIDE DEF msg
    <3>. QED  BY <1>2 DEF NodeMines
  <2> HIDE DEF s, msg
  <2>4. NodeMines(s, submitted')
    BY <1>2, <2>2, <2>3 DEF NodeMines
  <2>5. NodeMines(t, submitted') /\ AtWork(t)
    BY <2>1, <2>4, RestartAtWork
  <2>6. NodesMine' /\ LinksMine'
    BY <1>1, <1>4, <2>1, <2>5, NodesMineStep, LinksMineOn
  <2>. QED  BY <1>3, <2>6 DEF NetworkMines
<1>8. CASE LoseGossip(m, n)
  <2>1. node' = node /\ link' = Taken(m, n) /\ submitted' = submitted
    BY <1>8 DEF LoseGossip
  <2>2. NodesMine' /\ LinksMine'
    BY <1>1, <1>4, <2>1, LinksMineOn DEF NodesMine
  <2>. QED  BY <1>3, <2>2 DEF NetworkMines
<1>. QED  BY <1>6, <1>7, <1>8

(* A peer tells the blocks of its own chain, one after the other.           *)
LEMMA SyncMines ==
    ASSUME IInv, NetworkMines, NEW n \in Node,
           \/ \E m \in Node \ {n} : RequestChainSync(n, m)
           \/ AnswerTip(n) \/ HandleTip(n) \/ AnswerBlocks(n) \/ SyncLost(n)
    PROVE  NetworkMines'
<1>1. NodesMine /\ LinksMine /\ SyncsMine /\ DOMAIN sync = Node /\ SyncOK(sync[n])
  BY DEF IInv, NetworkMines, SyncsOK
<1>2. ASSUME NEW y, sync' = [sync EXCEPT ![n] = y], UNCHANGED <<node, link, submitted>>,
             y.phase = "blocks told" => Told(y.blocks)
      PROVE  NetworkMines'
  <2>1. NodesMine' /\ LinksMine'
    <3>1. node' = node /\ link' = link /\ submitted' = submitted
      BY <1>2
    <3>2. NodesMine'
      BY <1>1, <3>1 DEF NodesMine
    <3>3. LinksMine'
      BY <1>1, <3>1, LinksMineOn
    <3>. QED  BY <3>2, <3>3
  <2>2. \A k \in Node : sync'[k] = IF k = n THEN y ELSE sync[k]
    BY <1>1, <1>2
  <2>3. SyncsMine'
    BY <1>1, <1>2, <2>2 DEF SyncsMine
  <2>. QED  BY <2>1, <2>3 DEF NetworkMines
<1>3. CASE \E m \in Node \ {n} : RequestChainSync(n, m)
  <2>1. PICK m : RequestChainSync(n, m)
    BY <1>3
  <2>2. PICK y : y = [phase |-> "tip asked", peer |-> m]
    OBVIOUS
  <2>3. sync' = [sync EXCEPT ![n] = y] /\ y.phase # "blocks told"
    BY <2>1, <2>2 DEF RequestChainSync
  <2>. QED  BY <1>2, <2>1, <2>3 DEF RequestChainSync
<1>4. CASE AnswerTip(n) \/ HandleTip(n) \/ SyncLost(n)
  <2>1. PICK y : sync' = [sync EXCEPT ![n] = y] /\ y.phase # "blocks told"
    <3>1. CASE AnswerTip(n)
      <4> DEFINE c == node[sync[n].peer].chain
                 y == [phase |-> "tip told", peer |-> sync[n].peer,
                       height |-> TipHeight(c), work |-> TipWork(c)]
      <4>1. sync' = [sync EXCEPT ![n] = y]
        BY <3>1 DEF AnswerTip
      <4>2. y.phase # "blocks told"
        OBVIOUS
      <4> HIDE DEF y
      <4>. QED  BY <4>1, <4>2
    <3>2. CASE HandleTip(n)
      <4> DEFINE c == node[n].chain
                 x == [phase |-> "completed"]
                 y == [phase |-> "blocks asked", peer |-> sync[n].peer,
                       from |-> FromHeight(c), count |-> BatchSize(c, sync[n].height)]
      <4>1. sync' = [sync EXCEPT ![n] = x] \/ sync' = [sync EXCEPT ![n] = y]
        BY <3>2 DEF HandleTip
      <4>2. x.phase # "blocks told" /\ y.phase # "blocks told"
        OBVIOUS
      <4> HIDE DEF x, y
      <4>. QED  BY <4>1, <4>2
    <3>3. CASE SyncLost(n)
      <4> DEFINE y == [phase |-> "failed"]
      <4>1. sync' = [sync EXCEPT ![n] = y]
        BY <3>3 DEF SyncLost
      <4>2. y.phase # "blocks told"
        OBVIOUS
      <4> HIDE DEF y
      <4>. QED  BY <4>1, <4>2
    <3>. QED  BY <1>4, <3>1, <3>2, <3>3
  <2>. QED  BY <1>2, <1>4, <2>1 DEF AnswerTip, HandleTip, SyncLost
<1>5. CASE AnswerBlocks(n)
  <2> DEFINE p == sync[n].peer
             c == node[p].chain
             from == sync[n].from
             count == sync[n].count
             f == [i \in 1..count |-> c.canonical_index[from + i - 1]]
             x == [phase |-> "failed"]
             y == [phase |-> "blocks told", peer |-> p, blocks |-> f]
  <2>1. p \in Node /\ from \in Nat /\ count \in Nat
    BY <1>1, <1>5 DEF AnswerBlocks, SyncOK
  <2>2. Len(f) = count
    <3>1. f = [i \in 1..count |-> f[i]]
      OBVIOUS
    <3> HIDE DEF f, count
    <3>. QED  BY <2>1, <3>1, FunctionLen
  <2>3. ChainMined(c)
    BY <1>1, <2>1 DEF NodesMine, NodeMines
  <2>4. ASSUME \A h \in from..(from + count - 1) : CanServe(c, h)
        PROVE  Told(f)
    <3>1. ASSUME NEW i \in 1..count
          PROVE  /\ from + i - 1 \in 0..TipHeight(c)
                 /\ f[i] = Prefix(c.tip_hash, from + i - 1) /\ Mined(f[i])
      <4>1. from + i - 1 \in from..(from + count - 1)
        BY <2>1
      <4>2. f[i] = c.canonical_index[from + i - 1]
        OBVIOUS
      <4>3. from + i - 1 \in DOMAIN c.canonical_index /\ f[i] \in c.blocks
        BY <2>4, <4>1, <4>2 DEF CanServe
      <4> HIDE DEF f
      <4>. QED  BY <2>3, <4>2, <4>3 DEF ChainMined, Sound, Indexed, Accounted
    <3>2. ASSUME NEW i \in 1..count, NEW j \in 1..count, j = i + 1
          PROVE  f[j] # Genesis /\ Parent(f[j]) = f[i]
      <4>1. PICK t, h : t = c.tip_hash /\ h = from + i
        OBVIOUS
      <4>2. IsBlock(t) /\ Len(t) \in Nat
        BY <2>3, <4>1, MinedParts, LegalHeader
      <4>3. /\ h \in 1..Len(t) /\ from + j - 1 = h /\ from + i - 1 = h - 1
            /\ f[j] = Prefix(t, h) /\ f[i] = Prefix(t, h - 1)
        <5>1. /\ from + j - 1 \in 0..TipHeight(c)
              /\ f[j] = Prefix(t, from + j - 1) /\ f[i] = Prefix(t, from + i - 1)
          BY <3>1, <4>1
        <5>2. from + j - 1 = h /\ from + i - 1 = h - 1 /\ h \in Nat /\ h >= 1
          BY <2>1, <3>2, <4>1
        <5> HIDE DEF f, from
        <5>. QED  BY <4>1, <4>2, <5>1, <5>2 DEF TipHeight
      <4> HIDE DEF f, from, count, c
      <4>4. Parent(f[j]) = f[i] /\ Len(f[j]) = h
        BY <4>2, <4>3, PrefixParts
      <4>5. f[j] # Genesis
        BY <4>3, <4>4, GenesisIsLegal
      <4>. QED  BY <4>4, <4>5
    <3> HIDE DEF f, count
    <3>. QED  BY <2>1, <2>2, <3>1, <3>2 DEF Told
  <2>5. \/ sync' = [sync EXCEPT ![n] = x]
        \/ /\ \A h \in from..(from + count - 1) : CanServe(c, h)
           /\ sync' = [sync EXCEPT ![n] = y]
    BY <1>5 DEF AnswerBlocks
  <2>6. x.phase # "blocks told" /\ y.blocks = f
    OBVIOUS
  <2>7. UNCHANGED <<node, link, submitted>>
    BY <1>5 DEF AnswerBlocks
  <2> HIDE DEF x, y, c, from, count, f
  <2>. QED  BY <1>2, <2>4, <2>5, <2>6, <2>7
<1>. QED  BY <1>3, <1>4, <1>5

(* Applying what a peer told.                                               *)
LEMMA BlocksMine ==
    ASSUME RetargetStays, IInv, NetworkMines, Pool(submitted'), submitted \subseteq submitted',
           NEW n \in Node, HandleBlocks(n)
    PROVE  NetworkMines'
<1>1. NodesOK /\ NodesMine /\ LinksMine /\ SyncsMine /\ DOMAIN sync = Node
  BY DEF IInv, NetworkMines, SyncsOK
<1>2. PICK s, blocks, r : s = node[n] /\ blocks = sync[n].blocks
                          /\ r = BatchApplied(n, s, blocks)
  OBVIOUS
<1>3. NodeMines(s, submitted) /\ AtWork(s) /\ NodeMines(s, submitted')
  BY <1>1, <1>2, MinesWithMore DEF NodesMine
<1>4. Told(blocks)
  BY <1>1, <1>2 DEF SyncsMine, HandleBlocks
<1>5. /\ NodeMines(r.s, submitted')
      /\ ClocksAgree /\ ~ r.ok => r.s.chain = s.chain
      /\ AtWork(s) /\ r.s.chain.tip_hash = s.chain.tip_hash => AtWork(r.s)
  BY <1>2, <1>3, <1>4, BatchAtWork
<1> DEFINE moved == r.s.chain.tip_hash # s.chain.tip_hash
<1>6. PICK t : /\ t = IF r.ok /\ moved THEN RestartIfActive(n, r.s) ELSE r.s
               /\ node' = [node EXCEPT ![n] = t] /\ link' = link
  BY <1>2 DEF HandleBlocks
<1>7. NodeMines(t, submitted') /\ AtWork(t)
  <2>1. CASE r.ok /\ moved
    BY <1>5, <1>6, <2>1, RestartAtWork
  <2>2. CASE ~ (r.ok /\ moved)
    <3>1. ClocksAgree => ~ moved
      BY <1>5, <2>2
    <3>. QED  BY <1>3, <1>5, <1>6, <2>2, <3>1 DEF AtWork
  <2>. QED  BY <2>1, <2>2
<1>8. NodesMine' /\ LinksMine'
  BY <1>1, <1>6, <1>7, NodesMineStep, LinksMineOn
<1>9. SyncsMine'
  <2>1. PICK y : sync' = [sync EXCEPT ![n] = y] /\ y.phase # "blocks told"
    <3> DEFINE x == [phase |-> "completed"]
               z == [phase |-> "failed"]
    <3>1. sync' = [sync EXCEPT ![n] = x] \/ sync' = [sync EXCEPT ![n] = z]
      BY <1>2 DEF HandleBlocks
    <3>2. x.phase # "blocks told" /\ z.phase # "blocks told"
      OBVIOUS
    <3> HIDE DEF x, z
    <3>. QED  BY <3>1, <3>2
  <2>. QED  BY <1>1, <2>1 DEF SyncsMine
<1>. QED  BY <1>8, <1>9 DEF NetworkMines

(* Every step keeps it.  Ids that differ after the step differed before.    *)
LEMMA MinerStep ==
    ASSUME RetargetStays, MinerInv, [Next]_vars
    PROVE  MinerInv'
<1>1. IInv /\ IInv' /\ ClaimsOK' /\ submitted \subseteq submitted'
  BY NextStep, ClaimsStep DEF MinerInv
<1> SUFFICES ASSUME IdsDiffer(submitted') PROVE NetworkMines'
  BY <1>1 DEF MinerInv
<1>2. NetworkMines /\ Pool(submitted')
  BY <1>1 DEF MinerInv, IdsDiffer, Pool, ClaimsOK
<1>3. CASE UNCHANGED vars
  <2>1. node' = node /\ link' = link /\ sync' = sync /\ submitted' = submitted
    BY <1>3 DEF vars
  <2>2. NodesMine' /\ SyncsMine'
    BY <1>2, <2>1 DEF NetworkMines, NodesMine, SyncsMine
  <2>3. LinksMine'
    BY <1>1, <1>2, <2>1, LinksMineOn DEF NetworkMines
  <2>. QED  BY <2>2, <2>3 DEF NetworkMines
<1>4. CASE \E n \in Claimants, name \in Name : SubmitUsernameClaim(n, name)
  BY <1>1, <1>2, <1>4, CommandsMine, NodeAssumption
<1>5. CASE \E n \in Miners : StartMining(n) \/ StopMining(n)
  BY <1>1, <1>2, <1>5, CommandsMine, NodeAssumption
<1>6. ASSUME NEW n \in Node, FindBlock(n) \/ Deliver(n) \/ Sync(n) \/ SyncLost(n)
      PROVE  NetworkMines'
  <2>1. CASE FindBlock(n)
    BY <1>1, <1>2, <2>1, MiningMines DEF FindBlock
  <2>2. CASE Deliver(n)
    BY <1>1, <1>2, <2>2, GossipMines DEF Deliver
  <2>3. CASE AnswerTip(n) \/ HandleTip(n) \/ AnswerBlocks(n) \/ SyncLost(n)
    BY <1>1, <1>2, <2>3, SyncMines
  <2>4. CASE HandleBlocks(n)
    BY <1>1, <1>2, <2>4, BlocksMine
  <2>. QED  BY <1>6, <2>1, <2>2, <2>3, <2>4 DEF Sync
<1>7. CASE \E m, n \in Node : LoseGossip(m, n)
  BY <1>1, <1>2, <1>7, GossipMines
<1>8. CASE \E n \in Syncers : \E m \in Node \ {n} : RequestChainSync(n, m)
  BY <1>1, <1>2, <1>8, SyncMines, NodeAssumption
<1>. QED  BY <1>3, <1>4, <1>5, <1>6, <1>7, <1>8 DEF Next

LEMMA MinerStart == Init => MinerInv
<1> SUFFICES ASSUME Init PROVE MinerInv
  OBVIOUS
<1>1. ClaimsOK
  BY FS_EmptySet DEF Init, ClaimsOK
<1>2. ChainMined(NewChain)
  BY NewChainIsSound, GenesisIsMined DEF ChainMined, NewChain, Known
<1>3. \A n \in Node : node[n] = NewNode
  BY DEF Init
<1>4. NodeMines(NewNode, submitted) /\ AtWork(NewNode)
  <2> HIDE DEF NewChain
  <2>. QED  BY <1>2 DEF NodeMines, AtWork, NewNode
<1>5. NodesMine
  BY <1>3, <1>4 DEF NodesMine
<1>6. LinksMine
  <2>1. \A m, n \in Node : Items(link[m][n]) = {}
    BY ShortSeqs DEF Init
  <2>2. Carried(link) = {}
    <3>1. \A U \in {Items(link[m][n]) : m, n \in Node} : U = {}
      BY <2>1
    <3>. QED  BY <3>1 DEF Carried
  <2>. QED  BY <2>2 DEF LinksMine
<1>7. SyncsMine
  BY DEF Init, SyncsMine
<1>. QED  BY InitOK, <1>1, <1>5, <1>6, <1>7 DEF MinerInv, NetworkMines

LEMMA MinerInvariant ==
    ASSUME RetargetStays
    PROVE  Spec => []MinerInv
<1>1. Init => MinerInv
  BY MinerStart
<1>2. MinerInv /\ [Next]_vars => MinerInv'
  BY MinerStep
<1>. QED  BY <1>1, <1>2, PTL DEF Spec

(* Whatever is gossiped, synced or mined, and in whatever order, every      *)
(* node's chain is sound: its tip is its heaviest block, its index the tip's*)
(* ancestry, its owners those of the tip's whole history (chain_state.rs).  *)
THEOREM NodeChainsSound ==
    ASSUME RetargetStays
    PROVE  Spec => [](IdsDiffer(submitted) => \A n \in Node : Sound(node[n].chain))
<1>1. MinerInv => (IdsDiffer(submitted) => \A n \in Node : Sound(node[n].chain))
  BY DEF MinerInv, NetworkMines, NodesMine, NodeMines, ChainMined
<1>. QED  BY <1>1, MinerInvariant, PTL

(* No gossip, race or restart leaves a running miner stalled or stale, in a *)
(* network whose clocks agree within the drift (node.rs:266-270, 528-535).  *)
THEOREM MinersWork ==
    ASSUME RetargetStays, ClocksAgree
    PROVE  Spec => [](IdsDiffer(submitted) => MinerAlwaysAtWork)
<1>1. MinerInv => (IdsDiffer(submitted) => MinerAlwaysAtWork)
  <2> SUFFICES ASSUME MinerInv, IdsDiffer(submitted), NEW n \in Node, node[n].active # 0
               PROVE  \E a \in node[n].attempts :
                         /\ IsCurrent(node[n], a)
                         /\ Outcome(n, node[n], a.block) = "ExtendedTip"
    BY DEF MinerAlwaysAtWork
  <2>1. NodeMines(node[n], submitted) /\ AtWork(node[n])
    BY DEF MinerInv, NetworkMines, NodesMine
  <2>2. PICK a \in node[n].attempts : /\ a.generation = node[n].active
                                      /\ Parent(a.block) = node[n].chain.tip_hash
    BY <2>1 DEF AtWork
  <2>3. ApplyOutcome(node[n].chain, a.block, Clock[n]) = "ExtendedTip"
    BY <2>1, <2>2, ExtendsTheTip DEF NodeMines
  <2>. QED  BY <2>2, <2>3 DEF IsCurrent, Outcome
<1>. QED  BY <1>1, MinerInvariant, PTL

-----------------------------------------------------------------------------
(* One miner *)

OneMiner == \A m, n \in Miners : m = n

FromMiner(b) == b # Genesis => Header(b).miner \in Miners

(* The current attempt has every claim of others that a fresh one would.    *)
Fresh(n, s) ==
    \A a \in s.attempts : IsCurrent(s, a) =>
        {tx \in Selected(s) : tx.owner # n} \subseteq Header(a.block).txs

(* Generations are counted up, only a miner has any.                        *)
Counted(n, s) ==
    /\ s.active \in Nat /\ s.started \in Nat /\ s.active <= s.started
    /\ \A a \in s.attempts : a.generation \in Nat /\ a.generation <= s.started
    /\ n \notin Miners => s.active = 0 /\ s.attempts = {}
    /\ \A b \in Known(s.chain) : FromMiner(b)

NodeFresh(n, s) == Counted(n, s) /\ Fresh(n, s)

(* Nobody has more work to tell a miner of.                                 *)
SyncFresh(n, y) ==
    /\ y.phase = "blocks told" => \A i \in 1..Len(y.blocks) : FromMiner(y.blocks[i])
    /\ n \in Miners => /\ y.phase \notin {"blocks asked", "blocks told"}
                       /\ y.phase = "tip told" =>
                            y.work \in Nat /\ y.work <= TipWork(node[n].chain)

NodesFresh == \A n \in Node : NodeFresh(n, node[n])
LinksFresh == \A msg \in Carried(link) : msg.kind = "block" => FromMiner(msg.block)
SyncsFresh == \A n \in Node : SyncFresh(n, sync[n])

NetworkFresh == NodesFresh /\ LinksFresh /\ SyncsFresh

(* What the miner would grind on after another claim of its own has no more *)
(* claims of others than before: the new one takes the place of the one it  *)
(* displaces.                                                               *)
LEMMA OwnClaimAddsNone ==
    ASSUME NEW S, Pool(S), NEW s, ChainMined(s.chain), NEW tx,
           tx.anchor = s.chain.tip_hash, NEW t, t.chain = s.chain,
           t.mempool = s.mempool \cup {tx}, t.mempool \subseteq S,
           NEW u \in Selected(t), u # tx
    PROVE  u \in Selected(s)
<1> DEFINE c == s.chain
           old == FirstOfEachName(s.mempool) \cap Includable(s)
           new == FirstOfEachName(t.mempool) \cap Includable(t)
           Before(pool) == {v \in pool : TxId(v) < TxId(u)}
<1>1. /\ Selected(s) = {v \in old : Cardinality({w \in old : TxId(w) < TxId(v)}) < MaxTxs}
      /\ Selected(t) = {v \in new : Cardinality({w \in new : TxId(w) < TxId(v)}) < MaxTxs}
  BY DEF Selected
<1>2. u \in new /\ Cardinality(Before(new)) < MaxTxs
  BY <1>1
<1>3. \A v \in S : TxId(v) \in Nat
  BY DEF Pool, IdsDiffer
<1>4. \A v, w \in S : TxId(v) = TxId(w) => v = w
  BY DEF Pool, IdsDiffer
<1>5. /\ s.mempool \subseteq S /\ tx \in S
      /\ old \subseteq s.mempool /\ new \subseteq t.mempool
  BY DEF Includable
<1>6. \A v \in s.mempool : v \in Includable(t) <=> v \in Includable(s)
  BY DEF Includable
<1>7. \A v \in s.mempool : v \in FirstOfEachName(t.mempool) => v \in FirstOfEachName(s.mempool)
  BY DEF FirstOfEachName
<1>8. u \in old
  BY <1>2, <1>5, <1>6, <1>7
<1>9. /\ \A v \in old : \A w \in s.mempool : w.name = v.name => TxId(v) <= TxId(w)
      /\ \A v \in old \ new : v.name = tx.name /\ TxId(tx) < TxId(v)
  <2>1. \A v \in old : \A w \in s.mempool : w.name = v.name => TxId(v) <= TxId(w)
    BY DEF FirstOfEachName
  <2>2. ASSUME NEW v \in old \ new
        PROVE  v.name = tx.name /\ TxId(tx) < TxId(v)
    <3>1. v \in s.mempool /\ v \notin FirstOfEachName(t.mempool)
      BY <1>5, <1>6
    <3>2. PICK w \in t.mempool : w.name = v.name /\ ~ (TxId(v) <= TxId(w))
      BY <3>1 DEF FirstOfEachName
    <3>3. w = tx
      BY <2>1, <3>2
    <3>4. TxId(tx) \in Nat /\ TxId(v) \in Nat
      BY <1>3, <1>5, <3>1
    <3>. QED  BY <3>2, <3>3, <3>4
  <2>. QED  BY <2>1, <2>2
<1>10. ASSUME NEW v \in old \ new
       PROVE  tx \in new
  <2>1. v.name = tx.name /\ TxId(tx) < TxId(v) /\ v \in s.mempool
    BY <1>5, <1>9
  <2>2. tx \in FirstOfEachName(t.mempool)
    <3> SUFFICES ASSUME NEW w \in t.mempool, w.name = tx.name PROVE TxId(tx) <= TxId(w)
      BY DEF FirstOfEachName
    <3>1. TxId(tx) \in Nat /\ TxId(v) \in Nat /\ TxId(w) \in Nat
      BY <1>3, <1>5, <2>1
    <3>2. CASE w = tx
      BY <3>1, <3>2
    <3>3. CASE w \in s.mempool
      <4>1. TxId(v) <= TxId(w)
        BY <1>9, <2>1, <3>3
      <4>. QED  BY <2>1, <3>1, <4>1
    <3>. QED  BY <3>2, <3>3
  <2>3. ValidForMempool(c, v, TipHeight(c) + 1)
    BY DEF Includable
  <2>4. ValidForMempool(c, tx, TipHeight(c) + 1)
    <3>1. FloorHeight(c) = 0 /\ c.tip_hash \in Known(c) /\ Legal(c.tip_hash)
      BY MinedParts
    <3>2. PICK p, N : p = c.tip_hash /\ N = Len(p) /\ N \in Nat /\ IsBlock(p)
      <4>1. IsBlock(c.tip_hash) /\ Len(c.tip_hash) \in Nat
        BY <3>1, LegalHeader
      <4>. QED  BY <4>1
    <3>3. \A h \in 0..N : Len(Prefix(p, h)) = h
      BY <3>2, PrefixBlock
    <3>4. PICK h \in 0..N : v.anchor = Prefix(p, h)
      BY <2>3, <3>1, <3>2 DEF ValidForMempool, AnchorOK, Ancestors
    <3>5. N + 1 - Len(v.anchor) <= AnchorMaxAge
      <4>1. TipHeight(c) + 1 = N + 1
        BY <3>2 DEF TipHeight
      <4>2. AnchorOK(c, v.anchor, c.tip_hash, TipHeight(c) + 1)
        BY <2>3 DEF ValidForMempool
      <4>3. AnchorOK(c, v.anchor, c.tip_hash, N + 1)
        BY <4>1, <4>2
      <4>4. Len(v.anchor) \in Nat
        BY <3>3, <3>4
      <4>. QED  BY <3>2, <4>3, <4>4, BoundsAssumption DEF AnchorOK
    <3>6. N + 1 - Len(tx.anchor) <= AnchorMaxAge
      <4>1. Len(v.anchor) = h /\ Len(tx.anchor) = N
        BY <3>2, <3>3, <3>4
      <4>. QED  BY <3>5, <4>1, BoundsAssumption
    <3>7. \E g \in DOMAIN Ancestors(c, p) : Ancestors(c, p)[g] = tx.anchor
      <4>1. N \in 0..N /\ Prefix(p, N) = p
        BY <3>2, PrefixWhole
      <4>. QED  BY <3>1, <3>2, <4>1 DEF Ancestors
    <3>. QED  BY <2>1, <2>3, <3>2, <3>6, <3>7 DEF ValidForMempool, AnchorOK, TipHeight
  <2>. QED  BY <2>2, <2>4 DEF Includable
<1>11. IsFiniteSet(old) /\ IsFiniteSet(new)
  BY <1>5, FS_Subset DEF Pool
<1>12. Cardinality(Before(old)) <= Cardinality(Before(new))
  <2> DEFINE A == Before(old)
             B == Before(new)
  <2>0. IsFiniteSet(A) /\ IsFiniteSet(B)
    <3>1. A \subseteq old /\ B \subseteq new
      OBVIOUS
    <3>. QED  BY <1>11, <3>1, FS_Subset
  <2>1. CASE A \subseteq B
    BY <2>0, <2>1, FS_Subset
  <2>2. ASSUME NEW v \in A, v \notin B
        PROVE  Cardinality(A) <= Cardinality(B)
    <3>1. v \in old \ new /\ TxId(v) < TxId(u)
      BY <2>2
    <3>2. tx \in new /\ v.name = tx.name /\ TxId(tx) < TxId(v)
      BY <1>9, <1>10, <3>1
    <3>3. \A w \in old : TxId(w) \in Nat
      BY <1>3, <1>5
    <3>4. tx \in B
      <4>1. TxId(tx) \in Nat /\ TxId(v) \in Nat /\ TxId(u) \in Nat
        BY <1>3, <1>5, <1>8, <3>1
      <4>. QED  BY <3>1, <3>2, <4>1
    <3>5. tx \notin old
      <4> SUFFICES ASSUME tx \in old PROVE FALSE
        OBVIOUS
      <4>1. TxId(v) <= TxId(tx) /\ TxId(tx) \in Nat /\ TxId(v) \in Nat
        BY <1>3, <1>5, <1>9, <3>1, <3>2
      <4>. QED  BY <3>2, <4>1
    <3>6. A \subseteq (B \ {tx}) \cup {v}
      <4> SUFFICES ASSUME NEW w \in A, w # v PROVE w \in B \ {tx}
        OBVIOUS
      <4>1. w \in old /\ TxId(w) < TxId(u) /\ w # tx
        BY <3>5
      <4>2. w \in new
        <5> SUFFICES ASSUME w \notin new PROVE FALSE
          OBVIOUS
        <5>1. w.name = tx.name
          BY <1>9, <4>1
        <5>2. TxId(v) <= TxId(w) /\ TxId(w) <= TxId(v)
          BY <1>5, <1>9, <3>1, <3>2, <4>1, <5>1
        <5>3. TxId(v) = TxId(w)
          BY <3>1, <3>3, <4>1, <5>2
        <5>. QED  BY <1>4, <1>5, <3>1, <4>1, <5>3
      <4>. QED  BY <4>1, <4>2
    <3> HIDE DEF A, B
    <3>7. /\ IsFiniteSet(B \ {tx}) /\ Cardinality(B \ {tx}) = Cardinality(B) - 1
          /\ Cardinality(B) \in Nat
      BY <2>0, <3>4, FS_RemoveElement, FS_CardinalityType
    <3>8. /\ IsFiniteSet((B \ {tx}) \cup {v})
          /\ Cardinality((B \ {tx}) \cup {v}) <= Cardinality(B)
          /\ Cardinality((B \ {tx}) \cup {v}) \in Nat
      <4> DEFINE D == B \ {tx}
      <4>1. IsFiniteSet(D) /\ Cardinality(D) \in Nat /\ Cardinality(D) = Cardinality(B) - 1
        BY <3>7, FS_CardinalityType
      <4> HIDE DEF D
      <4>2. /\ IsFiniteSet(D \cup {v})
            /\ Cardinality(D \cup {v}) = IF v \in D THEN Cardinality(D) ELSE Cardinality(D) + 1
        BY <4>1, FS_AddElement
      <4>. QED  BY <3>7, <4>1, <4>2 DEF D
    <3>9. /\ Cardinality(A) <= Cardinality((B \ {tx}) \cup {v})
          /\ Cardinality(A) \in Nat
      BY <2>0, <3>6, <3>8, FS_Subset, FS_CardinalityType
    <3>. QED  BY <3>7, <3>8, <3>9
  <2>. QED  BY <2>1, <2>2
<1>13. Cardinality(Before(old)) < MaxTxs
  <2>1. Cardinality(Before(old)) \in Nat /\ Cardinality(Before(new)) \in Nat
    <3>1. Before(old) \subseteq old /\ Before(new) \subseteq new
      OBVIOUS
    <3>. QED  BY <1>11, <3>1, FS_Subset, FS_CardinalityType
  <2>. QED  BY <1>2, <1>12, <2>1, BoundsAssumption
<1>. QED  BY <1>1, <1>8, <1>13

(* What is selected depends on the chain and on the mempool.                *)
LEMMA SameSelection ==
    ASSUME NEW s, NEW t, t.chain = s.chain, t.mempool = s.mempool
    PROVE  Selected(t) = Selected(s)
<1>1. FirstOfEachName(t.mempool) = FirstOfEachName(s.mempool)
  OBVIOUS
<1>2. Includable(t) = Includable(s)
  BY DEF Includable
<1>. QED  BY <1>1, <1>2 DEF Selected

(* A started attempt is the only one of its generation, and fresh.          *)
LEMMA StartedFresh ==
    ASSUME NEW n \in Miners, NEW S, NEW s, NodeMines(s, S), Counted(n, s),
           NEW t, t = Started(n, s)
    PROVE  NodeFresh(n, t)
<1> DEFINE a == [generation |-> s.started + 1, block |-> Candidate(n, s)]
<1>1. /\ t.chain = s.chain /\ t.mempool = s.mempool
      /\ t.active = s.started + 1 /\ t.started = s.started + 1
      /\ t.attempts = s.attempts \cup {a} \/ t.attempts = s.attempts
  BY Zenon DEF Started, NextGeneration, NodeMines
<1>2. a.generation = s.started + 1 /\ Header(a.block).txs = Selected(s)
  <2>1. PICK x : Candidate(n, s) = Extend(s.chain.tip_hash, x) /\ x.txs = Selected(s)
    BY DEF Candidate
  <2>2. IsBlock(s.chain.tip_hash)
    BY MinedParts, LegalHeader DEF NodeMines
  <2>3. Header(Candidate(n, s)) = x
    BY <2>1, <2>2, ExtendBlock
  <2>. QED  BY <2>1, <2>3
<1> HIDE DEF a
<1>3. Counted(n, t)
  BY <1>1, <1>2 DEF Counted
<1>4. Fresh(n, t)
  <2> SUFFICES ASSUME NEW k \in t.attempts, IsCurrent(t, k)
               PROVE  Selected(t) \subseteq Header(k.block).txs
    BY DEF Fresh
  <2>1. k.generation = s.started + 1
    BY <1>1 DEF IsCurrent
  <2>2. k \notin s.attempts
    BY <2>1 DEF Counted
  <2>3. k = a
    BY <1>1, <2>2
  <2>. QED  BY <1>1, <1>2, <2>3, SameSelection
<1>. QED  BY <1>3, <1>4 DEF NodeFresh

LEMMA RestartFresh ==
    ASSUME NEW n \in Node, NEW S, NEW s, NodeMines(s, S), Counted(n, s),
           NEW t, t = RestartIfActive(n, s)
    PROVE  NodeFresh(n, t)
<1>1. CASE s.active = 0
  BY <1>1 DEF RestartIfActive, NodeFresh, Fresh, IsCurrent
<1>2. CASE s.active # 0
  <2>1. n \in Miners
    BY <1>2 DEF Counted
  <2>. QED  BY <1>2, <2>1, StartedFresh DEF RestartIfActive
<1>. QED  BY <1>1, <1>2

(* An applied block that moves the tip is followed by a fresh attempt.      *)
LEMMA AppliedFresh ==
    ASSUME RetargetStays, NEW n \in Node, NEW S, Pool(S), NEW s, NodeMines(s, S),
           NodeOK(n, s), Counted(n, s), NEW b, Mined(b), FromMiner(b),
           NEW t, t = Applied(n, s, b)
    PROVE  /\ Counted(n, t)
           /\ TipChanges(n, s, b) => Fresh(n, t)
<1> DEFINE e == TryApply(s.chain, b, Clock[n])
           pool == s.mempool \ Header(b).txs
           r == [s EXCEPT !.chain = e, !.mempool = pool]
<1>1. ChainMined(e)
  BY ApplyMined DEF NodeMines
<1>2. /\ DOMAIN r = DOMAIN s /\ r.chain = e /\ r.mempool = pool
      /\ r.active = s.active /\ r.started = s.started /\ r.attempts = s.attempts
  <2> HIDE DEF e, pool
  <2>. QED  BY DEF NodeMines
<1>3. Known(e) \subseteq Known(s.chain) \cup {b}
  <2>1. Len(b) \in Nat
    BY LegalHeader DEF Mined, Mineable
  <2>. QED  BY <2>1, TryApplyGrows DEF NodeOK
<1>4. t = IF ~ Accepts(n, s, b) THEN s
          ELSE IF TipChanges(n, s, b) THEN RestartIfActive(n, r) ELSE r
  BY Zenon DEF Applied
<1>5. TipChanges(n, s, b) => Accepts(n, s, b)
  BY DEF TipChanges, Accepts
<1> HIDE DEF e, pool, r
<1>6. NodeMines(r, S)
  <2>1. r.mempool \subseteq s.mempool
    BY <1>2 DEF pool
  <2>. QED  BY <1>1, <1>2, <2>1, NodeMinesOn
<1>7. Counted(n, r)
  BY <1>2, <1>3 DEF Counted
<1>8. NodeFresh(n, RestartIfActive(n, r))
  BY <1>6, <1>7, RestartFresh
<1>. QED  BY <1>4, <1>5, <1>7, <1>8 DEF NodeFresh

(* The miner knows every block there is.                                    *)
LEMMA MinerKnows ==
    ASSUME OneMiner, IInv, NEW n \in Miners, NEW b, Owned(b), FromMiner(b)
    PROVE  b \in Known(node[n].chain)
<1>1. n \in Node
  BY NodeAssumption
<1>2. CASE b = Genesis
  BY <1>1, <1>2 DEF IInv, NodesOK, NodeOK, ChainOK
<1>3. CASE b # Genesis
  BY <1>1, <1>3 DEF FromMiner, Owned, OneMiner
<1>. QED  BY <1>2, <1>3

(* A chain that knows another one's tip has as much work.                   *)
LEMMA WorkOfTips ==
    ASSUME NEW c, ChainMined(c), NEW e, ChainMined(e), c.tip_hash \in Known(e)
    PROVE  TipWork(c) \in Nat /\ TipWork(e) \in Nat /\ TipWork(c) <= TipWork(e)
<1>1. /\ TipWork(c) = Work(c.tip_hash) /\ TipWork(e) = Work(e.tip_hash)
      /\ Legal(c.tip_hash) /\ Legal(e.tip_hash)
  <2>1. c.tip_hash \in Known(c) /\ Legal(c.tip_hash)
    BY MinedParts
  <2>2. e.tip_hash \in Known(e) /\ Legal(e.tip_hash)
    BY MinedParts
  <2>. QED  BY <2>1, <2>2 DEF ChainMined, Sound, Accounted, TipWork
<1>2. Work(c.tip_hash) <= Work(e.tip_hash)
  BY DEF ChainMined, Sound, Heaviest
<1>3. Work(c.tip_hash) \in Nat /\ Work(e.tip_hash) \in Nat
  BY <1>1, LegalHeader
<1>. QED  BY <1>1, <1>2, <1>3

(* A step that gives one node t, and no miner another chain that has less.  *)
LEMMA NodesFreshStep ==
    ASSUME IInv, NodesMine, NodesFresh, NEW n \in Node, NEW t,
           node' = [node EXCEPT ![n] = t], NodeFresh(n, t)
    PROVE  /\ NodesFresh'
           /\ ChainMined(t.chain) /\ node[n].chain.tip_hash \in Known(t.chain)
              /\ SyncsFresh /\ sync' = sync => SyncsFresh'
<1>1. \A k \in Node : node'[k] = IF k = n THEN t ELSE node[k]
  BY DEF IInv, NodesOK
<1>2. NodesFresh'
  <2>1. \A k \in Node : NodeFresh(k, node'[k])
    BY <1>1 DEF NodesFresh
  <2>. QED  BY <2>1 DEF NodesFresh
<1>3. ASSUME ChainMined(t.chain), node[n].chain.tip_hash \in Known(t.chain),
             SyncsFresh, sync' = sync
      PROVE  SyncsFresh'
  <2>1. ASSUME NEW k \in Node
        PROVE  /\ TipWork(node[k].chain) \in Nat /\ TipWork(node'[k].chain) \in Nat
               /\ TipWork(node[k].chain) <= TipWork(node'[k].chain)
    <3>1. ChainMined(node[k].chain)
      BY DEF NodesMine, NodeMines
    <3>2. ChainMined(node'[k].chain) /\ node[k].chain.tip_hash \in Known(node'[k].chain)
      BY <1>1, <1>3, <3>1, MinedParts
    <3>. QED  BY <3>1, <3>2, WorkOfTips
  <2>2. ASSUME NEW k \in Node
        PROVE  SyncFresh(k, sync[k])'
    <3>1. SyncFresh(k, sync[k]) /\ sync'[k] = sync[k]
      BY <1>3 DEF SyncsFresh
    <3>2. ASSUME sync[k].work \in Nat, sync[k].work <= TipWork(node[k].chain)
          PROVE  sync[k].work <= TipWork(node'[k].chain)
      BY <2>1, <3>2
    <3>. QED  BY <3>1, <3>2 DEF SyncFresh
  <2>. QED  BY <2>2 DEF SyncsFresh
<1>. QED  BY <1>2, <1>3

(* A step that puts no foreign block on the links.                          *)
LEMMA LinksFreshStep ==
    ASSUME LinksFresh, NEW msgs, Carried(link') \subseteq Carried(link) \cup msgs,
           \A msg \in msgs : msg.kind = "block" => FromMiner(msg.block)
    PROVE  LinksFresh'
  BY DEF LinksFresh

LEMMA LinksFreshOn ==
    ASSUME LinksFresh, Carried(link') \subseteq Carried(link)
    PROVE  LinksFresh'
  BY DEF LinksFresh

(* The step of an app.                                                      *)
LEMMA CommandsFresh ==
    ASSUME IInv, NetworkMines, NetworkFresh, Pool(submitted'), submitted \subseteq submitted',
           NEW n \in Node,
           \/ \E name \in Name : SubmitUsernameClaim(n, name)
           \/ n \in Miners /\ (StartMining(n) \/ StopMining(n))
    PROVE  NetworkFresh'
<1>1. /\ NodesOK /\ Wired(link) /\ NodesMine
      /\ NodesFresh /\ LinksFresh /\ SyncsFresh
  BY DEF IInv, LinksOK, NetworkMines, NetworkFresh
<1>2. /\ NodeMines(node[n], submitted) /\ Counted(n, node[n]) /\ Fresh(n, node[n])
      /\ ChainMined(node[n].chain) /\ node[n].chain.tip_hash \in Known(node[n].chain)
  BY <1>1, MinedParts DEF NodesMine, NodeMines, NodesFresh, NodeFresh
<1>3. sync' = sync
  BY DEF SubmitUsernameClaim, StartMining, StopMining
<1>4. ASSUME NEW t, node' = [node EXCEPT ![n] = t], NodeFresh(n, t), t.chain = node[n].chain
      PROVE  NodesFresh' /\ SyncsFresh'
  BY <1>1, <1>2, <1>3, <1>4, NodesFreshStep
<1>5. ASSUME NEW name \in Name, SubmitUsernameClaim(n, name)
      PROVE  NetworkFresh'
  <2> DEFINE tx == [name |-> name, owner |-> n, anchor |-> node[n].chain.tip_hash]
             t == [node[n] EXCEPT !.mempool = @ \cup {tx}]
             msg == [kind |-> "tx", tx |-> tx]
  <2>1. /\ submitted' = submitted \cup {tx} /\ node' = [node EXCEPT ![n] = t]
        /\ link' = Published(link, n, << msg >>)
    BY <1>5 DEF SubmitUsernameClaim
  <2>2. /\ t.chain = node[n].chain /\ t.mempool = node[n].mempool \cup {tx}
        /\ t.active = node[n].active /\ t.started = node[n].started
        /\ t.attempts = node[n].attempts
    <3> HIDE DEF tx
    <3>. QED  BY <1>2 DEF NodeMines
  <2>3. msg.kind = "tx" /\ tx.owner = n /\ tx.anchor = node[n].chain.tip_hash
    OBVIOUS
  <2> HIDE DEF tx, t, msg
  <2>4. \A u \in Selected(t) : u.owner # n => u \in Selected(node[n])
    <3>1. t.mempool \subseteq submitted'
      BY <1>2, <2>1, <2>2 DEF NodeMines
    <3>2. ASSUME NEW u \in Selected(t), u.owner # n
          PROVE  u \in Selected(node[n])
      <4>1. u # tx
        BY <2>3, <3>2
      <4>. QED  BY <1>2, <2>2, <2>3, <3>1, <4>1, OwnClaimAddsNone
    <3>. QED  BY <3>2
  <2>5. NodeFresh(n, t)
    <3>1. Counted(n, t)
      BY <1>2, <2>2 DEF Counted
    <3>2. Fresh(n, t)
      BY <1>2, <2>2, <2>4 DEF Fresh, IsCurrent
    <3>. QED  BY <3>1, <3>2 DEF NodeFresh
  <2>6. LinksFresh'
    <3>1. IsSeq(<<msg>>) /\ Items(<<msg>>) = {msg}
      BY ShortSeqs
    <3>2. PICK msgs : msgs = {msg}
      OBVIOUS
    <3>3. Carried(link') \subseteq Carried(link) \cup msgs
      BY <1>1, <2>1, <3>1, <3>2, PublishedLinks
    <3>. QED  BY <1>1, <2>3, <3>2, <3>3, LinksFreshStep
  <2>. QED  BY <1>4, <2>1, <2>2, <2>5, <2>6 DEF NetworkFresh
<1>6. CASE n \in Miners /\ StartMining(n)
  <2>1. PICK t : t = Started(n, node[n])
    OBVIOUS
  <2>2. node' = [node EXCEPT ![n] = t] /\ link' = link
    BY <1>6, <2>1 DEF StartMining
  <2>3. NodeFresh(n, t) /\ t.chain = node[n].chain
    <3>1. t.chain = node[n].chain
      BY <1>1, <2>1, StartedFields DEF NodesOK
    <3>. QED  BY <1>2, <1>6, <2>1, <3>1, StartedFresh
  <2>4. LinksFresh'
    BY <1>1, <2>2, LinksFreshOn
  <2>. QED  BY <1>4, <2>2, <2>3, <2>4 DEF NetworkFresh
<1>7. CASE StopMining(n)
  <2> DEFINE t == [node[n] EXCEPT !.active = 0]
  <2>1. node' = [node EXCEPT ![n] = t] /\ link' = link
    BY <1>7 DEF StopMining
  <2>2. /\ t.chain = node[n].chain /\ t.mempool = node[n].mempool /\ t.active = 0
        /\ t.started = node[n].started /\ t.attempts = node[n].attempts
    BY <1>2 DEF NodeMines
  <2> HIDE DEF t
  <2>3. NodeFresh(n, t)
    BY <1>2, <2>2 DEF NodeFresh, Counted, Fresh, IsCurrent
  <2>4. LinksFresh'
    BY <1>1, <2>1, LinksFreshOn
  <2>. QED  BY <1>4, <2>1, <2>2, <2>3, <2>4 DEF NetworkFresh
<1>. QED  BY <1>5, <1>6, <1>7

(* Where the mempool or the tip of a node that mines changes, there is a    *)
(* fresh attempt.                                                           *)
LEMMA MiningFresh ==
    ASSUME RetargetStays, IInv, NetworkMines, NetworkMines', NetworkFresh, Pool(submitted'),
           submitted \subseteq submitted',
           NEW n \in Node, NEW a \in node[n].attempts, MiningResult(n, a)
    PROVE  NetworkFresh'
<1> DEFINE s == [node[n] EXCEPT !.attempts = @ \ {a}]
           b == a.block
           t == Applied(n, s, b)
<1>1. /\ NodesOK /\ Wired(link) /\ NodesMine /\ NodesMine'
      /\ NodesFresh /\ LinksFresh /\ SyncsFresh
  BY DEF IInv, LinksOK, NetworkMines, NetworkFresh
<1>2. /\ NodeMines(node[n], submitted') /\ Counted(n, node[n]) /\ Fresh(n, node[n])
      /\ NodeOK(n, node[n])
  BY <1>1, MinesWithMore DEF NodesMine, NodesFresh, NodeFresh, NodesOK
<1>3. sync' = sync
  BY DEF MiningResult
<1>4. /\ DOMAIN s = DOMAIN node[n] /\ s.chain = node[n].chain
      /\ s.mempool = node[n].mempool /\ s.active = node[n].active
      /\ s.started = node[n].started /\ s.attempts = node[n].attempts \ {a}
  BY <1>2 DEF NodeMines
<1>5. NodeMines(s, submitted') /\ NodeOK(n, s) /\ Counted(n, s) /\ Mined(b) /\ FromMiner(b)
  <2>1. Len(b) <= MaxHeight
    BY DEF MiningResult
  <2>2. Header(b).miner = n /\ n \in Miners
    BY <1>2 DEF NodeOK, OwnAttempt, Counted
  <2> HIDE DEF s
  <2>3. NodeMines(s, submitted') /\ Mined(b)
    BY <1>2, <1>4, <2>1 DEF NodeMines, Mined
  <2>4. NodeOK(n, s)
    BY <1>2, <1>4 DEF NodeOK
  <2>5. Counted(n, s)
    BY <1>2, <1>4 DEF Counted
  <2>. QED  BY <2>2, <2>3, <2>4, <2>5 DEF FromMiner
<1>6. ASSUME NEW v, node' = [node EXCEPT ![n] = v], NodeFresh(n, v),
             Known(node[n].chain) \subseteq Known(v.chain)
      PROVE  NodesFresh' /\ SyncsFresh'
  <2>1. node'[n] = v
    BY <1>1, <1>6 DEF NodesOK
  <2>2. ChainMined(v.chain) /\ node[n].chain.tip_hash \in Known(node[n].chain)
    BY <1>1, <1>2, <2>1, MinedParts DEF NodesMine, NodeMines
  <2>. QED  BY <1>1, <1>3, <1>6, <2>2, NodesFreshStep
<1>7. CASE ~ IsCurrent(s, a)
  <2>1. node' = [node EXCEPT ![n] = s] /\ link' = link
    BY <1>7 DEF MiningResult
  <2> HIDE DEF s
  <2>2. Fresh(n, s)
    <3>1. Selected(s) = Selected(node[n])
      BY <1>4, SameSelection
    <3>. QED  BY <1>2, <1>4, <3>1 DEF Fresh, IsCurrent
  <2>3. NodesFresh' /\ SyncsFresh'
    BY <1>4, <1>5, <1>6, <2>1, <2>2 DEF NodeFresh
  <2>4. LinksFresh'
    BY <1>1, <2>1, LinksFreshOn
  <2>. QED  BY <2>3, <2>4 DEF NetworkFresh
<1>8. CASE IsCurrent(s, a)
  <2>1. PICK v : /\ v = IF TipChanges(n, s, b) THEN t ELSE RestartIfActive(n, t)
                 /\ node' = [node EXCEPT ![n] = v]
                 /\ link' = Published(link, n, Gossip(n, s, b))
    BY <1>8 DEF MiningResult
  <2> HIDE DEF s, b, t
  <2>2. NodeMines(t, submitted') /\ Counted(n, t) /\ (TipChanges(n, s, b) => Fresh(n, t))
    BY <1>5, AppliedAtWork, AppliedFresh DEF t
  <2>3. NodeFresh(n, v)
    BY <2>1, <2>2, RestartFresh DEF NodeFresh
  <2>4. Known(node[n].chain) \subseteq Known(v.chain)
    <3>1. Len(b) \in Nat
      BY <1>5, LegalHeader DEF Mined, Mineable
    <3>2. NodeOK(n, t) /\ Known(s.chain) \subseteq Known(t.chain)
      BY <1>5, <3>1, AppliedFields DEF t
    <3>3. v.chain = t.chain
      BY <2>1, <3>2, RestartFields
    <3>. QED  BY <1>4, <3>2, <3>3
  <2>5. NodesFresh' /\ SyncsFresh'
    BY <1>6, <2>1, <2>3, <2>4
  <2>6. LinksFresh'
    <3>1. PICK out : out = Gossip(n, s, b)
      OBVIOUS
    <3>2. IsSeq(out) /\ \A msg \in Items(out) : msg.kind = "block" => FromMiner(msg.block)
      BY <1>5, <3>1, GossipItems
    <3>3. Carried(link') \subseteq Carried(link) \cup Items(out)
      BY <1>1, <2>1, <3>1, <3>2, PublishedLinks
    <3>. QED  BY <1>1, <3>2, <3>3, LinksFreshStep
  <2>. QED  BY <2>5, <2>6 DEF NetworkFresh
<1>. QED  BY <1>7, <1>8

(* What reaches the miner by gossip is a block it knows, or a claim.        *)
LEMMA GossipFresh ==
    ASSUME RetargetStays, OneMiner, IInv, NetworkMines, NetworkMines', NetworkFresh,
           Pool(submitted'), submitted \subseteq submitted',
           NEW m \in Node, NEW n \in Node,
           DeliverBlock(m, n) \/ DeliverClaim(m, n) \/ LoseGossip(m, n)
    PROVE  NetworkFresh'
<1> DEFINE msg == Head(link[m][n])
<1>1. /\ NodesOK /\ LinksOK /\ Wired(link) /\ NodesMine /\ NodesMine' /\ LinksMine
      /\ NodesFresh /\ LinksFresh /\ SyncsFresh
  BY DEF IInv, LinksOK, NetworkMines, NetworkFresh
<1>2. /\ NodeMines(node[n], submitted') /\ Counted(n, node[n]) /\ Fresh(n, node[n])
      /\ NodeOK(n, node[n]) /\ NodeFresh(n, node[n])
  BY <1>1, MinesWithMore DEF NodesMine, NodesFresh, NodeFresh, NodesOK
<1>3. sync' = sync /\ link[m][n] # << >>
  BY DEF DeliverBlock, DeliverClaim, LoseGossip
<1>4. /\ Wired(Taken(m, n)) /\ Carried(Taken(m, n)) \subseteq Carried(link)
      /\ msg \in Carried(link)
  BY <1>1, <1>3, TakenLinks
<1>5. ASSUME NEW v, node' = [node EXCEPT ![n] = v], NodeFresh(n, v),
             Known(node[n].chain) \subseteq Known(v.chain)
      PROVE  NodesFresh' /\ SyncsFresh'
  <2>1. node'[n] = v
    BY <1>1, <1>5 DEF NodesOK
  <2>2. ChainMined(v.chain) /\ node[n].chain.tip_hash \in Known(node[n].chain)
    BY <1>1, <1>2, <2>1, MinedParts DEF NodesMine, NodeMines
  <2>. QED  BY <1>1, <1>3, <1>5, <2>2, NodesFreshStep
<1>6. CASE DeliverBlock(m, n)
  <2>0. PICK b, s : b = msg.block /\ s = node[n]
    OBVIOUS
  <2>1. PICK t, out : /\ t = Applied(n, s, b) /\ out = Gossip(n, s, b)
                      /\ node' = [node EXCEPT ![n] = t]
                      /\ link' = Published(Taken(m, n), n, out)
    BY <1>6, <2>0 DEF DeliverBlock
  <2>2. Mined(b) /\ Owned(b) /\ FromMiner(b)
    BY <1>1, <1>4, <1>6, <2>0 DEF DeliverBlock, LinksMine, MessageOK, LinksOK, LinksFresh
  <2>3. NodeFresh(n, t)
    <3>1. CASE n \in Miners
      <4>1. b \in Known(s.chain)
        BY <2>0, <2>2, <3>1, MinerKnows
      <4>2. ApplyOutcome(s.chain, b, Clock[n]) = "AlreadyKnown"
        BY <4>1 DEF ApplyOutcome
      <4>3. t = s
        BY <2>1, <4>2 DEF Applied, Accepts, Outcome
      <4>. QED  BY <1>2, <2>0, <4>3
    <3>2. CASE n \notin Miners
      <4>1. Counted(n, t)
        BY <1>2, <2>0, <2>1, <2>2, AppliedFresh
      <4>. QED  BY <3>2, <4>1 DEF NodeFresh, Counted, Fresh
    <3>. QED  BY <3>1, <3>2
  <2>4. Known(s.chain) \subseteq Known(t.chain)
    <3>1. Len(b) \in Nat
      BY <2>2 DEF Owned
    <3>. QED  BY <1>2, <2>0, <2>1, <3>1, AppliedFields
  <2>5. NodesFresh' /\ SyncsFresh'
    BY <1>5, <2>0, <2>1, <2>3, <2>4
  <2>6. IsSeq(out) /\ \A x \in Items(out) : x.kind = "block" => FromMiner(x.block)
    BY <2>1, <2>2, GossipItems
  <2>7. Carried(link') \subseteq Carried(link) \cup Items(out)
    BY <1>4, <2>1, <2>6, PublishedLinks
  <2>8. LinksFresh'
    BY <1>1, <2>6, <2>7, LinksFreshStep
  <2>. QED  BY <2>5, <2>8 DEF NetworkFresh
<1>7. CASE DeliverClaim(m, n)
  <2> DEFINE s == [node[n] EXCEPT !.mempool = @ \cup {msg.tx}]
  <2>1. PICK t : t = RestartIfActive(n, s) /\ node' = [node EXCEPT ![n] = t]
                 /\ link' = Taken(m, n)
    BY <1>7 DEF DeliverClaim, WithClaim
  <2>2. msg.tx \in submitted'
    BY <1>1, <1>4, <1>7 DEF DeliverClaim, LinksMine, MessageOK
  <2>3. /\ DOMAIN s = DOMAIN node[n] /\ s.chain = node[n].chain
        /\ s.mempool = node[n].mempool \cup {msg.tx} /\ s.active = node[n].active
        /\ s.started = node[n].started /\ s.attempts = node[n].attempts
    <3> HIDE DEF msg
    <3>. QED  BY <1>2 DEF NodeMines
  <2> HIDE DEF s, msg
  <2>4. NodeMines(s, submitted') /\ Counted(n, s) /\ NodeOK(n, s)
    BY <1>2, <2>2, <2>3 DEF NodeMines, Counted, NodeOK
  <2>5. NodeFresh(n, t) /\ t.chain = node[n].chain
    BY <2>1, <2>3, <2>4, RestartFresh, RestartFields
  <2>6. NodesFresh' /\ SyncsFresh' /\ LinksFresh'
    BY <1>1, <1>4, <1>5, <2>1, <2>5, LinksFreshOn
  <2>. QED  BY <2>6 DEF NetworkFresh
<1>8. CASE LoseGossip(m, n)
  <2>1. node' = node /\ link' = Taken(m, n)
    BY <1>8 DEF LoseGossip
  <2>2. NodesFresh' /\ SyncsFresh'
    BY <1>1, <1>3, <2>1 DEF NodesFresh, SyncsFresh, SyncFresh
  <2>3. LinksFresh'
    BY <1>1, <1>4, <2>1, LinksFreshOn
  <2>. QED  BY <2>2, <2>3 DEF NetworkFresh
<1>. QED  BY <1>6, <1>7, <1>8

(* The miner is never told of more work than it has, so it asks for nothing.*)
LEMMA SyncStaysFresh ==
    ASSUME OneMiner, IInv, NetworkMines, NetworkFresh, NEW n \in Node,
           \/ \E m \in Node \ {n} : RequestChainSync(n, m)
           \/ AnswerTip(n) \/ HandleTip(n) \/ AnswerBlocks(n) \/ SyncLost(n)
    PROVE  NetworkFresh'
<1>1. /\ NodesOK /\ KnownAreOwned /\ NodesMine /\ DOMAIN sync = Node /\ SyncOK(sync[n])
      /\ NodesFresh /\ LinksFresh /\ SyncsFresh /\ SyncFresh(n, sync[n])
  BY DEF IInv, NetworkMines, NetworkFresh, SyncsOK, SyncsFresh
<1>2. UNCHANGED <<node, link>>
  BY DEF RequestChainSync, AnswerTip, HandleTip, AnswerBlocks, SyncLost
<1>3. ASSUME NEW y, sync' = [sync EXCEPT ![n] = y], SyncFresh(n, y)
      PROVE  NetworkFresh'
  <2>1. NodesFresh' /\ LinksFresh'
    BY <1>1, <1>2, LinksFreshOn DEF NodesFresh
  <2>2. \A k \in Node : SyncFresh(k, sync'[k])
    <3>1. \A k \in Node : sync'[k] = IF k = n THEN y ELSE sync[k]
      BY <1>1, <1>3
    <3>. QED  BY <1>1, <1>3, <3>1 DEF SyncsFresh
  <2>3. SyncsFresh'
    BY <1>2, <2>2 DEF SyncsFresh, SyncFresh
  <2>. QED  BY <2>1, <2>3 DEF NetworkFresh
<1>4. ASSUME NEW y, y.phase = "tip asked" \/ y.phase = "completed" \/ y.phase = "failed"
      PROVE  SyncFresh(n, y)
  BY <1>4 DEF SyncFresh
<1>5. CASE \E m \in Node \ {n} : RequestChainSync(n, m)
  <2>1. PICK m : RequestChainSync(n, m)
    BY <1>5
  <2>2. PICK y : y = [phase |-> "tip asked", peer |-> m]
    OBVIOUS
  <2>3. sync' = [sync EXCEPT ![n] = y] /\ y.phase = "tip asked"
    BY <2>1, <2>2 DEF RequestChainSync
  <2>. QED  BY <1>3, <1>4, <2>3
<1>6. CASE SyncLost(n)
  <2>1. PICK y : y = [phase |-> "failed"]
    OBVIOUS
  <2>2. sync' = [sync EXCEPT ![n] = y] /\ y.phase = "failed"
    BY <1>6, <2>1 DEF SyncLost
  <2>. QED  BY <1>3, <1>4, <2>2
<1>7. CASE AnswerTip(n)
  <2>1. PICK p, c, e : p = sync[n].peer /\ c = node[p].chain /\ e = node[n].chain
    OBVIOUS
  <2>2. PICK y : y = [phase |-> "tip told", peer |-> p,
                      height |-> TipHeight(c), work |-> TipWork(c)]
    OBVIOUS
  <2>3. sync' = [sync EXCEPT ![n] = y]
    BY <1>7, <2>1, <2>2 DEF AnswerTip
  <2>4. n \in Miners => TipWork(c) \in Nat /\ TipWork(c) <= TipWork(e)
    <3> SUFFICES ASSUME n \in Miners PROVE TipWork(c) \in Nat /\ TipWork(c) <= TipWork(e)
      OBVIOUS
    <3>1. p \in Node
      BY <1>1, <1>7, <2>1 DEF AnswerTip, SyncOK
    <3>2. ChainMined(c) /\ ChainMined(e) /\ c.tip_hash \in Known(c)
      BY <1>1, <2>1, <3>1, MinedParts DEF NodesMine, NodeMines
    <3>3. Owned(c.tip_hash) /\ FromMiner(c.tip_hash)
      BY <1>1, <2>1, <3>1, <3>2 DEF KnownAreOwned, NodesFresh, NodeFresh, Counted
    <3>4. c.tip_hash \in Known(e)
      BY <2>1, <3>3, MinerKnows
    <3>. QED  BY <3>2, <3>4, WorkOfTips
  <2>5. y.phase = "tip told" /\ y.work = TipWork(c)
    BY <2>2
  <2>6. SyncFresh(n, y)
    BY <2>1, <2>4, <2>5 DEF SyncFresh
  <2>. QED  BY <1>3, <2>3, <2>6
<1>8. CASE HandleTip(n)
  <2>1. PICK c, x, y : /\ c = node[n].chain /\ x = [phase |-> "completed"]
                       /\ y = [phase |-> "blocks asked", peer |-> sync[n].peer,
                               from |-> FromHeight(c), count |-> BatchSize(c, sync[n].height)]
    OBVIOUS
  <2>2. CASE sync[n].work <= TipWork(c)
    <3>1. sync' = [sync EXCEPT ![n] = x] /\ x.phase = "completed"
      BY <1>8, <2>1, <2>2 DEF HandleTip
    <3>. QED  BY <1>3, <1>4, <3>1
  <2>3. CASE ~ (sync[n].work <= TipWork(c))
    <3>1. sync' = [sync EXCEPT ![n] = y] /\ y.phase = "blocks asked"
      BY <1>8, <2>1, <2>3 DEF HandleTip
    <3>2. n \notin Miners
      BY <1>1, <1>8, <2>1, <2>3 DEF HandleTip, SyncFresh
    <3>3. SyncFresh(n, y)
      BY <3>1, <3>2 DEF SyncFresh
    <3>. QED  BY <1>3, <3>1, <3>3
  <2>. QED  BY <2>2, <2>3
<1>9. CASE AnswerBlocks(n)
  <2> DEFINE p == sync[n].peer
             c == node[p].chain
             from == sync[n].from
             count == sync[n].count
             f == [i \in 1..count |-> c.canonical_index[from + i - 1]]
             x == [phase |-> "failed"]
             y == [phase |-> "blocks told", peer |-> p, blocks |-> f]
  <2>1. p \in Node /\ from \in Nat /\ count \in Nat /\ n \notin Miners
    BY <1>1, <1>9 DEF AnswerBlocks, SyncOK, SyncFresh
  <2>2. Len(f) = count
    <3>1. f = [i \in 1..count |-> f[i]]
      OBVIOUS
    <3> HIDE DEF f, count
    <3>. QED  BY <2>1, <3>1, FunctionLen
  <2>3. \A b \in c.blocks : FromMiner(b)
    BY <1>1, <2>1 DEF NodesOK, NodeOK, ChainOK, NodesFresh, NodeFresh, Counted
  <2>4. ASSUME \A h \in from..(from + count - 1) : CanServe(c, h)
        PROVE  \A i \in 1..count : FromMiner(f[i])
    <3> SUFFICES ASSUME NEW i \in 1..count PROVE FromMiner(f[i])
      OBVIOUS
    <3>1. from + i - 1 \in from..(from + count - 1)
      BY <2>1
    <3>2. f[i] = c.canonical_index[from + i - 1]
      OBVIOUS
    <3>3. f[i] \in c.blocks
      BY <2>4, <3>1, <3>2 DEF CanServe
    <3> HIDE DEF f
    <3>. QED  BY <2>3, <3>3
  <2>5. \/ sync' = [sync EXCEPT ![n] = x]
        \/ /\ \A h \in from..(from + count - 1) : CanServe(c, h)
           /\ sync' = [sync EXCEPT ![n] = y]
    BY <1>9 DEF AnswerBlocks
  <2>6. x.phase = "failed" /\ y.phase = "blocks told" /\ y.blocks = f
    OBVIOUS
  <2> HIDE DEF x, y, c, from, count, f
  <2>7. SyncFresh(n, x)
    BY <1>4, <2>6
  <2>8. (\A h \in from..(from + count - 1) : CanServe(c, h)) => SyncFresh(n, y)
    BY <2>1, <2>2, <2>4, <2>6 DEF SyncFresh
  <2>. QED  BY <1>3, <2>5, <2>7, <2>8
<1>. QED  BY <1>5, <1>6, <1>7, <1>8, <1>9

(* Only nodes that do not mine are told blocks.                             *)
LEMMA BlocksFresh ==
    ASSUME IInv, NetworkMines, NetworkMines', NetworkFresh, Pool(submitted'),
           submitted \subseteq submitted', NEW n \in Node, HandleBlocks(n)
    PROVE  NetworkFresh'
<1>1. /\ NodesOK /\ NodesMine /\ SyncsMine /\ DOMAIN sync = Node /\ SyncOK(sync[n])
      /\ NodesFresh /\ LinksFresh /\ SyncsFresh /\ SyncFresh(n, sync[n])
      /\ sync[n].phase = "blocks told"
  BY DEF IInv, NetworkMines, NetworkFresh, SyncsOK, SyncsFresh, HandleBlocks
<1>2. PICK s, blocks, r : s = node[n] /\ blocks = sync[n].blocks
                          /\ r = BatchApplied(n, s, blocks)
  OBVIOUS
<1>3. /\ NodeMines(s, submitted) /\ NodeOK(n, s) /\ Counted(n, s) /\ n \notin Miners
      /\ \A i \in 1..Len(blocks) : FromMiner(blocks[i])
  BY <1>1, <1>2 DEF NodesMine, NodesOK, NodesFresh, NodeFresh, SyncFresh
<1>4. Told(blocks) /\ IsBatch(blocks)
  <2>1. Told(blocks)
    BY <1>1, <1>2 DEF SyncsMine
  <2>2. IsBatch(blocks)
    BY <1>1, <1>2 DEF SyncOK, Owned, IsBatch
  <2>. QED  BY <2>1, <2>2
<1>5. NodeMines(r.s, submitted) /\ r.s.active = s.active /\ r.s.attempts = s.attempts
  BY <1>2, <1>3, <1>4, BatchAtWork
<1>6. GrownBy(s.chain, r.s.chain, blocks)
  BY <1>2, <1>3, <1>4, BatchFields
<1>7. s.active = 0 /\ s.attempts = {}
  BY <1>3 DEF Counted
<1>8. node' = [node EXCEPT ![n] = r.s] /\ link' = link
  <2>1. RestartIfActive(n, r.s) = r.s
    BY <1>5, <1>7 DEF RestartIfActive
  <2>2. node' \in {[node EXCEPT ![n] = r.s], [node EXCEPT ![n] = RestartIfActive(n, r.s)]}
        /\ link' = link
    BY <1>2 DEF HandleBlocks
  <2>. QED  BY <2>1, <2>2
<1>9. NodeFresh(n, r.s)
  <2>1. \A b \in Known(r.s.chain) : FromMiner(b)
    BY <1>3, <1>6 DEF GrownBy, Counted
  <2>2. r.s.started \in Nat /\ r.s.active = 0 /\ r.s.attempts = {}
    BY <1>5, <1>7 DEF NodeMines
  <2>. QED  BY <2>1, <2>2 DEF NodeFresh, Counted, Fresh
<1>10. NodesFresh' /\ LinksFresh'
  BY <1>1, <1>8, <1>9, NodesFreshStep, LinksFreshOn
<1>11. SyncsFresh'
  <2> DEFINE x == [phase |-> "completed"]
             z == [phase |-> "failed"]
  <2>1. sync' = [sync EXCEPT ![n] = x] \/ sync' = [sync EXCEPT ![n] = z]
    BY <1>2 DEF HandleBlocks
  <2>2. x.phase = "completed" /\ z.phase = "failed"
    OBVIOUS
  <2> HIDE DEF x, z
  <2>3. \A k \in Node : k # n => sync'[k] = sync[k] /\ node'[k] = node[k]
    BY <1>1, <1>8, <2>1 DEF NodesOK
  <2>4. sync'[n].phase \in {"completed", "failed"}
    BY <1>1, <2>1, <2>2
  <2>5. \A k \in Node : SyncFresh(k, sync[k])'
    <3> SUFFICES ASSUME NEW k \in Node PROVE SyncFresh(k, sync[k])'
      OBVIOUS
    <3>1. CASE k = n
      BY <2>4, <3>1 DEF SyncFresh
    <3>2. CASE k # n
      BY <1>1, <2>3, <3>2 DEF SyncsFresh, SyncFresh
    <3>. QED  BY <3>1, <3>2
  <2>. QED  BY <2>5 DEF SyncsFresh
<1>. QED  BY <1>10, <1>11 DEF NetworkFresh

FreshInv == MinerInv /\ (IdsDiffer(submitted) => NetworkFresh)

LEMMA FreshStep ==
    ASSUME RetargetStays, OneMiner, FreshInv, [Next]_vars
    PROVE  FreshInv'
<1>1. /\ IInv /\ MinerInv' /\ ClaimsOK' /\ submitted \subseteq submitted'
  BY MinerStep, ClaimsStep DEF FreshInv, MinerInv
<1> SUFFICES ASSUME IdsDiffer(submitted') PROVE NetworkFresh'
  BY <1>1 DEF FreshInv
<1>2. NetworkMines /\ NetworkMines' /\ NetworkFresh /\ Pool(submitted')
  BY <1>1 DEF FreshInv, MinerInv, IdsDiffer, Pool, ClaimsOK
<1>3. CASE UNCHANGED vars
  <2>1. node' = node /\ link' = link /\ sync' = sync
    BY <1>3 DEF vars
  <2>2. NodesFresh' /\ SyncsFresh'
    BY <1>2, <2>1 DEF NetworkFresh, NodesFresh, SyncsFresh, SyncFresh
  <2>3. LinksFresh'
    BY <1>2, <2>1, LinksFreshOn DEF NetworkFresh
  <2>. QED  BY <2>2, <2>3 DEF NetworkFresh
<1>4. CASE \E n \in Claimants, name \in Name : SubmitUsernameClaim(n, name)
  BY <1>1, <1>2, <1>4, CommandsFresh, NodeAssumption
<1>5. CASE \E n \in Miners : StartMining(n) \/ StopMining(n)
  BY <1>1, <1>2, <1>5, CommandsFresh, NodeAssumption
<1>6. ASSUME NEW n \in Node, FindBlock(n) \/ Deliver(n) \/ Sync(n) \/ SyncLost(n)
      PROVE  NetworkFresh'
  <2>1. CASE FindBlock(n)
    BY <1>1, <1>2, <2>1, MiningFresh DEF FindBlock
  <2>2. CASE Deliver(n)
    BY <1>1, <1>2, <2>2, GossipFresh DEF Deliver
  <2>3. CASE AnswerTip(n) \/ HandleTip(n) \/ AnswerBlocks(n) \/ SyncLost(n)
    BY <1>1, <1>2, <2>3, SyncStaysFresh
  <2>4. CASE HandleBlocks(n)
    BY <1>1, <1>2, <2>4, BlocksFresh
  <2>. QED  BY <1>6, <2>1, <2>2, <2>3, <2>4 DEF Sync
<1>7. CASE \E m, n \in Node : LoseGossip(m, n)
  BY <1>1, <1>2, <1>7, GossipFresh
<1>8. CASE \E n \in Syncers : \E m \in Node \ {n} : RequestChainSync(n, m)
  BY <1>1, <1>2, <1>8, SyncStaysFresh, NodeAssumption
<1>. QED  BY <1>3, <1>4, <1>5, <1>6, <1>7, <1>8 DEF Next

(* With one miner, whatever claims are submitted anywhere, its attempt has  *)
(* every claim of others that a fresh one would (node.rs:266-270, 703-707,  *)
(* 1541-1543).                                                              *)
THEOREM OneMinerIsFresh ==
    ASSUME RetargetStays, OneMiner
    PROVE  Spec => [](IdsDiffer(submitted) => CandidateIsFresh)
<1>1. Init => MinerInv
  BY MinerStart
<1>2. Init => FreshInv
  <2> SUFFICES ASSUME Init PROVE NetworkFresh
    BY <1>1 DEF FreshInv
  <2>1. \A n \in Node : node[n] = NewNode /\ sync[n].phase = "idle"
    BY DEF Init
  <2>2. Known(NewChain) = {Genesis}
    BY NewChainIsSound
  <2>3. /\ NewNode.chain = NewChain /\ NewNode.active = 0
        /\ NewNode.started = 0 /\ NewNode.attempts = {}
    <3> HIDE DEF NewChain
    <3>. QED  BY DEF NewNode
  <2>4. \A n \in Node : NodeFresh(n, NewNode)
    BY <2>2, <2>3 DEF NodeFresh, Counted, Fresh, FromMiner
  <2>5. NodesFresh /\ SyncsFresh
    BY <2>1, <2>4 DEF NodesFresh, SyncsFresh, SyncFresh
  <2>6. LinksFresh
    <3>1. \A m, n \in Node : Items(link[m][n]) = {}
      BY ShortSeqs DEF Init
    <3>2. Carried(link) = {}
      <4>1. \A U \in {Items(link[m][n]) : m, n \in Node} : U = {}
        BY <3>1
      <4>. QED  BY <4>1 DEF Carried
    <3>. QED  BY <3>2 DEF LinksFresh
  <2>. QED  BY <2>5, <2>6 DEF NetworkFresh
<1>3. FreshInv /\ [Next]_vars => FreshInv'
  BY FreshStep
<1>4. FreshInv => (IdsDiffer(submitted) => CandidateIsFresh)
  BY DEF FreshInv, NetworkFresh, NodesFresh, NodeFresh, Fresh, CandidateIsFresh
<1>. QED  BY <1>2, <1>3, <1>4, PTL DEF Spec
===============================================================================
