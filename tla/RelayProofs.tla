----------------------------- MODULE RelayProofs -----------------------------
(* Proofs about a relay.  MixNetwork: relays are connected peers, no hop    *)
(* hands a packet to itself, the hop that sees a tag does not hear from its *)
(* user, and packets for one tag built from one set of relays meet at one   *)
(* relay, for every number of nodes, connections, packets and epochs.       *)
(* Mailbox: what a relay keeps stays within its budget, the oldest going    *)
(* first, for every traffic.                                                *)
EXTENDS MixNetwork, Mailbox, DataFacts

(* The relay directory, as libp2p's connections and the two handlers leave  *)
(* it.                                                                      *)
Directory ==
    /\ links \in [Pairs -> Nat]
    /\ relays \in [Node -> SUBSET Node]
    /\ RelaysAreConnected

Kinds == {"deposit", "query", "reply", "dummy"}
PacketType ==
    [id: Nat, origin: Node, kind: Kinds, tag: Tag, view: SUBSET Node,
     from: Node, to: Node, rest: Seq(Node), surb: Seq(Node), what: Nat]
StoredDeposit == [tag: Tag, by: Node, view: SUBSET Node, what: Nat]
Miss == [at: Node, tag: Tag, view: SUBSET Node, by: Node]

Types ==
    /\ epoch \in Tag /\ covering \subseteq Node
    /\ spent.packets \in Nat
    /\ DOMAIN spent = {"packets", "opened", "upsets"}
    /\ keys \in [Node -> SUBSET Node]
    /\ stamping \subseteq [from: Node, tag: Tag]
    /\ wire \subseteq PacketType /\ held \subseteq PacketType
    /\ store \in [Node -> SUBSET StoredDeposit]
    /\ misses \subseteq Miss

Carries(p) == p.kind \in {"deposit", "query"}
Relay(p) == ClosestToTag(p.tag, p.view)
LastHop(p) == IF p.rest = <<>> THEN p.to ELSE p.rest[Len(p.rest)]

(* What builds a deposit or a query, and what peeling leaves of it.         *)
GoesToRelay(p) ==
    Carries(p) =>
      /\ p.origin \notin p.view /\ p.to \in p.view /\ p.rest \in Seq(p.view)
      /\ LastHop(p) = Relay(p)
      /\ p.rest = <<>> /\ p.from = p.origin => Cardinality(p.view) = 1

(* The reply block a query brings avoids the relay that will use it.        *)
BlockAvoidsRelay(p) ==
    p.kind = "query" =>
      /\ p.surb \in Seq(Node \ {Relay(p)}) /\ p.surb # <<>>
      /\ ~Repeats(p.surb)
      /\ p.surb[1] = p.origin => Cardinality(p.view) = 1

(* So does the reply made of it.                                            *)
ReplyLeavesRelay(p) ==
    p.kind = "reply" =>
      /\ p.to # Relay(p) /\ p.rest \in Seq(Node \ {Relay(p)})
      /\ p.from = Relay(p) /\ p.to = p.origin => Cardinality(p.view) = 1

Straight(p) == ~Repeats(<<p.from, p.to>> \o p.rest)

Routed(p) ==
    /\ Straight(p) /\ GoesToRelay(p) /\ BlockAvoidsRelay(p)
    /\ ReplyLeavesRelay(p)

(* What relays keep, and what queries missed, is where the tag leads.       *)
KeptAtRelay ==
    /\ \A n \in Node : \A d \in store[n] : n = ClosestToTag(d.tag, d.view)
    /\ \A m \in misses : m.at = ClosestToTag(m.tag, m.view)

Packets ==
    /\ \A p \in wire \cup held : Routed(p)
    /\ \A p \in held : p.rest # <<>>

MInv == Directory /\ Types /\ Packets /\ KeptAtRelay

-----------------------------------------------------------------------------
(* Sequences of hops.                                                       *)

(* A path with two more hops in front.                                      *)
LEMMA TwoMoreHops ==
    ASSUME NEW T, NEW r \in Seq(T), NEW a \in T, NEW b \in T
    PROVE  ~Repeats(<<a, b>> \o r) <=>
             a # b /\ (r # <<>> => b # r[1]) /\ ~Repeats(r)
<1>. DEFINE h == <<a, b>> \o r
<1>1. /\ h \in Seq(T) /\ Len(h) = Len(r) + 2 /\ h[1] = a /\ h[2] = b
      /\ \A i \in 1..Len(r) : h[i + 2] = r[i]
      /\ Len(r) \in Nat
  OBVIOUS
<1>. HIDE DEF h
<1>2. ~Repeats(h) <=> \A i \in 1..(Len(r) + 1) : h[i] # h[i + 1]
  BY <1>1 DEF Repeats
<1>3. ASSUME \A i \in 1..(Len(r) + 1) : h[i] # h[i + 1]
      PROVE  a # b /\ (r # <<>> => b # r[1]) /\ ~Repeats(r)
  <2>1. a # b
    BY <1>1, <1>3
  <2>2. r # <<>> => b # r[1]
    BY <1>1, <1>3
  <2>3. ~Repeats(r)
    <3>. SUFFICES ASSUME NEW i \in 1..(Len(r) - 1)
                  PROVE  r[i] # r[i + 1]
      BY DEF Repeats
    <3>1. h[i + 2] # h[i + 3]
      BY <1>1, <1>3
    <3>. QED  BY <1>1, <3>1
  <2>. QED  BY <2>1, <2>2, <2>3
<1>4. ASSUME a # b, r # <<>> => b # r[1], ~Repeats(r),
             NEW i \in 1..(Len(r) + 1)
      PROVE  h[i] # h[i + 1]
  <2>1. CASE i = 1
    BY <2>1, <1>1, <1>4
  <2>2. CASE i = 2
    BY <2>2, <1>1, <1>4
  <2>3. CASE i > 2
    <3>1. /\ i - 2 \in 1..(Len(r) - 1) /\ i - 2 \in 1..Len(r) /\ i - 1 \in 1..Len(r)
          /\ (i - 2) + 2 = i /\ (i - 1) + 2 = i + 1 /\ (i - 2) + 1 = i - 1
      BY <1>1, <2>3
    <3>2. h[i] = r[i - 2] /\ h[i + 1] = r[i - 1]
      BY <1>1, <3>1
    <3>3. r[i - 2] # r[i - 1]
      BY <1>4, <3>1 DEF Repeats
    <3>. QED  BY <3>2, <3>3
  <2>. QED  BY <1>1, <2>1, <2>2, <2>3
<1>. QED
  BY <1>2, <1>3, <1>4 DEF h

(* A path with one more hop in front.                                       *)
LEMMA OneMoreHop ==
    ASSUME NEW T, NEW r \in Seq(T), NEW a \in T, ~Repeats(r),
           r # <<>> => a # r[1]
    PROVE  ~Repeats(<<a>> \o r)
<1>. DEFINE h == <<a>> \o r
<1>1. /\ Len(h) = Len(r) + 1 /\ h[1] = a /\ Len(r) \in Nat
      /\ \A i \in 1..Len(r) : h[i + 1] = r[i]
  OBVIOUS
<1>. HIDE DEF h
<1>. SUFFICES ASSUME NEW i \in 1..(Len(h) - 1)
              PROVE  h[i] # h[i + 1]
  BY DEF Repeats, h
<1>2. CASE i = 1
  BY <1>1, <1>2
<1>3. CASE i > 1
  <2>1. i - 1 \in 1..(Len(r) - 1) /\ h[i] = r[i - 1] /\ h[i + 1] = r[i]
    BY <1>1, <1>3
  <2>. QED  BY <2>1, <1>1 DEF Repeats
<1>. QED
  BY <1>1, <1>2, <1>3

(* The hops after the first.                                                *)
LEMMA HopsAfterFirst ==
    ASSUME NEW T, NEW r \in Seq(T), r # <<>>
    PROVE  /\ Tail(r) \in Seq(T) /\ Head(r) \in T /\ Head(r) = r[1]
           /\ Tail(r) # <<>> => Tail(r)[1] = r[2] /\ Len(r) > 1
           /\ ~Repeats(r) => ~Repeats(Tail(r))
           /\ ~Repeats(r) /\ Tail(r) # <<>> => Head(r) # Tail(r)[1]
           /\ r[Len(r)] = IF Tail(r) = <<>> THEN Head(r)
                          ELSE Tail(r)[Len(Tail(r))]
           /\ Tail(r) = <<>> => Len(r) = 1
<1>1. /\ Tail(r) \in Seq(T) /\ Head(r) = r[1] /\ Head(r) \in T
      /\ Len(r) \in Nat /\ Len(r) > 0
      /\ Len(Tail(r)) = Len(r) - 1
      /\ \A i \in 1..(Len(r) - 1) : Tail(r)[i] = r[i + 1]
  OBVIOUS
<1>2. Tail(r) = <<>> <=> Len(r) = 1
  <2>1. \A s \in Seq(T) : s = <<>> <=> Len(s) = 0
    OBVIOUS
  <2>2. Tail(r) = <<>> <=> Len(Tail(r)) = 0
    BY <1>1, <2>1, Zenon
  <2>. QED  BY <1>1, <2>2
<1>3. ASSUME ~Repeats(r)
      PROVE  ~Repeats(Tail(r))
  BY <1>1, <1>3 DEF Repeats
<1>4. ASSUME ~Repeats(r), Tail(r) # <<>>
      PROVE  Head(r) # Tail(r)[1]
  BY <1>1, <1>2, <1>4 DEF Repeats
<1>5. r[Len(r)] = IF Tail(r) = <<>> THEN Head(r) ELSE Tail(r)[Len(Tail(r))]
  BY <1>1, <1>2
<1>. QED
  BY <1>1, <1>2, <1>3, <1>4, <1>5

(* A hop at the end.                                                        *)
LEMMA HopAtEnd ==
    ASSUME NEW T, NEW q \in Seq(T), NEW f \in T,
           \A i \in 1..Len(q) : q[i] # f,
           \A i, j \in 1..Len(q) : i # j => q[i] # q[j]
    PROVE  LET h == Append(q, f) IN
           /\ h \in Seq(T) /\ h # <<>> /\ Len(h) = Len(q) + 1 /\ h[Len(h)] = f
           /\ ~Repeats(h)
           /\ h[1] = IF q = <<>> THEN f ELSE q[1]
<1>. DEFINE h == Append(q, f)
<1>1. /\ h \in Seq(T) /\ Len(h) = Len(q) + 1 /\ h[Len(q) + 1] = f
      /\ \A i \in 1..Len(q) : h[i] = q[i]
      /\ Len(q) \in Nat
  OBVIOUS
<1>. HIDE DEF h
<1>2. h # <<>> /\ h[Len(h)] = f
  BY <1>1
<1>3. ~Repeats(h)
  <2>. SUFFICES ASSUME NEW i \in 1..(Len(h) - 1)
                PROVE  h[i] # h[i + 1]
    BY DEF Repeats
  <2>1. CASE i = Len(q)
    BY <1>1, <2>1
  <2>2. CASE i < Len(q)
    BY <1>1, <2>2
  <2>. QED  BY <1>1, <2>1, <2>2
<1>4. h[1] = IF q = <<>> THEN f ELSE q[1]
  BY <1>1
<1>. QED
  BY <1>1, <1>2, <1>3, <1>4 DEF h

-----------------------------------------------------------------------------
(* Paths.                                                                   *)

(* A set of numbers has a least one.                                        *)
LEMMA LeastOf ==
    ASSUME NEW S \in SUBSET Nat, S # {}
    PROVE  \E n \in S : \A m \in S : n <= m
<1>1. PICK n \in S : \A m \in S : <<m, n>> \notin OpToRel(<, Nat)
  BY WFMin, NatLessThanWellFounded, Zenon
<1>2. \A m \in S : ~(m < n)
  BY <1>1, Zenon DEF OpToRel
<1>. QED
  BY <1>2

(* closest_relay_to_tag finds one of the relays.                            *)
LEMMA ClosestIsThere ==
    ASSUME MixAssumption, NEW t \in Tag, NEW S \in SUBSET Node, S # {}
    PROVE  ClosestToTag(t, S) \in S
<1>. DEFINE D == {Distance(t, n) : n \in S}
<1>1. \A n \in S : Distance(t, n) \in Nat
  BY DEF MixAssumption
<1>2. D \in SUBSET Nat /\ D # {}
  BY <1>1
<1>3. PICK d \in D : \A e \in D : d <= e
  BY <1>2, LeastOf
<1>4. \E n \in S : \A m \in S : Distance(t, n) <= Distance(t, m)
  BY <1>3
<1>. QED
  BY <1>4 DEF ClosestToTag

(* What choose_multiple returns.                                            *)
LEMMA ChoicesAre ==
    ASSUME NEW S, IsFiniteSet(S), NEW k \in Nat, NEW q \in RelayPicks(S, k)
    PROVE  /\ q \in Seq(S)
           /\ \A i, j \in 1..Len(q) : i # j => q[i] # q[j]
           /\ q = <<>> => k = 0 \/ S = {}
<1>1. Cardinality(S) \in Nat
  BY FS_CardinalityType
<1>2. Least(k, Cardinality(S)) \in Nat
  BY <1>1 DEF Least
<1>3. /\ q \in [1..Least(k, Cardinality(S)) -> S]
      /\ \A i, j \in DOMAIN q : i # j => q[i] # q[j]
  BY DEF RelayPicks
<1>4. q \in Seq(S) /\ Len(q) = Least(k, Cardinality(S)) /\ DOMAIN q = 1..Len(q)
  BY <1>2, <1>3
<1>5. Cardinality(S) = 0 => S = {}
  BY FS_EmptySet
<1>6. q = <<>> => k = 0 \/ S = {}
  BY <1>1, <1>4, <1>5 DEF Least
<1>. QED
  BY <1>3, <1>4, <1>6

(* A set all but one of whose members are gone.                             *)
LEMMA OnlyMember ==
    ASSUME NEW S, IsFiniteSet(S), NEW r \in S, S \ {r} = {}
    PROVE  Cardinality(S) = 1
<1>1. S = {r}
  OBVIOUS
<1>. QED
  BY <1>1, FS_Singleton

(* The paths of build_mix_path_to_tag.                                      *)
LEMMA PathsAre ==
    ASSUME MixAssumption, NEW t \in Tag, NEW S \in SUBSET Node, S # {},
           NEW path \in PathsToTag(t, S)
    PROVE  /\ path \in Seq(S) /\ path # <<>>
           /\ path[Len(path)] = ClosestToTag(t, S)
           /\ ~Repeats(path)
           /\ Len(path) = 1 => Cardinality(S) = 1
<1>. DEFINE final == ClosestToTag(t, S)
            R == S \ {final}
<1>1. final \in S /\ MixPathHops - 1 \in Nat /\ MixPathHops - 1 # 0
  BY ClosestIsThere DEF MixAssumption
<1>2. IsFiniteSet(S) /\ IsFiniteSet(R)
  BY FS_Subset DEF MixAssumption
<1>3. PICK q \in RelayPicks(R, MixPathHops - 1) : path = Append(q, final)
  BY DEF PathsToTag
<1>. HIDE DEF final, R
<1>4. /\ q \in Seq(R)
      /\ \A i, j \in 1..Len(q) : i # j => q[i] # q[j]
      /\ q = <<>> => R = {}
  BY <1>1, <1>2, <1>3, ChoicesAre
<1>5. q \in Seq(S) /\ \A i \in 1..Len(q) : q[i] # final
  BY <1>4 DEF R
<1>6. /\ path \in Seq(S) /\ path # <<>> /\ path[Len(path)] = final
      /\ Len(path) = Len(q) + 1 /\ ~Repeats(path)
  BY <1>1, <1>3, <1>4, <1>5, HopAtEnd
<1>7. Len(path) = 1 => q = <<>>
  BY <1>5, <1>6
<1>8. R = {} => Cardinality(S) = 1
  BY <1>1, <1>2, OnlyMember DEF R
<1>. QED
  BY <1>4, <1>6, <1>7, <1>8 DEF final

(* The ways back of send_mailbox_retrieval_query.                           *)
LEMMA WaysBackAre ==
    ASSUME MixAssumption, NEW n \in Node, NEW S \in SUBSET Node, n \notin S,
           NEW r \in S, NEW back \in ReturnPaths(n, S, r)
    PROVE  /\ back \in Seq(Node \ {r}) /\ back # <<>> /\ ~Repeats(back)
           /\ back[1] = n => Cardinality(S) = 1
<1>. DEFINE R == S \ {r}
            T == Node \ {r}
<1>1. MixPathHops - 1 \in Nat /\ MixPathHops - 1 # 0
  BY DEF MixAssumption
<1>2. IsFiniteSet(S) /\ IsFiniteSet(R)
  BY FS_Subset DEF MixAssumption
<1>3. PICK q \in RelayPicks(R, MixPathHops - 1) : back = Append(q, n)
  BY DEF ReturnPaths
<1>4. R \subseteq T /\ n \notin R /\ n \in T
  OBVIOUS
<1>5. R = {} => Cardinality(S) = 1
  BY <1>2, OnlyMember
<1>. HIDE DEF R, T
<1>6. /\ q \in Seq(R)
      /\ \A i, j \in 1..Len(q) : i # j => q[i] # q[j]
      /\ q = <<>> => R = {}
  BY <1>1, <1>2, <1>3, ChoicesAre
<1>7. q \in Seq(T) /\ \A i \in 1..Len(q) : q[i] # n
  BY <1>4, <1>6
<1>8. /\ back \in Seq(T) /\ back # <<>> /\ ~Repeats(back)
      /\ back[1] = IF q = <<>> THEN n ELSE q[1]
  BY <1>3, <1>4, <1>6, <1>7, HopAtEnd
<1>9. q # <<>> => q[1] # n
  BY <1>7
<1>. QED
  BY <1>5, <1>6, <1>8, <1>9 DEF T

-----------------------------------------------------------------------------
(* Packets.                                                                 *)

(* A node is no relay of its own.                                           *)
LEMMA UsableAre ==
    ASSUME MixAssumption, Directory, NEW n \in Node
    PROVE  Usable(n) \in SUBSET Node /\ n \notin Usable(n)
<1>1. relays[n] \subseteq Node
  BY DEF Directory
<1>2. n \notin relays[n]
  <2>. SUFFICES ASSUME n \in relays[n]
                PROVE  FALSE
    OBVIOUS
  <2>1. {n, n} \in Pairs
    BY DEF Directory, RelaysAreConnected, Linked
  <2>2. {n} \notin Pairs
    BY DEF MixAssumption
  <2>3. {n, n} = {n}
    OBVIOUS
  <2>. QED  BY <2>1, <2>2, <2>3
<1>. QED
  BY <1>1, <1>2 DEF Usable

(* A deposit or a query starts on a path to the relay of its tag.           *)
LEMMA StartsToRelay ==
    ASSUME MixAssumption, NEW p \in PacketType, NEW path, Carries(p),
           p.view # {}, path \in PathsToTag(p.tag, p.view),
           p.from = p.origin, p.origin \notin p.view,
           p.to = Head(path), p.rest = Tail(path)
    PROVE  Straight(p) /\ GoesToRelay(p)
<1>1. /\ p.tag \in Tag /\ p.view \in SUBSET Node /\ p.origin \in Node
      /\ p.from \in Node /\ p.to \in Node /\ p.rest \in Seq(Node)
  BY DEF PacketType
<1>2. /\ path \in Seq(p.view) /\ path # <<>> /\ ~Repeats(path)
      /\ path[Len(path)] = Relay(p)
      /\ Len(path) = 1 => Cardinality(p.view) = 1
  BY <1>1, PathsAre DEF Relay
<1>3. /\ p.rest \in Seq(p.view) /\ p.to \in p.view
      /\ ~Repeats(p.rest)
      /\ p.rest # <<>> => p.to # p.rest[1]
      /\ path[Len(path)] = IF p.rest = <<>> THEN p.to ELSE p.rest[Len(p.rest)]
      /\ p.rest = <<>> => Len(path) = 1
  BY <1>2, HopsAfterFirst
<1>4. p.from # p.to
  BY <1>3
<1>5. Straight(p)
  <2>1. p.from \in Node /\ p.to \in Node /\ p.rest \in Seq(Node)
    BY <1>1
  <2>2. /\ p.from # p.to /\ ~Repeats(p.rest)
        /\ p.rest # <<>> => p.to # p.rest[1]
    BY <1>3, <1>4
  <2>. QED  BY <2>1, <2>2, TwoMoreHops DEF Straight
<1>6. LastHop(p) = Relay(p)
  BY <1>2, <1>3 DEF LastHop
<1>. QED
  BY <1>2, <1>3, <1>5, <1>6 DEF GoesToRelay

(* Peeled, a packet is still well routed.                                   *)
LEMMA SentOn ==
    ASSUME NEW p \in PacketType, Routed(p), p.rest # <<>>
    PROVE  NextHopPacket(p) \in PacketType /\ Routed(NextHopPacket(p))
<1>. DEFINE q == NextHopPacket(p)
<1>1. /\ p.origin \in Node /\ p.from \in Node /\ p.to \in Node
      /\ p.rest \in Seq(Node) /\ p.view \in SUBSET Node
  BY DEF PacketType
<1>2. q = [p EXCEPT !.from = p.to, !.to = Head(p.rest),
                      !.rest = Tail(p.rest)]
  BY DEF NextHopPacket, NextHop, PacketType
<1>3. /\ q.from = p.to /\ q.to = Head(p.rest) /\ q.rest = Tail(p.rest)
      /\ q.id = p.id /\ q.origin = p.origin /\ q.kind = p.kind
      /\ q.tag = p.tag /\ q.view = p.view /\ q.surb = p.surb
      /\ q.what = p.what
  BY <1>2 DEF PacketType
<1>4. /\ Tail(p.rest) \in Seq(Node) /\ Head(p.rest) \in Node
      /\ Head(p.rest) = p.rest[1]
      /\ ~Repeats(p.rest) => ~Repeats(Tail(p.rest))
      /\ ~Repeats(p.rest) /\ Tail(p.rest) # <<>> =>
           Head(p.rest) # Tail(p.rest)[1]
      /\ p.rest[Len(p.rest)] = IF Tail(p.rest) = <<>> THEN Head(p.rest)
                               ELSE Tail(p.rest)[Len(Tail(p.rest))]
  BY <1>1, HopsAfterFirst
<1>5. q \in PacketType
  BY <1>1, <1>2, <1>4 DEF PacketType
<1>. HIDE DEF q
<1>6. p.to # p.rest[1] /\ ~Repeats(p.rest)
  BY <1>1, TwoMoreHops DEF Routed, Straight
<1>7. Straight(q)
  <2>1. /\ q.from # q.to /\ ~Repeats(q.rest)
        /\ q.rest # <<>> => q.to # q.rest[1]
    BY <1>3, <1>4, <1>6
  <2>2. q.from \in Node /\ q.to \in Node /\ q.rest \in Seq(Node)
    BY <1>1, <1>3, <1>4
  <2>. QED  BY <2>1, <2>2, TwoMoreHops DEF Straight
<1>8. Relay(q) = Relay(p)
  BY <1>3 DEF Relay
<1>9. GoesToRelay(q)
  <2>. SUFFICES ASSUME Carries(q)
                PROVE  /\ q.origin \notin q.view /\ q.to \in q.view
                       /\ q.rest \in Seq(q.view) /\ LastHop(q) = Relay(q)
                       /\ q.from # q.origin
    BY DEF GoesToRelay
  <2>1. /\ p.origin \notin p.view /\ p.to \in p.view /\ p.rest \in Seq(p.view)
        /\ LastHop(p) = Relay(p)
    BY <1>3 DEF Routed, GoesToRelay, Carries
  <2>2. Tail(p.rest) \in Seq(p.view) /\ Head(p.rest) \in p.view
    BY <2>1, HopsAfterFirst
  <2>3. LastHop(q) = LastHop(p)
    BY <1>3, <1>4 DEF LastHop
  <2>. QED  BY <1>3, <1>8, <2>1, <2>2, <2>3
<1>10. BlockAvoidsRelay(q)
  BY <1>3, <1>8 DEF Routed, BlockAvoidsRelay
<1>11. ReplyLeavesRelay(q)
  <2>. SUFFICES ASSUME q.kind = "reply"
                PROVE  /\ q.to # Relay(q) /\ q.rest \in Seq(Node \ {Relay(q)})
                       /\ q.from # Relay(q)
    BY DEF ReplyLeavesRelay
  <2>1. p.to # Relay(p) /\ p.rest \in Seq(Node \ {Relay(p)})
    BY <1>3 DEF Routed, ReplyLeavesRelay
  <2>2. /\ Tail(p.rest) \in Seq(Node \ {Relay(p)})
        /\ Head(p.rest) \in Node \ {Relay(p)}
    BY <2>1, HopsAfterFirst
  <2>. QED  BY <1>3, <1>8, <2>1, <2>2
<1>. QED
  BY <1>5, <1>7, <1>9, <1>10, <1>11 DEF Routed, q

(* The reply a query's relay makes of its block.                            *)
LEMMA ReplyIsRouted ==
    ASSUME NEW p \in PacketType, Routed(p), p.kind = "query", p.rest = <<>>,
           NEW what \in Nat
    PROVE  UseSurb(p, what) \in PacketType /\ Routed(UseSurb(p, what))
<1>. DEFINE q == UseSurb(p, what)
<1>1. /\ p.origin \in Node /\ p.to \in Node /\ p.surb \in Seq(Node)
  BY DEF PacketType
<1>2. /\ p.to = Relay(p)
  BY DEF Routed, GoesToRelay, Carries, LastHop
<1>3. /\ p.surb \in Seq(Node \ {Relay(p)}) /\ p.surb # <<>>
      /\ ~Repeats(p.surb)
      /\ p.surb[1] = p.origin => Cardinality(p.view) = 1
  BY DEF Routed, BlockAvoidsRelay
<1>4. /\ q.kind = "reply" /\ q.from = p.to /\ q.to = Head(p.surb)
      /\ q.rest = Tail(p.surb) /\ q.origin = p.origin /\ q.view = p.view
      /\ q.tag = p.tag
  BY DEF UseSurb, PacketType
<1>5. /\ Tail(p.surb) \in Seq(Node \ {Relay(p)})
      /\ Head(p.surb) \in Node \ {Relay(p)} /\ Head(p.surb) = p.surb[1]
      /\ ~Repeats(Tail(p.surb))
      /\ Tail(p.surb) # <<>> => Head(p.surb) # Tail(p.surb)[1]
  BY <1>3, HopsAfterFirst
<1>6. Tail(p.surb) \in Seq(Node)
  BY <1>1, <1>3, HopsAfterFirst
<1>7. q \in PacketType
  BY <1>1, <1>5, <1>6 DEF UseSurb, PacketType, Kinds
<1>. HIDE DEF q
<1>8. Straight(q)
  <2>1. /\ q.from # q.to /\ ~Repeats(q.rest)
        /\ q.rest # <<>> => q.to # q.rest[1]
    BY <1>2, <1>4, <1>5
  <2>2. q.from \in Node /\ q.to \in Node /\ q.rest \in Seq(Node)
    BY <1>1, <1>4, <1>5, <1>6
  <2>. QED  BY <2>1, <2>2, TwoMoreHops DEF Straight
<1>9. ReplyLeavesRelay(q)
  BY <1>3, <1>4, <1>5 DEF ReplyLeavesRelay, Relay
<1>10. GoesToRelay(q) /\ BlockAvoidsRelay(q)
  BY <1>4 DEF GoesToRelay, BlockAvoidsRelay, Carries
<1>. QED
  BY <1>7, <1>8, <1>9, <1>10 DEF Routed, q

-----------------------------------------------------------------------------
(* What a step leaves alone.                                                *)

(* The directory, when no connection opens or closes.                       *)
LEMMA DirectoryStays ==
    ASSUME Directory, UNCHANGED <<links, relays>>
    PROVE  Directory'
  BY DEF Directory, RelaysAreConnected, Linked

(* What is kept and missed.                                                 *)
LEMMA KeptStays ==
    ASSUME KeptAtRelay, UNCHANGED <<store, misses>>
    PROVE  KeptAtRelay'
  BY DEF KeptAtRelay

(* Packets on their way, when those added are well routed.                  *)
LEMMA PacketsStay ==
    ASSUME Packets,
           \A p \in wire' \cup held' : p \in wire \cup held \/ Routed(p),
           \A p \in held' : p \in held \/ p.rest # <<>>
    PROVE  Packets'
  BY DEF Packets

-----------------------------------------------------------------------------
(* One action at a time.                                                    *)

(* The nodes start alone.                                                   *)
LEMMA InitMInv ==
    ASSUME Init, MixAssumption
    PROVE  MInv
<1>1. Directory
  BY DEF Init, Directory, RelaysAreConnected
<1>2. Types
  <2>1. epoch \in Tag
    BY DEF Init, Tag, MixAssumption
  <2>2. spent.packets \in Nat /\ DOMAIN spent = {"packets", "opened", "upsets"}
    BY DEF Init
  <2>. QED  BY <2>1, <2>2 DEF Init, Types
<1>3. Packets /\ KeptAtRelay
  BY DEF Init, Packets, KeptAtRelay
<1>. QED
  BY <1>1, <1>2, <1>3 DEF MInv

(* A connection opens.                                                      *)
LEMMA ConnectionEstablishedKeeps ==
    ASSUME MInv, MixAssumption, NEW p \in Pairs, ConnectionEstablished(p)
    PROVE  MInv'
<1>1. /\ links' = [links EXCEPT ![p] = @ + 1]
      /\ relays' = [n \in Node |->
                      IF n \in p THEN relays[n] \cup (p \ {n}) ELSE relays[n]]
      /\ spent' = [spent EXCEPT !.opened = @ + 1]
      /\ UNCHANGED <<keys, covering, epoch, stamping, wire, held, store,
                     misses>>
  BY DEF ConnectionEstablished
<1>2. /\ p \subseteq Node
      /\ \A n, m \in Node : n \in p /\ m \in p /\ n # m => {n, m} = p
  BY DEF MixAssumption
<1>3. links \in [Pairs -> Nat] /\ relays \in [Node -> SUBSET Node]
  BY DEF MInv, Directory
<1>4. links' \in [Pairs -> Nat] /\ relays' \in [Node -> SUBSET Node]
  BY <1>1, <1>2, <1>3
<1>5. \A q \in Pairs : links[q] > 0 \/ q = p => links'[q] > 0
  BY <1>1, <1>3
<1>6. RelaysAreConnected'
  <2>. SUFFICES ASSUME NEW n \in Node, NEW m \in relays'[n]
                PROVE  {n, m} \in Pairs /\ links'[{n, m}] > 0
    BY DEF RelaysAreConnected, Linked
  <2>1. CASE m \in relays[n]
    BY <1>5, <2>1 DEF MInv, Directory, RelaysAreConnected, Linked
  <2>2. CASE m \notin relays[n]
    <3>1. n \in p /\ m \in p /\ m # n /\ m \in Node
      BY <1>1, <1>2, <2>2
    <3>. QED  BY <1>2, <1>5, <3>1
  <2>. QED  BY <2>1, <2>2
<1>7. Directory'
  BY <1>4, <1>6 DEF Directory
<1>8. Types'
  BY <1>1 DEF MInv, Types
<1>9. Packets' /\ KeptAtRelay'
  BY <1>1, PacketsStay, KeptStays DEF MInv
<1>. QED
  BY <1>7, <1>8, <1>9 DEF MInv

(* A connection closes.                                                     *)
LEMMA ConnectionClosedKeeps ==
    ASSUME MInv, MixAssumption, NEW p \in Pairs, ConnectionClosed(p)
    PROVE  MInv'
<1>1. /\ links[p] > 0 /\ links' = [links EXCEPT ![p] = @ - 1]
      /\ relays' = [n \in Node |-> Forgets(n, p)]
      /\ spent' = [spent EXCEPT !.upsets = @ + 1]
      /\ UNCHANGED <<keys, covering, epoch, stamping, wire, held, store,
                     misses>>
  BY DEF ConnectionClosed
<1>2. links \in [Pairs -> Nat] /\ relays \in [Node -> SUBSET Node]
  BY DEF MInv, Directory
<1>3. links' \in [Pairs -> Nat] /\ relays' \in [Node -> SUBSET Node]
  BY <1>1, <1>2 DEF Forgets
<1>4. RelaysAreConnected'
  <2>. SUFFICES ASSUME NEW n \in Node, NEW m \in relays'[n]
                PROVE  {n, m} \in Pairs /\ links'[{n, m}] > 0
    BY DEF RelaysAreConnected, Linked
  <2>1. m \in relays[n] /\ (n \in p => m \notin p)
    BY <1>1 DEF Forgets
  <2>2. {n, m} # p
    BY <2>1
  <2>3. {n, m} \in Pairs /\ links[{n, m}] > 0
    BY <2>1 DEF MInv, Directory, RelaysAreConnected, Linked
  <2>. QED  BY <1>1, <1>2, <2>2, <2>3
<1>5. Directory'
  BY <1>3, <1>4 DEF Directory
<1>6. Types'
  BY <1>1 DEF MInv, Types
<1>7. Packets' /\ KeptAtRelay'
  BY <1>1, PacketsStay, KeptStays DEF MInv
<1>. QED
  BY <1>5, <1>6, <1>7 DEF MInv

(* A node's process ends and starts again.                                  *)
LEMMA RestartKeeps ==
    ASSUME MInv, MixAssumption, NEW n \in Node, Restart(n)
    PROVE  MInv'
<1>1. /\ spent' = [spent EXCEPT !.upsets = @ + 1]
      /\ links' = [p \in Pairs |-> IF n \in p THEN 0 ELSE links[p]]
      /\ relays' = [m \in Node |-> IF m = n THEN {} ELSE relays[m] \ {n}]
      /\ keys' = [keys EXCEPT ![n] = {}]
      /\ covering' = covering \ {n}
      /\ stamping' = {d \in stamping : d.from # n}
      /\ held' = {p \in held : p.to # n}
      /\ UNCHANGED <<epoch, wire, store, misses>>
  BY DEF Restart
<1>2. links \in [Pairs -> Nat] /\ relays \in [Node -> SUBSET Node]
  BY DEF MInv, Directory
<1>3. links' \in [Pairs -> Nat] /\ relays' \in [Node -> SUBSET Node]
  BY <1>1, <1>2
<1>4. RelaysAreConnected'
  <2>. SUFFICES ASSUME NEW a \in Node, NEW b \in relays'[a]
                PROVE  {a, b} \in Pairs /\ links'[{a, b}] > 0
    BY DEF RelaysAreConnected, Linked
  <2>1. a # n /\ b # n /\ b \in relays[a]
    BY <1>1
  <2>2. {a, b} \in Pairs /\ links[{a, b}] > 0
    BY <2>1 DEF MInv, Directory, RelaysAreConnected, Linked
  <2>. QED  BY <1>1, <2>1, <2>2
<1>5. Directory'
  BY <1>3, <1>4 DEF Directory
<1>6. Types'
  <2>1. keys' \in [Node -> SUBSET Node]
    BY <1>1 DEF MInv, Types
  <2>2. stamping' \subseteq [from: Node, tag: Tag] /\ held' \subseteq PacketType
    BY <1>1 DEF MInv, Types
  <2>. QED  BY <1>1, <2>1, <2>2 DEF MInv, Types
<1>7. Packets' /\ KeptAtRelay'
  BY <1>1, PacketsStay, KeptStays DEF MInv
<1>. QED
  BY <1>5, <1>6, <1>7 DEF MInv

(* The app deposits; the proof of work is being mined.                      *)
LEMMA DepositToMailboxKeeps ==
    ASSUME MInv, NEW n \in Node, DepositToMailbox(n)
    PROVE  MInv'
<1>1. /\ stamping' = stamping \cup {[from |-> n, tag |-> epoch]}
      /\ spent' = [spent EXCEPT !.packets = @ + 1]
      /\ UNCHANGED <<links, relays, keys, covering, epoch, wire, held, store,
                     misses>>
  BY DEF DepositToMailbox, CountPacket, directory
<1>2. Directory' /\ Packets' /\ KeptAtRelay'
  BY <1>1, DirectoryStays, PacketsStay, KeptStays DEF MInv
<1>3. Types'
  <2>1. stamping' \subseteq [from: Node, tag: Tag]
    BY <1>1 DEF MInv, Types
  <2>2. spent'.packets \in Nat /\ DOMAIN spent' = DOMAIN spent
    BY <1>1 DEF MInv, Types
  <2>. QED  BY <1>1, <2>1, <2>2 DEF MInv, Types
<1>. QED
  BY <1>2, <1>3 DEF MInv

(* The epoch, the dummy switch and the announcements.                       *)
LEMMA SettingsKeep ==
    ASSUME MInv, MixAssumption,
           \/ TurnEpoch
           \/ \E n \in Node : SetMixDummyTrafficActive(n)
           \/ \E m, n \in Node : AnnounceMixRelay(m, n)
    PROVE  MInv'
<1>1. /\ UNCHANGED <<links, relays, stamping, wire, held, store, misses>>
      /\ \/ epoch' = epoch
         \/ epoch' = epoch + 1 /\ epoch < MaxEpoch
      /\ \/ spent' = spent
         \/ spent' = [spent EXCEPT !.upsets = @ + 1]
  <2>1. CASE TurnEpoch
    BY <2>1 DEF TurnEpoch, directory
  <2>2. CASE \E n \in Node : SetMixDummyTrafficActive(n)
    BY <2>2 DEF SetMixDummyTrafficActive, directory
  <2>3. CASE \E m, n \in Node : AnnounceMixRelay(m, n)
    BY <2>3 DEF AnnounceMixRelay
  <2>. QED  BY <2>1, <2>2, <2>3
<1>2. covering' \subseteq Node
  BY DEF TurnEpoch, SetMixDummyTrafficActive, AnnounceMixRelay, MInv, Types
<1>3. keys' \in [Node -> SUBSET Node]
  BY DEF TurnEpoch, SetMixDummyTrafficActive, AnnounceMixRelay, directory, MInv,
         Types
<1>4. epoch' \in Tag
  BY <1>1 DEF MInv, Types, Tag, MixAssumption
<1>5. Directory' /\ Packets' /\ KeptAtRelay'
  BY <1>1, DirectoryStays, PacketsStay, KeptStays DEF MInv
<1>6. Types'
  <2>1. spent'.packets \in Nat /\ DOMAIN spent' = DOMAIN spent
    BY <1>1 DEF MInv, Types
  <2>. QED  BY <1>1, <1>2, <1>3, <1>4, <2>1 DEF MInv, Types
<1>. QED
  BY <1>5, <1>6 DEF MInv

(* A deposit is mined and sent.                                             *)
LEMMA SendMailboxDepositKeeps ==
    ASSUME MInv, MixAssumption, NEW d \in stamping, SendMailboxDeposit(d)
    PROVE  MInv'
<1>1. /\ stamping' = stamping \ {d} /\ spent' = spent
      /\ UNCHANGED <<links, relays, keys, covering, epoch, held, store, misses>>
  BY DEF SendMailboxDeposit, directory
<1>2. d.from \in Node /\ d.tag \in Tag /\ spent.packets \in Nat
  BY DEF MInv, Types
<1>3. \A q \in wire' : q \in wire \/ (q \in PacketType /\ Routed(q))
  <2>1. CASE wire' = wire
    BY <2>1
  <2>2. CASE wire' # wire
    <3>. DEFINE S == Usable(d.from)
    <3>1. PICK path \in PathsToTag(d.tag, S) :
            wire' = wire \cup {[Packet(d.from, "deposit", d.tag, path, <<>>)
                                  EXCEPT !.what = spent.packets]}
      BY <2>2 DEF SendMailboxDeposit
    <3>. DEFINE p == [Packet(d.from, "deposit", d.tag, path, <<>>)
                        EXCEPT !.what = spent.packets]
    <3>2. S # {}
      BY <2>2 DEF SendMailboxDeposit
    <3>3. S \in SUBSET Node /\ d.from \notin S
      BY <1>2, UsableAre DEF MInv
    <3>4. /\ p.kind = "deposit" /\ p.tag = d.tag /\ p.view = S
          /\ p.from = d.from /\ p.origin = d.from
          /\ p.to = Head(path) /\ p.rest = Tail(path)
      BY DEF Packet
    <3>5. path \in Seq(Node) /\ path # <<>>
      BY <1>2, <3>2, <3>3, PathsAre
    <3>6. Head(path) \in Node /\ Tail(path) \in Seq(Node)
      BY <3>5
    <3>7. p \in PacketType
      <4>. DEFINE b == Packet(d.from, "deposit", d.tag, path, <<>>)
      <4>1. b \in PacketType
        BY <1>2, <3>3, <3>6 DEF Packet, PacketType, Kinds
      <4>2. p = [b EXCEPT !.what = spent.packets]
        OBVIOUS
      <4>. HIDE DEF b, p
      <4>. QED  BY <1>2, <4>1, <4>2 DEF PacketType
    <3>. HIDE DEF p, S
    <3>8. Straight(p) /\ GoesToRelay(p)
      BY <3>1, <3>2, <3>3, <3>4, <3>7, StartsToRelay DEF Carries
    <3>9. BlockAvoidsRelay(p) /\ ReplyLeavesRelay(p)
      BY <3>4 DEF BlockAvoidsRelay, ReplyLeavesRelay
    <3>. QED  BY <3>1, <3>7, <3>8, <3>9 DEF Routed, p
  <2>. QED  BY <2>1, <2>2
<1>4. Directory' /\ Packets' /\ KeptAtRelay'
  BY <1>1, <1>3, DirectoryStays, PacketsStay, KeptStays DEF MInv
<1>5. Types'
  BY <1>1, <1>3 DEF MInv, Types
<1>. QED
  BY <1>4, <1>5 DEF MInv

(* A query is sent, with its reply block.                                   *)
LEMMA RetrieveFromMailboxKeeps ==
    ASSUME MInv, MixAssumption, NEW n \in Node, RetrieveFromMailbox(n)
    PROVE  MInv'
<1>. DEFINE S == Usable(n)
            responder == ClosestToTag(epoch, S)
<1>1. /\ spent' = [spent EXCEPT !.packets = @ + 1]
      /\ UNCHANGED <<links, relays, keys, covering, epoch, stamping, held,
                     store, misses>>
      /\ S # {}
  BY DEF RetrieveFromMailbox, CountPacket, directory
<1>2. epoch \in Tag /\ spent.packets \in Nat
  BY DEF MInv, Types
<1>3. PICK path \in PathsToTag(epoch, S),
           back \in ReturnPaths(n, S, responder) :
        wire' = wire \cup {Packet(n, "query", epoch, path, back)}
  BY DEF RetrieveFromMailbox, Surbs
<1>. DEFINE p == Packet(n, "query", epoch, path, back)
<1>4. S \in SUBSET Node /\ n \notin S
  BY UsableAre DEF MInv
<1>5. responder \in S
  BY <1>1, <1>2, <1>4, ClosestIsThere
<1>6. /\ p.kind = "query" /\ p.tag = epoch /\ p.view = S /\ p.surb = back
      /\ p.from = n /\ p.origin = n /\ p.to = Head(path) /\ p.rest = Tail(path)
  BY DEF Packet
<1>7. path \in Seq(Node) /\ path # <<>>
  <2>. HIDE DEF S, responder
  <2>. QED  BY <1>1, <1>2, <1>4, PathsAre
<1>8. Head(path) \in Node /\ Tail(path) \in Seq(Node)
  BY <1>7
<1>9. /\ back \in Seq(Node \ {responder}) /\ back # <<>> /\ ~Repeats(back)
      /\ back[1] = n => Cardinality(S) = 1
  <2>. HIDE DEF S, responder
  <2>. QED  BY <1>3, <1>4, <1>5, WaysBackAre
<1>10. back \in Seq(Node)
  BY <1>9
<1>11. p \in PacketType
  BY <1>2, <1>4, <1>8, <1>10 DEF Packet, PacketType, Kinds
<1>12. Relay(p) = responder
  BY <1>6 DEF Relay
<1>. HIDE DEF p, S, responder
<1>13. Straight(p) /\ GoesToRelay(p)
  <2>1. path \in PathsToTag(p.tag, p.view)
    BY <1>3, <1>6
  <2>2. /\ Carries(p) /\ p.view # {} /\ p.origin \notin p.view
        /\ p.from = p.origin /\ p.to = Head(path) /\ p.rest = Tail(path)
    BY <1>1, <1>4, <1>6 DEF Carries
  <2>. QED  BY <1>11, <2>1, <2>2, StartsToRelay
<1>14. BlockAvoidsRelay(p) /\ ReplyLeavesRelay(p)
  BY <1>6, <1>9, <1>12 DEF BlockAvoidsRelay, ReplyLeavesRelay
<1>15. wire' = wire \cup {p} /\ Routed(p)
  BY <1>3, <1>13, <1>14 DEF Routed, p
<1>16. Directory' /\ Packets' /\ KeptAtRelay'
  BY <1>1, <1>15, DirectoryStays, PacketsStay, KeptStays DEF MInv
<1>17. Types'
  <2>1. spent'.packets \in Nat /\ DOMAIN spent' = DOMAIN spent
    BY <1>1 DEF MInv, Types
  <2>. QED  BY <1>1, <1>11, <1>15, <2>1 DEF MInv, Types
<1>. QED
  BY <1>16, <1>17 DEF MInv

(* A dummy packet is sent.                                                  *)
LEMMA EmitDummyMixTrafficKeeps ==
    ASSUME MInv, MixAssumption, NEW n \in Node, EmitDummyMixTraffic(n)
    PROVE  MInv'
<1>1. /\ spent' = [spent EXCEPT !.packets = @ + 1]
      /\ UNCHANGED <<links, relays, keys, covering, epoch, stamping, held,
                     store, misses>>
  BY DEF EmitDummyMixTraffic, CountPacket, directory
<1>2. epoch \in Tag /\ spent.packets \in Nat
  BY DEF MInv, Types
<1>3. PICK r \in Usable(n), back \in {<<>>, <<n>>} :
        wire' = wire \cup {DummyPacket(n, <<r>> \o back)}
  BY DEF EmitDummyMixTraffic
<1>. DEFINE p == DummyPacket(n, <<r>> \o back)
<1>4. Usable(n) \in SUBSET Node /\ n \notin Usable(n)
  BY UsableAre DEF MInv
<1>5. back \in Seq(Node) /\ r \in Node /\ r # n
  <2>1. <<>> \in Seq(Node) /\ <<n>> \in Seq(Node)
    OBVIOUS
  <2>. QED  BY <1>4, <2>1
<1>6. Head(<<r>> \o back) = r /\ Tail(<<r>> \o back) = back
  BY <1>5
<1>7. /\ p.kind = "dummy" /\ p.from = n /\ p.to = r /\ p.rest = back
  BY <1>6 DEF DummyPacket, Packet
<1>8. p \in PacketType
  BY <1>2, <1>4, <1>5, <1>6 DEF DummyPacket, Packet, PacketType, Kinds
<1>. HIDE DEF p
<1>9. Straight(p)
  <2>1. ~Repeats(back) /\ (back # <<>> => r # back[1])
    BY <1>3, <1>5 DEF Repeats
  <2>. QED  BY <1>5, <1>7, <2>1, TwoMoreHops DEF Straight
<1>10. Routed(p)
  BY <1>7, <1>9 DEF Routed, GoesToRelay, Carries, BlockAvoidsRelay,
                    ReplyLeavesRelay
<1>11. wire' = wire \cup {p}
  BY <1>3 DEF p
<1>12. Directory' /\ Packets' /\ KeptAtRelay'
  BY <1>1, <1>10, <1>11, DirectoryStays, PacketsStay, KeptStays DEF MInv
<1>13. Types'
  <2>1. spent'.packets \in Nat /\ DOMAIN spent' = DOMAIN spent
    BY <1>1 DEF MInv, Types
  <2>. QED  BY <1>1, <1>8, <1>11, <2>1 DEF MInv, Types
<1>. QED
  BY <1>12, <1>13 DEF MInv

(* Whatever a packet carries, its sender's routing key is learnt.           *)
LEMMA ArrivalTeachesKey ==
    ASSUME MInv, NEW p \in wire,
           keys' = [keys EXCEPT ![p.to] = @ \cup {p.from}]
    PROVE  keys' \in [Node -> SUBSET Node]
  BY DEF MInv, Types, PacketType

(* A packet leaves the wire: forwarded later, delivered or lost.            *)
LEMMA TakenOffTheWire ==
    ASSUME MInv, NEW p \in wire,
           \/ PeelForward(p) \/ PeelReply(p) \/ PeelDummy(p)
           \/ OutboundFailure(p)
    PROVE  MInv'
<1>1. /\ wire' = wire \ {p}
      /\ \/ held' = held
         \/ held' = held \cup {p} /\ p.rest # <<>>
      /\ UNCHANGED <<links, relays, covering, epoch, stamping, store, misses,
                     spent>>
  <2>1. CASE PeelForward(p)
    BY <2>1 DEF PeelForward, IsFinal
  <2>2. CASE PeelReply(p)
    BY <2>2 DEF PeelReply
  <2>3. CASE PeelDummy(p)
    BY <2>3 DEF PeelDummy
  <2>4. CASE OutboundFailure(p)
    BY <2>4 DEF OutboundFailure, directory
  <2>. QED  BY <2>1, <2>2, <2>3, <2>4
<1>2. keys' \in [Node -> SUBSET Node]
  <2>1. keys' = keys \/ keys' = [keys EXCEPT ![p.to] = @ \cup {p.from}]
    BY DEF PeelForward, PeelReply, PeelDummy, Arrives, OutboundFailure,
           directory
  <2>. QED  BY <2>1, ArrivalTeachesKey DEF MInv, Types
<1>3. Directory' /\ Packets' /\ KeptAtRelay'
  BY <1>1, DirectoryStays, PacketsStay, KeptStays DEF MInv
<1>4. Types'
  BY <1>1, <1>2 DEF MInv, Types
<1>. QED
  BY <1>3, <1>4 DEF MInv

(* A relay sends a packet on.                                               *)
LEMMA ForwardKeeps ==
    ASSUME MInv, NEW p \in held, Forward(p)
    PROVE  MInv'
<1>1. /\ held' = held \ {p} /\ wire' = wire \cup {NextHopPacket(p)}
      /\ UNCHANGED <<links, relays, keys, covering, epoch, stamping, store,
                     misses, spent>>
  BY DEF Forward, directory
<1>2. p \in PacketType /\ Routed(p) /\ p.rest # <<>>
  BY DEF MInv, Types, Packets
<1>3. NextHopPacket(p) \in PacketType /\ Routed(NextHopPacket(p))
  BY <1>2, SentOn
<1>4. Directory' /\ Packets' /\ KeptAtRelay'
  BY <1>1, <1>3, DirectoryStays, PacketsStay, KeptStays DEF MInv
<1>5. Types'
  BY <1>1, <1>3 DEF MInv, Types
<1>. QED
  BY <1>4, <1>5 DEF MInv

(* A deposit reaches the relay of its tag.                                  *)
LEMMA PeelDepositKeeps ==
    ASSUME MInv, NEW p \in wire, PeelDeposit(p)
    PROVE  MInv'
<1>. DEFINE d == [tag |-> p.tag, by |-> p.origin, view |-> p.view,
                  what |-> p.what]
<1>1. /\ p.rest = <<>> /\ p.kind = "deposit" /\ wire' = wire \ {p}
      /\ keys' = [keys EXCEPT ![p.to] = @ \cup {p.from}]
      /\ \/ store' = store
         \/ store' = [store EXCEPT ![p.to] = @ \cup {d}]
      /\ UNCHANGED <<links, relays, covering, epoch, stamping, held, misses,
                     spent>>
  BY DEF PeelDeposit, Arrives, IsFinal
<1>2. p \in PacketType /\ Routed(p) /\ store \in [Node -> SUBSET StoredDeposit]
  BY DEF MInv, Types, Packets
<1>3. d \in StoredDeposit /\ p.to \in Node
  BY <1>2 DEF PacketType, StoredDeposit
<1>4. p.to = ClosestToTag(d.tag, d.view)
  BY <1>1, <1>2 DEF Routed, GoesToRelay, Carries, LastHop, Relay
<1>. HIDE DEF d
<1>5. store' \in [Node -> SUBSET StoredDeposit]
  BY <1>1, <1>2, <1>3
<1>6. KeptAtRelay'
  BY <1>1, <1>2, <1>3, <1>4 DEF MInv, KeptAtRelay
<1>7. Directory' /\ Packets'
  BY <1>1, DirectoryStays, PacketsStay DEF MInv
<1>8. Types'
  BY <1>1, <1>5, ArrivalTeachesKey DEF MInv, Types
<1>. QED
  BY <1>6, <1>7, <1>8 DEF MInv

(* A relay keeps the deposit it oldest has.                                 *)
LEMMA OldestIsThere ==
    ASSUME NEW S \in SUBSET StoredDeposit, S # {}
    PROVE  OldestOf(S) \in S /\ OldestOf(S).what \in Nat
<1>. DEFINE W == {d.what : d \in S}
<1>1. \A d \in S : d.what \in Nat
  BY DEF StoredDeposit
<1>2. W \in SUBSET Nat /\ W # {}
  BY <1>1
<1>3. PICK w \in W : \A v \in W : w <= v
  BY <1>2, LeastOf
<1>4. \E d \in S : \A e \in S : d.what <= e.what
  BY <1>3
<1>5. OldestOf(S) \in S
  BY <1>4 DEF OldestOf
<1>. QED
  BY <1>1, <1>5

(* A query reaches the relay of its tag, which answers, or has nothing.     *)
LEMMA PeelQueryKeeps ==
    ASSUME MInv, NEW p \in wire, PeelQuery(p)
    PROVE  MInv'
<1>. DEFINE found == HeldFor(p.to, p.tag)
            miss == [at |-> p.to, tag |-> p.tag, view |-> p.view,
                     by |-> p.origin]
            reply == UseSurb(p, OldestOf(found).what)
<1>1. /\ p.rest = <<>> /\ p.kind = "query"
      /\ keys' = [keys EXCEPT ![p.to] = @ \cup {p.from}]
      /\ \/ wire' = wire \ {p}
         \/ found # {} /\ wire' = (wire \ {p}) \cup {reply}
      /\ \/ misses' = misses
         \/ misses' = misses \cup {miss}
      /\ UNCHANGED <<links, relays, covering, epoch, stamping, held, store,
                     spent>>
  BY DEF PeelQuery, Arrives, IsFinal
<1>2. p \in PacketType /\ Routed(p) /\ store \in [Node -> SUBSET StoredDeposit]
  BY DEF MInv, Types, Packets
<1>3. miss \in Miss /\ p.to \in Node
  BY <1>2 DEF PacketType, Miss
<1>4. miss.at = ClosestToTag(miss.tag, miss.view)
  BY <1>1, <1>2 DEF Routed, GoesToRelay, Carries, LastHop, Relay
<1>5. found \in SUBSET StoredDeposit
  BY <1>2, <1>3 DEF HeldFor
<1>. HIDE DEF found, miss
<1>6. found # {} => reply \in PacketType /\ Routed(reply)
  BY <1>1, <1>2, <1>5, OldestIsThere, ReplyIsRouted
<1>. HIDE DEF reply
<1>7. KeptAtRelay'
  BY <1>1, <1>4 DEF MInv, KeptAtRelay
<1>8. Directory' /\ Packets'
  BY <1>1, <1>6, DirectoryStays, PacketsStay DEF MInv
<1>9. Types'
  <2>1. wire' \subseteq PacketType /\ misses' \subseteq Miss
    BY <1>1, <1>3, <1>6 DEF MInv, Types
  <2>. QED  BY <1>1, <2>1, ArrivalTeachesKey DEF MInv, Types
<1>. QED
  BY <1>7, <1>8, <1>9 DEF MInv

-----------------------------------------------------------------------------
(* The invariant.                                                           *)

(* A step that changes nothing.                                             *)
LEMMA MixStutterKeeps ==
    ASSUME MInv, UNCHANGED vars
    PROVE  MInv'
<1>1. UNCHANGED <<links, relays, keys, covering, epoch, stamping, wire, held,
                  store, misses, spent>>
  BY DEF vars, directory
<1>2. Directory' /\ Packets' /\ KeptAtRelay'
  BY <1>1, DirectoryStays, PacketsStay, KeptStays DEF MInv
<1>3. Types'
  BY <1>1 DEF MInv, Types
<1>. QED
  BY <1>2, <1>3 DEF MInv

(* Every step keeps the invariant.                                          *)
LEMMA MixNextKeeps ==
    ASSUME MInv, MixAssumption, [Next]_vars
    PROVE  MInv'
<1>1. CASE \E p \in Pairs : ConnectionEstablished(p) \/ ConnectionClosed(p)
  BY <1>1, ConnectionEstablishedKeeps, ConnectionClosedKeeps
<1>2. CASE \E n \in Node :
             \/ DepositToMailbox(n) \/ RetrieveFromMailbox(n)
             \/ EmitDummyMixTraffic(n) \/ Restart(n)
  BY <1>2, DepositToMailboxKeeps, RetrieveFromMailboxKeeps,
     EmitDummyMixTrafficKeeps, RestartKeeps
<1>3. CASE \/ TurnEpoch
           \/ \E n \in Node : SetMixDummyTrafficActive(n)
           \/ \E m, n \in Node : AnnounceMixRelay(m, n)
  BY <1>3, SettingsKeep
<1>4. CASE \E d \in stamping : SendMailboxDeposit(d)
  BY <1>4, SendMailboxDepositKeeps
<1>5. CASE \E p \in wire :
             \/ PeelForward(p) \/ PeelDeposit(p) \/ PeelQuery(p)
             \/ PeelReply(p) \/ PeelDummy(p) \/ OutboundFailure(p)
  BY <1>5, TakenOffTheWire, PeelDepositKeeps, PeelQueryKeeps
<1>6. CASE \E p \in held : Forward(p)
  BY <1>6, ForwardKeeps
<1>7. CASE UNCHANGED vars
  BY <1>7, MixStutterKeeps
<1>. QED
  BY <1>1, <1>2, <1>3, <1>4, <1>5, <1>6, <1>7 DEF Next

(* The inductive invariant: the directory, the packets on their way and     *)
(* what relays keep (handle_swarm_event, build_mix_path_to_tag, peel).      *)
THEOREM MInvHolds == Spec => []MInv
<1>1. Init => MInv
  BY InitMInv, MixAssumption
<1>2. MInv /\ [Next]_vars => MInv'
  BY MixNextKeeps, MixAssumption
<1>. QED
  BY <1>1, <1>2, PTL DEF Spec

(* A relay is a connected peer (ConnectionEstablished, ConnectionClosed).   *)
THEOREM RelaysAreConnectedHolds == Spec => []RelaysAreConnected
<1>1. MInv => RelaysAreConnected
  BY DEF MInv, Directory
<1>. QED
  BY <1>1, MInvHolds, PTL

(* No hop is asked to hand a packet to itself (build_mix_path_to_tag,       *)
(* send_mailbox_retrieval_query).                                           *)
THEOREM NoHopToItselfHolds == Spec => []NoHopToItself
<1>1. ASSUME MInv
      PROVE  NoHopToItself
  <2>. SUFFICES ASSUME NEW p \in wire \cup held
                PROVE  /\ ~Repeats(<<p.from, p.to>> \o p.rest)
                       /\ p.kind = "query" =>
                            ~Repeats(<<(<<p.to>> \o p.rest)[Len(p.rest) + 1]>>
                                       \o p.surb)
    BY DEF NoHopToItself
  <2>1. p \in PacketType /\ Routed(p)
    BY <1>1 DEF MInv, Types, Packets
  <2>2. ~Repeats(<<p.from, p.to>> \o p.rest)
    BY <2>1 DEF Routed, Straight
  <2>3. ASSUME p.kind = "query"
        PROVE  ~Repeats(<<(<<p.to>> \o p.rest)[Len(p.rest) + 1]>> \o p.surb)
    <3>1. /\ p.surb \in Seq(Node \ {Relay(p)}) /\ p.surb # <<>>
          /\ ~Repeats(p.surb)
          /\ LastHop(p) = Relay(p)
      BY <2>1, <2>3 DEF Routed, BlockAvoidsRelay, GoesToRelay, Carries
    <3>2. p.rest \in Seq(Node) /\ p.to \in Node /\ p.surb \in Seq(Node)
      BY <2>1 DEF PacketType
    <3>3. (<<p.to>> \o p.rest)[Len(p.rest) + 1] = LastHop(p)
      BY <3>2 DEF LastHop
    <3>4. LastHop(p) \in Node /\ p.surb[1] # LastHop(p)
      BY <3>1, <3>2 DEF LastHop
    <3>5. ~Repeats(<<LastHop(p)>> \o p.surb)
      BY <3>1, <3>2, <3>4, OneMoreHop
    <3>. QED  BY <3>3, <3>5
  <2>. QED  BY <2>2, <2>3
<1>. QED
  BY <1>1, MInvHolds, PTL

(* The hop that sees a tag does not hear from its user, when there is a     *)
(* second relay to put between (build_mix_path_to_tag, use_surb).           *)
THEOREM SenderAndTagStayApartHolds == Spec => []SenderAndTagStayApart
<1>1. ASSUME MInv
      PROVE  SenderAndTagStayApart
  <2>1. \A p \in wire : Routed(p)
    BY <1>1 DEF MInv, Packets
  <2>. QED  BY <2>1 DEF SenderAndTagStayApart, Routed, GoesToRelay, Carries,
                        ReplyLeavesRelay, Relay
<1>. QED
  BY <1>1, MInvHolds, PTL

(* Two users with the same relays meet at the same one                      *)
(* (closest_relay_to_tag).                                                  *)
THEOREM MissesHaveDifferentViewsHolds == Spec => []MissesHaveDifferentViews
<1>1. ASSUME MInv
      PROVE  MissesHaveDifferentViews
  BY <1>1 DEF MInv, KeptAtRelay, MissesHaveDifferentViews, HeldFor
<1>. QED
  BY <1>1, MInvHolds, PTL

-----------------------------------------------------------------------------
(* Adding up the sizes of a finite set of deposits *)

Bytes(ds) == MapThenSumSet(StoredSize, ds)

Any(ds) == CHOOSE d \in ds : TRUE

(* f adds up every set of the family F, one deposit after the other.        *)
AddsUp(f, F) ==
    f = [ds \in F |-> IF ds = {} THEN 0
                      ELSE StoredSize(Any(ds)) + f[ds \ {Any(ds)}]]

(* What is known of the deposits taken out one by one.                      *)
LEMMA OneFewer ==
    ASSUME NEW D, IsFiniteSet(D)
    PROVE  \A ds \in SUBSET D :
              /\ IsFiniteSet(ds) /\ Cardinality(ds) \in Nat
              /\ ds = {} <=> Cardinality(ds) = 0
              /\ \A d \in ds : Cardinality(ds \ {d}) = Cardinality(ds) - 1
              /\ ds # {} => Any(ds) \in ds
  BY FS_Subset, FS_CardinalityType, FS_EmptySet, FS_RemoveElement DEF Any

(* There is a function that adds up, by induction on how many deposits the  *)
(* sets it is defined on have.                                              *)
LEMMA SumExists ==
    ASSUME NEW D, IsFiniteSet(D)
    PROVE  \E f : AddsUp(f, SUBSET D)
<1> DEFINE Upto(n) == {ds \in SUBSET D : Cardinality(ds) <= n}
           K == {n \in Nat : \E f : AddsUp(f, Upto(n))}
<1>1. 0 \in K
  <2>1. \A ds \in Upto(0) : ds = {}
    BY OneFewer
  <2> DEFINE f == [ds \in Upto(0) |-> 0]
  <2> HIDE DEF Upto
  <2>2. AddsUp(f, Upto(0))
    BY <2>1 DEF AddsUp
  <2>. QED  BY <2>2
<1>2. ASSUME NEW n \in Nat, n \in K
      PROVE  n + 1 \in K
  <2>1. PICK f : AddsUp(f, Upto(n))
    BY <1>2
  <2> DEFINE g == [ds \in Upto(n + 1) |->
                      IF ds \in Upto(n) THEN f[ds]
                      ELSE StoredSize(Any(ds)) + f[ds \ {Any(ds)}]]
  <2>2. ASSUME NEW ds \in Upto(n + 1), ds # {}
        PROVE  ds \ {Any(ds)} \in Upto(n) /\ ds \ {Any(ds)} \in Upto(n + 1)
    <3>1. Cardinality(ds) \in Nat /\ Cardinality(ds \ {Any(ds)}) = Cardinality(ds) - 1
      BY <2>2, OneFewer
    <3>. QED  BY <3>1
  <2>3. {} \in Upto(n) /\ Upto(n) \subseteq Upto(n + 1)
    BY FS_EmptySet, OneFewer
  <2> HIDE DEF Upto
  <2>4. \A ds \in Upto(n) : g[ds] = f[ds]
    BY <2>3
  <2>5. \A ds \in Upto(n) :
           f[ds] = IF ds = {} THEN 0 ELSE StoredSize(Any(ds)) + f[ds \ {Any(ds)}]
    BY <2>1 DEF AddsUp
  <2>6. ASSUME NEW ds \in Upto(n + 1)
        PROVE  g[ds] = IF ds = {} THEN 0
                       ELSE StoredSize(Any(ds)) + g[ds \ {Any(ds)}]
    <3>1. CASE ds = {}
      BY <2>3, <2>4, <2>5, <3>1
    <3>2. CASE ds # {}
      <4>1. g[ds \ {Any(ds)}] = f[ds \ {Any(ds)}]
        BY <2>2, <2>4, <3>2
      <4>2. g[ds] = StoredSize(Any(ds)) + f[ds \ {Any(ds)}]
        BY <2>5, <3>2
      <4>. QED  BY <3>2, <4>1, <4>2
    <3>. QED  BY <3>1, <3>2
  <2>7. AddsUp(g, Upto(n + 1))
    <3>1. g = [ds \in Upto(n + 1) |-> g[ds]]
      OBVIOUS
    <3> HIDE DEF g
    <3>2. [ds \in Upto(n + 1) |-> g[ds]] =
          [ds \in Upto(n + 1) |-> IF ds = {} THEN 0
                                  ELSE StoredSize(Any(ds)) + g[ds \ {Any(ds)}]]
      BY <2>6
    <3>. QED  BY <3>1, <3>2 DEF AddsUp
  <2> HIDE DEF g
  <2>. QED  BY <2>7
<1>3. Cardinality(D) \in Nat /\ Upto(Cardinality(D)) = SUBSET D
  BY FS_Subset, FS_CardinalityType
<1>4. Cardinality(D) \in K
  <2> HIDE DEF K
  <2>. QED  BY <1>1, <1>2, <1>3, NatInductionOnSets
<1> HIDE DEF Upto
<1>. QED  BY <1>3, <1>4

(* Two that do agree on what both are defined on.                           *)
LEMMA SumsAgree ==
    \A D, E, f, g : /\ IsFiniteSet(D) /\ E \subseteq D
                    /\ AddsUp(f, SUBSET D) /\ AddsUp(g, SUBSET E)
                    => f[E] = g[E]
<1> TAKE D, E, f, g
<1> HAVE /\ IsFiniteSet(D) /\ E \subseteq D
         /\ AddsUp(f, SUBSET D) /\ AddsUp(g, SUBSET E)
<1> DEFINE K == {n \in Nat : \A ds \in SUBSET E : Cardinality(ds) = n => f[ds] = g[ds]}
<1>1. \A ds \in SUBSET E :
         /\ f[ds] = IF ds = {} THEN 0 ELSE StoredSize(Any(ds)) + f[ds \ {Any(ds)}]
         /\ g[ds] = IF ds = {} THEN 0 ELSE StoredSize(Any(ds)) + g[ds \ {Any(ds)}]
  BY DEF AddsUp
<1>2. \A ds \in SUBSET E :
         /\ Cardinality(ds) \in Nat
         /\ ds = {} <=> Cardinality(ds) = 0
         /\ ds # {} => Cardinality(ds \ {Any(ds)}) = Cardinality(ds) - 1
  BY OneFewer
<1>3. 0 \in K
  BY <1>1, <1>2
<1>4. ASSUME NEW n \in Nat, n \in K
      PROVE  n + 1 \in K
  <2> SUFFICES ASSUME NEW ds \in SUBSET E, Cardinality(ds) = n + 1
               PROVE  f[ds] = g[ds]
    OBVIOUS
  <2>1. ds # {} /\ Cardinality(ds \ {Any(ds)}) = n
    BY <1>2
  <2>2. f[ds \ {Any(ds)}] = g[ds \ {Any(ds)}]
    BY <1>4, <2>1
  <2>. QED  BY <1>1, <2>1, <2>2
<1>5. Nat \subseteq K
  <2> HIDE DEF K
  <2>. QED  BY <1>3, <1>4, NatInductionOnSets
<1>6. E \in SUBSET E /\ Cardinality(E) \in Nat
  BY <1>2
<1>. QED  BY <1>5, <1>6

(* The sum, one deposit taken out: first the one the fold takes.            *)
LEMMA BytesUnfold ==
    ASSUME NEW D, IsFiniteSet(D)
    PROVE  /\ Bytes({}) = 0
           /\ D # {} => Bytes(D) = StoredSize(Any(D)) + Bytes(D \ {Any(D)})
<1>1. \A T : Bytes(T) = (CHOOSE f : AddsUp(f, SUBSET T))[T]
  BY DEF Bytes, MapThenSumSet, MapThenFoldSet, AddsUp, Any
<1> DEFINE Sum(T) == CHOOSE f : AddsUp(f, SUBSET T)
<1>2. \A T \in SUBSET D : AddsUp(Sum(T), SUBSET T)
  BY SumExists, FS_Subset
<1> HIDE DEF Sum
<1>3. Bytes({}) = 0
  BY <1>1, <1>2 DEF AddsUp, Sum
<1>4. ASSUME D # {}
      PROVE  Bytes(D) = StoredSize(Any(D)) + Bytes(D \ {Any(D)})
  <2> DEFINE R == D \ {Any(D)}
  <2>1. Sum(D)[D] = StoredSize(Any(D)) + Sum(D)[R]
    BY <1>2, <1>4 DEF AddsUp
  <2>2. Sum(D)[R] = Sum(R)[R]
    <3>1. PICK e, f, g : e = R /\ f = Sum(D) /\ g = Sum(R)
      OBVIOUS
    <3>2. e \subseteq D /\ AddsUp(f, SUBSET D) /\ AddsUp(g, SUBSET e)
      BY <1>2, <3>1
    <3>3. f[e] = g[e]
      BY <3>2, SumsAgree
    <3>. QED  BY <3>1, <3>3
  <2>. QED  BY <1>1, <2>1, <2>2 DEF Sum
<1>. QED  BY <1>3, <1>4

(* The sum, any one taken out.                                              *)
LEMMA BytesRemove ==
    ASSUME NEW D, IsFiniteSet(D), \A d \in D : StoredSize(d) \in Nat
    PROVE  /\ Bytes(D) \in Nat
           /\ \A d \in D : Bytes(D) = StoredSize(d) + Bytes(D \ {d})
<1> DEFINE P(T) == /\ Bytes(T) \in Nat
                   /\ \A d \in T : Bytes(T) = StoredSize(d) + Bytes(T \ {d})
           K == {n \in Nat : \A T \in SUBSET D : Cardinality(T) <= n => P(T)}
<1>1. \A T \in SUBSET D :
         /\ IsFiniteSet(T) /\ Cardinality(T) \in Nat
         /\ T = {} <=> Cardinality(T) = 0
         /\ \A d \in T : Cardinality(T \ {d}) = Cardinality(T) - 1
         /\ T # {} => Any(T) \in T
  BY OneFewer
<1>2. \A T \in SUBSET D :
         /\ T = {} => Bytes(T) = 0
         /\ T # {} => Bytes(T) = StoredSize(Any(T)) + Bytes(T \ {Any(T)})
  BY <1>1, BytesUnfold
<1>3. 0 \in K
  BY <1>1, <1>2
<1>4. ASSUME NEW n \in Nat, n \in K
      PROVE  n + 1 \in K
  <2>10. \A T \in SUBSET D : Cardinality(T) <= n => P(T)
    BY <1>4
  <2> SUFFICES ASSUME NEW T \in SUBSET D, Cardinality(T) = n + 1
               PROVE  P(T)
    <3> HIDE DEF P
    <3>1. \A T \in SUBSET D : Cardinality(T) <= n + 1 =>
             Cardinality(T) <= n \/ Cardinality(T) = n + 1
      BY <1>1
    <3>. QED  BY <2>10, <3>1
  <2>0. PICK a : a = Any(T)
    OBVIOUS
  <2>1. T # {} /\ a \in T /\ Cardinality(T \ {a}) = n
    BY <1>1, <2>0
  <2>2. P(T \ {a})
    <3> HIDE DEF P
    <3>1. Cardinality(T \ {a}) <= n
      BY <2>1
    <3>. QED  BY <2>10, <3>1
  <2>3. Bytes(T) = StoredSize(a) + Bytes(T \ {a})
    BY <1>2, <2>0, <2>1
  <2>4. Bytes(T) \in Nat
    BY <2>1, <2>2, <2>3
  <2>5. ASSUME NEW d \in T
        PROVE  Bytes(T) = StoredSize(d) + Bytes(T \ {d})
    <3>1. CASE d = a
      BY <2>3, <3>1
    <3>2. CASE d # a
      <4> DEFINE U == T \ {d}
                 V == (T \ {a}) \ {d}
      <4>1. Bytes(T \ {a}) = StoredSize(d) + Bytes(V)
        BY <2>2, <3>2
      <4>2. Bytes(U) = StoredSize(a) + Bytes(V)
        <5>1. Cardinality(U) = n /\ a \in U /\ U \ {a} = V
          BY <1>1, <2>1, <3>2
        <5>2. P(U)
          <6> HIDE DEF P
          <6>1. Cardinality(U) <= n
            BY <5>1
          <6>. QED  BY <2>10, <6>1
        <5> HIDE DEF U, V
        <5>. QED  BY <5>1, <5>2
      <4>3. Bytes(V) \in Nat
        <5>1. Cardinality(V) = n - 1 /\ Cardinality(V) <= n
          BY <1>1, <2>1, <3>2
        <5>2. P(V)
          <6> HIDE DEF P
          <6>. QED  BY <2>10, <5>1
        <5>. QED  BY <5>2
      <4>4. StoredSize(a) \in Nat /\ StoredSize(d) \in Nat
        BY <2>1
      <4> HIDE DEF U, V
      <4>5. Bytes(T) = StoredSize(a) + (StoredSize(d) + Bytes(V))
        BY <2>3, <4>1
      <4>6. Bytes(T) = StoredSize(d) + Bytes(U)
        BY <4>2, <4>3, <4>4, <4>5
      <4>. QED  BY <4>6 DEF U
    <3>. QED  BY <3>1, <3>2
  <2>. QED  BY <2>4, <2>5
<1>5. Nat \subseteq K
  <2> HIDE DEF K
  <2>. QED  BY <1>3, <1>4, NatInductionOnSets
<1>. QED  BY <1>1, <1>5

-----------------------------------------------------------------------------
(* Evicting *)

(* The deposits that can arrive.                                            *)
Sendable ==
    {DepositOf(p, e, t) : p \in Pair, e \in Envelope, t \in 0..(MaxTime + MaxDrift + 1)}

LEMMA SendableFacts ==
    \A d, e \in Sendable :
        /\ StoredSize(d) \in Nat /\ SizeOf(d.envelope) \in Nat
        /\ SizeOf(d.envelope) <= StoredSize(d)
        /\ d.deposited_at \in Nat /\ Digest(d) \in Nat
        /\ d.deposited_at = e.deposited_at /\ Digest(d) = Digest(e) => d = e
<1>1. ASSUME NEW d \in Sendable
      PROVE  /\ StoredSize(d) \in Nat /\ SizeOf(d.envelope) \in Nat
             /\ SizeOf(d.envelope) <= StoredSize(d)
             /\ d.deposited_at \in Nat /\ Digest(d) \in Nat
  <2>1. PICK p \in Pair, e \in Envelope, t \in 0..(MaxTime + MaxDrift + 1) :
            d = DepositOf(p, e, t)
    BY DEF Sendable
  <2>2. d.envelope = e /\ d.deposited_at = t
    BY <2>1 DEF DepositOf
  <2>3. Digest(d) \in Nat
    BY <2>1, DigestAssumption
  <2>4. SizeOf(e) \in Nat /\ Overhead \in Nat /\ MaxTime \in Nat /\ MaxDrift \in Nat
    BY MailboxAssumption
  <2>. QED  BY <2>2, <2>3, <2>4 DEF StoredSize
<1>2. ASSUME NEW d \in Sendable, NEW e \in Sendable,
             d.deposited_at = e.deposited_at, Digest(d) = Digest(e)
      PROVE  d = e
  <2>1. PICK p \in Pair, k \in Envelope, t \in 0..(MaxTime + MaxDrift + 1) :
            d = DepositOf(p, k, t)
    BY DEF Sendable
  <2>2. PICK q \in Pair, l \in Envelope, u \in 0..(MaxTime + MaxDrift + 1) :
            e = DepositOf(q, l, u)
    BY DEF Sendable
  <2>3. t = u
    BY <1>2, <2>1, <2>2 DEF DepositOf
  <2>. QED  BY <1>2, <2>1, <2>2, <2>3, DigestAssumption
<1>. QED  BY <1>1, <1>2

(* Among deposits there is an oldest, older than all the others.            *)
LEMMA OldestExists ==
    ASSUME NEW T \in SUBSET Sendable, T # {}
    PROVE  OldestStored(T) \in T /\ \A e \in T \ {OldestStored(T)} : Older(OldestStored(T), e)
<1> DEFINE Times == {d.deposited_at : d \in T}
<1>a. Times \in SUBSET Nat /\ Times # {}
  BY SendableFacts
<1>1. PICK t \in Times : \A u \in Times : t <= u
  <2> HIDE DEF Times
  <2>. QED  BY <1>a, LeastElement
<1> DEFINE First == {d \in T : d.deposited_at = t}
           Digests == {Digest(d) : d \in First}
<1>b. Digests \in SUBSET Nat /\ Digests # {}
  BY <1>1, SendableFacts
<1>2. PICK g \in Digests : \A h \in Digests : g <= h
  <2> HIDE DEF Digests
  <2>. QED  BY <1>b, LeastElement
<1>3. PICK d \in First : Digest(d) = g
  BY <1>2
<1>4. d \in T
  OBVIOUS
<1>5. ASSUME NEW e \in T \ {d}
      PROVE  Older(d, e)
  <2>1. /\ d.deposited_at \in Nat /\ e.deposited_at \in Nat
        /\ Digest(d) \in Nat /\ Digest(e) \in Nat
        /\ ~ (d.deposited_at = e.deposited_at /\ Digest(d) = Digest(e))
    BY <1>4, SendableFacts
  <2>2. d.deposited_at <= e.deposited_at
    BY <1>1
  <2>3. d.deposited_at = e.deposited_at => Digest(d) <= Digest(e)
    BY <1>2, <1>3
  <2>. QED  BY <2>1, <2>2, <2>3 DEF Older
<1>. QED  BY <1>4, <1>5 DEF OldestStored

(* The recursion of evict_until_room_for has a function that satisfies it.  *)
States == [deposits : SUBSET Sendable, total : Nat]

LEMMA OneEvictedState ==
    \A s \in States : OneEvicted(s) \in States
<1> TAKE s \in States
<1>1. CASE s.deposits = {}
  BY <1>1 DEF OneEvicted
<1>2. CASE s.deposits # {}
  <2> DEFINE d == OldestStored(s.deposits)
  <2>1. d \in Sendable
    BY <1>2, OldestExists DEF States
  <2> HIDE DEF d
  <2>2. SizeOf(d.envelope) \in Nat /\ s.total \in Nat
    BY <2>1, SendableFacts DEF States
  <2>3. Reduced(s.total, d) \in Nat
    BY <2>2 DEF Reduced
  <2>. QED  BY <1>2, <2>3 DEF OneEvicted, States, d
<1>. QED  BY <1>1, <1>2

LEMMA EvictedSteps ==
    ASSUME deposits \in SUBSET Sendable, total_bytes \in Nat
    PROVE  /\ Evicted[0] = [deposits |-> deposits, total |-> total_bytes]
           /\ \A k \in Nat : /\ Evicted[k] \in States
                             /\ Evicted[k + 1] = OneEvicted(Evicted[k])
<1> DEFINE base == [deposits |-> deposits, total |-> total_bytes]
           G == [s \in States |-> OneEvicted(s)]
           IsEvicted(f) == f = [k \in Nat |-> IF k = 0 THEN base
                                              ELSE OneEvicted(f[k - 1])]
<1>1. base \in States /\ G \in [States -> States]
  BY OneEvictedState DEF States
<1>2. PICK f \in [Nat -> States] : f[0] = base /\ \A k \in Nat : f[k + 1] = G[f[k]]
  <2> HIDE DEF base, G
  <2>. QED  BY <1>1, IterationExists
<1>3. IsEvicted(f)
  <2>1. \A k \in Nat : f[k] = IF k = 0 THEN base ELSE OneEvicted(f[k - 1])
    <3> SUFFICES ASSUME NEW k \in Nat, k # 0
                 PROVE  f[k] = OneEvicted(f[k - 1])
      BY <1>2
    <3>1. k - 1 \in Nat /\ (k - 1) + 1 = k
      OBVIOUS
    <3>2. f[k] = G[f[k - 1]] /\ f[k - 1] \in States
      BY <1>2, <3>1
    <3>. QED  BY <3>2
  <2> HIDE DEF base
  <2>2. f = [k \in Nat |-> f[k]]
    BY <1>2
  <2>. QED  BY <2>1, <2>2
<1>4. IsEvicted(Evicted)
  <2>1. Evicted = CHOOSE g : IsEvicted(g)
    BY DEF Evicted
  <2> HIDE DEF IsEvicted
  <2>. QED  BY <1>3, <2>1
<1>5. /\ Evicted[0] = base
      /\ \A k \in Nat : Evicted[k + 1] = OneEvicted(Evicted[k])
  <2>1. \A k \in Nat : Evicted[k] = IF k = 0 THEN base ELSE OneEvicted(Evicted[k - 1])
    <3> HIDE DEF base
    <3>. QED  BY <1>4
  <2>2. \A k \in Nat : k + 1 \in Nat /\ k + 1 # 0 /\ (k + 1) - 1 = k
    OBVIOUS
  <2> HIDE DEF base
  <2>. QED  BY <2>1, <2>2
<1>6. Nat \subseteq {k \in Nat : Evicted[k] \in States}
  <2> DEFINE K == {k \in Nat : Evicted[k] \in States}
  <2>1. 0 \in K
    BY <1>1, <1>5
  <2>2. \A k \in Nat : k \in K => k + 1 \in K
    BY <1>5, OneEvictedState
  <2> HIDE DEF K
  <2>3. Nat \subseteq K
    BY <2>1, <2>2, NatInductionOnSets
  <2>. QED  BY <2>3 DEF K
<1>. QED  BY <1>5, <1>6

(* What the invariant says of a state of the store.                         *)
Counted(s) ==
    /\ s.deposits \in SUBSET Sendable /\ IsFiniteSet(s.deposits)
    /\ s.total \in Nat /\ Bytes(s.deposits) <= s.total

(* Sums of deposits that can arrive.                                        *)
LEMMA BytesOfSendable ==
    ASSUME NEW T \in SUBSET Sendable, IsFiniteSet(T)
    PROVE  /\ Bytes(T) \in Nat
           /\ \A d \in T : /\ Bytes(T) = StoredSize(d) + Bytes(T \ {d})
                           /\ Bytes(T \ {d}) \in Nat
           /\ \A d \in Sendable : /\ IsFiniteSet(T \cup {d})
                                  /\ Bytes(T \cup {d}) \in Nat
                                  /\ Bytes(T \cup {d}) <= Bytes(T) + StoredSize(d)
<1>1. ASSUME NEW U \in SUBSET Sendable, IsFiniteSet(U)
      PROVE  /\ Bytes(U) \in Nat
             /\ \A d \in U : Bytes(U) = StoredSize(d) + Bytes(U \ {d})
  <2>1. \A d \in U : StoredSize(d) \in Nat
    BY SendableFacts
  <2>. QED  BY <1>1, <2>1, BytesRemove
<1>2. ASSUME NEW d \in T
      PROVE  Bytes(T \ {d}) \in Nat
  <2>1. IsFiniteSet(T \ {d}) /\ T \ {d} \in SUBSET Sendable
    BY FS_RemoveElement
  <2>. QED  BY <1>1, <2>1
<1>3. ASSUME NEW d \in Sendable
      PROVE  /\ IsFiniteSet(T \cup {d})
             /\ Bytes(T \cup {d}) \in Nat
             /\ Bytes(T \cup {d}) <= Bytes(T) + StoredSize(d)
  <2>1. IsFiniteSet(T \cup {d}) /\ T \cup {d} \in SUBSET Sendable
    BY FS_AddElement
  <2>2. Bytes(T \cup {d}) \in Nat /\ Bytes(T) \in Nat /\ StoredSize(d) \in Nat
    BY <1>1, <2>1, SendableFacts
  <2>3. CASE d \in T
    <3>1. T \cup {d} = T
      BY <2>3
    <3>2. Bytes(T \cup {d}) = Bytes(T)
      BY <3>1, Zenon
    <3>3. Bytes(T) <= Bytes(T) + StoredSize(d)
      BY <2>2
    <3>. QED  BY <2>1, <2>2, <3>2, <3>3
  <2>4. CASE d \notin T
    <3>1. (T \cup {d}) \ {d} = T
      BY <2>4
    <3>2. Bytes(T \cup {d}) = StoredSize(d) + Bytes(T)
      BY <1>1, <2>1, <3>1
    <3>. QED  BY <2>1, <2>2, <3>2
  <2>. QED  BY <2>3, <2>4
<1>. QED  BY <1>1, <1>2, <1>3

(* Taking one out keeps the counter above what is stored, though it comes   *)
(* down by the envelope's length only, and not below zero.                  *)
LEMMA RemovalCounted ==
    ASSUME NEW s, Counted(s), NEW d \in s.deposits
    PROVE  /\ s.deposits \ {d} \in SUBSET Sendable
           /\ IsFiniteSet(s.deposits \ {d})
           /\ Reduced(s.total, d) \in Nat
           /\ Bytes(s.deposits \ {d}) <= Reduced(s.total, d)
           /\ Bytes(s.deposits \ {d}) <= Bytes(s.deposits)
<1> DEFINE T == s.deposits \ {d}
<1>1. d \in Sendable /\ T \in SUBSET Sendable /\ IsFiniteSet(T)
  BY FS_RemoveElement DEF Counted
<1>2. /\ Bytes(s.deposits) = StoredSize(d) + Bytes(T)
      /\ Bytes(T) \in Nat /\ Bytes(s.deposits) \in Nat
  BY BytesOfSendable DEF Counted
<1>3. /\ SizeOf(d.envelope) \in Nat /\ StoredSize(d) \in Nat
      /\ SizeOf(d.envelope) <= StoredSize(d)
  BY <1>1, SendableFacts
<1>4. s.total \in Nat /\ Bytes(s.deposits) <= s.total
  BY DEF Counted
<1> HIDE DEF T
<1>5. Reduced(s.total, d) \in Nat /\ Bytes(T) <= Reduced(s.total, d)
  BY <1>2, <1>3, <1>4 DEF Reduced
<1>6. Bytes(T) <= Bytes(s.deposits)
  BY <1>2, <1>3
<1>. QED  BY <1>1, <1>5, <1>6 DEF T

(* The store as it is.                                                      *)
Store == [deposits |-> deposits, total |-> total_bytes]

(* The oldest are gone, in order, and no more than were asked for.          *)
EvictedInOrder(k, s) ==
    /\ Counted(s)
    /\ s.deposits \subseteq deposits
    /\ Bytes(s.deposits) <= Bytes(deposits)
    /\ k <= Cardinality(deposits) => Cardinality(s.deposits) = Cardinality(deposits) - k
    /\ \A gone \in deposits \ s.deposits, kept \in s.deposits : Older(gone, kept)

LEMMA EvictionInOrder ==
    ASSUME Counted(Store)
    PROVE  \A k \in Nat : EvictedInOrder(k, Evicted[k])
<1> DEFINE K == {k \in Nat : EvictedInOrder(k, Evicted[k])}
<1>0. /\ deposits \in SUBSET Sendable /\ IsFiniteSet(deposits) /\ total_bytes \in Nat
      /\ Cardinality(deposits) \in Nat /\ Bytes(deposits) \in Nat
  BY FS_CardinalityType, BytesOfSendable DEF Counted, Store
<1>1. /\ Evicted[0] = Store
      /\ \A k \in Nat : Evicted[k] \in States /\ Evicted[k + 1] = OneEvicted(Evicted[k])
  BY <1>0, EvictedSteps DEF Store
<1>2. 0 \in K
  BY <1>0, <1>1 DEF EvictedInOrder, Store
<1>3. ASSUME NEW k \in Nat, EvictedInOrder(k, Evicted[k])
      PROVE  EvictedInOrder(k + 1, Evicted[k + 1])
  <2>0. PICK s : s = Evicted[k]
    OBVIOUS
  <2>1. EvictedInOrder(k, s) /\ Evicted[k + 1] = OneEvicted(s)
    BY <1>1, <1>3, <2>0
  <2>2. CASE s.deposits = {}
    <3>1. Cardinality(s.deposits) = 0
      BY <2>2, FS_EmptySet
    <3>2. ~ (k + 1 <= Cardinality(deposits))
      BY <1>0, <2>1, <3>1 DEF EvictedInOrder
    <3>3. OneEvicted(s) = s
      BY <2>2 DEF OneEvicted
    <3>. QED  BY <2>1, <3>2, <3>3 DEF EvictedInOrder
  <2>3. CASE s.deposits # {}
    <3>0. PICK d : d = OldestStored(s.deposits)
      OBVIOUS
    <3>a. s.deposits \in SUBSET Sendable
      BY <2>1 DEF EvictedInOrder, Counted
    <3>1. d \in s.deposits /\ \A e \in s.deposits \ {d} : Older(d, e)
      BY <2>3, <3>0, <3>a, OldestExists
    <3>2. PICK r : r = OneEvicted(s)
      OBVIOUS
    <3>3. r = [deposits |-> s.deposits \ {d}, total |-> Reduced(s.total, d)]
      BY <2>3, <3>0, <3>2 DEF OneEvicted
    <3>4. Counted(s)
      BY <2>1 DEF EvictedInOrder
    <3>5. Counted(r) /\ Bytes(r.deposits) <= Bytes(s.deposits)
      <4>1. /\ s.deposits \ {d} \in SUBSET Sendable
            /\ IsFiniteSet(s.deposits \ {d})
            /\ Reduced(s.total, d) \in Nat
            /\ Bytes(s.deposits \ {d}) <= Reduced(s.total, d)
            /\ Bytes(s.deposits \ {d}) <= Bytes(s.deposits)
        BY <3>1, <3>4, RemovalCounted
      <4>2. r.deposits = s.deposits \ {d} /\ r.total = Reduced(s.total, d)
        BY <3>3
      <4>. QED  BY <4>1, <4>2 DEF Counted
    <3>6. Bytes(r.deposits) \in Nat /\ Bytes(s.deposits) \in Nat
      BY <3>4, <3>5, BytesOfSendable DEF Counted
    <3>7. Bytes(r.deposits) <= Bytes(deposits)
      BY <1>0, <2>1, <3>5, <3>6 DEF EvictedInOrder
    <3>8. k + 1 <= Cardinality(deposits) =>
             Cardinality(r.deposits) = Cardinality(deposits) - (k + 1)
      <4>1. /\ Cardinality(s.deposits) \in Nat
            /\ Cardinality(s.deposits \ {d}) = Cardinality(s.deposits) - 1
        BY <3>1, <3>4, FS_RemoveElement, FS_CardinalityType DEF Counted
      <4>2. r.deposits = s.deposits \ {d}
        BY <3>3
      <4>. QED  BY <1>0, <2>1, <4>1, <4>2 DEF EvictedInOrder
    <3>9. ASSUME NEW gone \in deposits \ r.deposits, NEW kept \in r.deposits
          PROVE  Older(gone, kept)
      <4>1. r.deposits = s.deposits \ {d}
        BY <3>3
      <4>2. CASE gone = d
        BY <3>1, <4>1, <4>2
      <4>3. CASE gone # d
        BY <2>1, <4>1, <4>3 DEF EvictedInOrder
      <4>. QED  BY <4>2, <4>3
    <3>10. r.deposits \subseteq deposits
      BY <2>1, <3>3 DEF EvictedInOrder
    <3>. QED  BY <2>1, <3>2, <3>5, <3>7, <3>8, <3>9, <3>10 DEF EvictedInOrder
  <2>. QED  BY <2>2, <2>3
<1>4. Nat \subseteq K
  <2>1. \A k \in Nat : k \in K => k + 1 \in K
    BY <1>3
  <2> HIDE DEF K
  <2>. QED  BY <1>2, <2>1, NatInductionOnSets
<1>. QED  BY <1>4

(* evict_until_room_for stops, with room or with nothing left.              *)
LEMMA EvictionsStop ==
    ASSUME Counted(Store), NEW added \in Nat
    PROVE  /\ Evictions(added) \in 0..Cardinality(deposits)
           /\ \/ Evictions(added) = Cardinality(deposits)
              \/ Room(Evicted[Evictions(added)].total, added)
<1> DEFINE all == Cardinality(deposits)
           Enough(k) == k = all \/ Room(Evicted[k].total, added)
           Counts == {k \in 0..all : Enough(k)}
           Stops(k) == /\ Enough(k)
                       /\ \A i \in 0..(k - 1) : ~ Room(Evicted[i].total, added)
<1>1. all \in Nat
  BY FS_CardinalityType DEF Counted, Store
<1>2. all \in Counts /\ Counts \in SUBSET Nat
  BY <1>1
<1>3. PICK k \in Counts : \A i \in Counts : k <= i
  <2> HIDE DEF Counts
  <2>. QED  BY <1>2, LeastElement
<1>4. k \in 0..all /\ Stops(k)
  <2>1. ASSUME NEW i \in 0..(k - 1)
        PROVE  ~ Room(Evicted[i].total, added)
    <3>1. i \in 0..all /\ ~ (k <= i)
      BY <1>1, <1>3
    <3>2. i \notin Counts
      BY <1>3, <3>1
    <3>. QED  BY <3>1, <3>2
  <2>. QED  BY <1>3, <2>1
<1>5. Evictions(added) = CHOOSE n \in 0..all : Stops(n)
  BY DEF Evictions
<1> HIDE DEF Stops, all
<1>6. Evictions(added) \in 0..all /\ Stops(Evictions(added))
  BY <1>4, <1>5
<1>. QED  BY <1>6 DEF Stops, all

-----------------------------------------------------------------------------
(* The invariant *)

(* Every deposit can have been sent, and the counter never falls below the  *)
(* bytes of what is stored: it goes up by at least as much as the store and *)
(* comes down by no more.                                                   *)
MailboxInv == Counted(Store) /\ WithinBudget

InBudget(ds) == Bytes(ds) <= Limit \/ Cardinality(ds) = 1

LEMMA BudgetIsInBudget == WithinBudget <=> InBudget(deposits)
  BY DEF WithinBudget, InBudget, StoredBytes, Bytes

(* A step to a state of the store that is counted and fits.                 *)
LEMMA NextStore ==
    ASSUME NEW s, Counted(s), InBudget(s.deposits),
           deposits' = s.deposits, total_bytes' = s.total
    PROVE  MailboxInv'
<1>1. Counted(Store)'
  <2>1. Store' = [deposits |-> s.deposits, total |-> s.total]
    BY DEF Store
  <2>2. Store'.deposits = s.deposits /\ Store'.total = s.total
    BY <2>1
  <2>. QED  BY <2>2 DEF Counted
<1>2. WithinBudget'
  <2>1. InBudget(deposits')
    OBVIOUS
  <2>. QED  BY <2>1 DEF WithinBudget, InBudget, StoredBytes, Bytes
<1>. QED  BY <1>1, <1>2 DEF MailboxInv

(* What an arrival leaves after its first evictions still fits.             *)
LEMMA FitsEvicted ==
    ASSUME MailboxInv, NEW k \in Nat, k # 0, k <= Cardinality(deposits)
    PROVE  Counted(Evicted[k]) /\ InBudget(Evicted[k].deposits)
<1>0. PICK s : s = Evicted[k]
  OBVIOUS
<1>1. EvictedInOrder(k, s) /\ Counted(Store) /\ InBudget(deposits)
  BY <1>0, EvictionInOrder, BudgetIsInBudget DEF MailboxInv
<1>2. /\ Bytes(s.deposits) \in Nat /\ Bytes(deposits) \in Nat
      /\ Cardinality(deposits) \in Nat /\ Limit \in Nat
  BY <1>1, BytesOfSendable, FS_CardinalityType, MailboxAssumption
     DEF EvictedInOrder, Counted, Store
<1>3. CASE Bytes(deposits) <= Limit
  BY <1>0, <1>1, <1>2, <1>3 DEF EvictedInOrder, InBudget
<1>4. CASE Cardinality(deposits) = 1
  <2>1. Cardinality(s.deposits) = 0 /\ IsFiniteSet(s.deposits)
    BY <1>1, <1>2, <1>4 DEF EvictedInOrder, Counted
  <2>2. s.deposits = {}
    BY <2>1, FS_EmptySet
  <2>3. Bytes(s.deposits) = 0
    BY <2>1, <2>2, BytesUnfold
  <2>. QED  BY <1>0, <1>1, <1>2, <2>3 DEF EvictedInOrder, InBudget
<1>. QED  BY <1>1, <1>3, <1>4 DEF InBudget

(* What an arrival leaves with itself in fits: there was room, or all the   *)
(* others are gone.                                                         *)
LEMMA FitsAccepted ==
    ASSUME MailboxInv, NEW d \in Sendable
    PROVE  LET s == Evicted[Evictions(StoredSize(d))]
           IN  /\ EvictedInOrder(Evictions(StoredSize(d)), s)
               /\ InBudget(s.deposits \cup {d})
               /\ s.deposits \cup {d} \in SUBSET Sendable
               /\ IsFiniteSet(s.deposits \cup {d})
               /\ s.total + StoredSize(d) \in Nat
               /\ Bytes(s.deposits \cup {d}) <= s.total + StoredSize(d)
<1> DEFINE added == StoredSize(d)
           k == Evictions(added)
<1>1. Counted(Store) /\ added \in Nat
  BY SendableFacts DEF MailboxInv
<1> HIDE DEF added
<1>2. /\ k \in 0..Cardinality(deposits) /\ Cardinality(deposits) \in Nat
      /\ k = Cardinality(deposits) \/ Room(Evicted[k].total, added)
  BY <1>1, EvictionsStop, FS_CardinalityType DEF Counted, Store
<1> HIDE DEF k
<1>3. PICK s : s = Evicted[k]
  OBVIOUS
<1>4. EvictedInOrder(k, s)
  BY <1>1, <1>2, <1>3, EvictionInOrder
<1>5. /\ s.deposits \in SUBSET Sendable /\ IsFiniteSet(s.deposits)
      /\ s.total \in Nat /\ Bytes(s.deposits) <= s.total
  BY <1>4 DEF EvictedInOrder, Counted
<1> DEFINE all == s.deposits \cup {d}
<1>6. /\ all \in SUBSET Sendable /\ IsFiniteSet(all) /\ Bytes(s.deposits) \in Nat
      /\ Bytes(all) \in Nat /\ Bytes(all) <= Bytes(s.deposits) + added
  BY <1>5, BytesOfSendable DEF added
<1> HIDE DEF all
<1>7. s.total + added \in Nat /\ Bytes(all) <= s.total + added
  BY <1>1, <1>5, <1>6
<1>8. InBudget(all)
  <2>1. CASE Room(s.total, added)
    <3>1. s.total + added <= Limit /\ Limit \in Nat
      BY <2>1, MailboxAssumption DEF Room
    <3>. QED  BY <1>6, <1>7, <3>1 DEF InBudget
  <2>2. CASE k = Cardinality(deposits)
    <3>1. Cardinality(s.deposits) = 0
      BY <1>2, <1>4, <2>2 DEF EvictedInOrder
    <3>2. s.deposits = {}
      BY <1>5, <3>1, FS_EmptySet
    <3>3. all = {d}
      BY <3>2 DEF all
    <3>4. Cardinality(all) = 1
      BY <3>3, FS_Singleton
    <3>. QED  BY <3>4 DEF InBudget
  <2>. QED  BY <1>2, <1>3, <2>1, <2>2
<1>. QED  BY <1>3, <1>4, <1>6, <1>7, <1>8 DEF all, k, added

-----------------------------------------------------------------------------
(* Steps *)

LEMMA DepositStep ==
    ASSUME MailboxInv, NEW d \in Sendable, Deposit(d)
    PROVE  /\ MailboxInv'
           /\ \A gone \in deposits \ deposits',
                 kept \in (deposits \cap deposits') \ {d} : Older(gone, kept)
           /\ d \in deposits'
<1> DEFINE k == Evictions(StoredSize(d))
<1>0. PICK s : s = Evicted[k]
  OBVIOUS
<1>1. deposits' = s.deposits \cup {d} /\ total_bytes' = s.total + StoredSize(d)
  BY <1>0 DEF Deposit
<1>2. /\ EvictedInOrder(k, s)
      /\ InBudget(s.deposits \cup {d})
      /\ s.deposits \cup {d} \in SUBSET Sendable
      /\ IsFiniteSet(s.deposits \cup {d})
      /\ s.total + StoredSize(d) \in Nat
      /\ Bytes(s.deposits \cup {d}) <= s.total + StoredSize(d)
  <2> HIDE DEF k
  <2>1. LET r == Evicted[Evictions(StoredSize(d))]
        IN  /\ EvictedInOrder(Evictions(StoredSize(d)), r)
            /\ InBudget(r.deposits \cup {d})
            /\ r.deposits \cup {d} \in SUBSET Sendable
            /\ IsFiniteSet(r.deposits \cup {d})
            /\ r.total + StoredSize(d) \in Nat
            /\ Bytes(r.deposits \cup {d}) <= r.total + StoredSize(d)
    BY FitsAccepted
  <2>. QED  BY <1>0, <2>1 DEF k
<1> HIDE DEF k
<1>3. MailboxInv'
  <2>1. PICK r : r = [deposits |-> s.deposits \cup {d}, total |-> s.total + StoredSize(d)]
    OBVIOUS
  <2>2. r.deposits = s.deposits \cup {d} /\ r.total = s.total + StoredSize(d)
    BY <2>1
  <2>3. Counted(r) /\ InBudget(r.deposits)
    BY <1>2, <2>2 DEF Counted
  <2>4. deposits' = r.deposits /\ total_bytes' = r.total
    BY <1>1, <2>2
  <2>. QED  BY <2>3, <2>4, NextStore
<1>4. \A gone \in deposits \ s.deposits, kept \in s.deposits : Older(gone, kept)
  BY <1>2 DEF EvictedInOrder
<1>. QED  BY <1>1, <1>3, <1>4

(* The first k evictions alone: of an arrival that is cut, or of a sweep.   *)
LEMMA EvictionStep ==
    ASSUME MailboxInv, NEW k \in Nat, k # 0, k <= Cardinality(deposits),
           deposits' = Evicted[k].deposits, total_bytes' = Evicted[k].total
    PROVE  /\ MailboxInv'
           /\ \A gone \in deposits \ deposits', kept \in deposits \cap deposits' :
                 Older(gone, kept)
<1>0. PICK s : s = Evicted[k]
  OBVIOUS
<1>1. Counted(s) /\ InBudget(s.deposits) /\ EvictedInOrder(k, s)
  BY <1>0, FitsEvicted, EvictionInOrder DEF MailboxInv
<1>2. deposits' = s.deposits /\ total_bytes' = s.total
  BY <1>0
<1>3. MailboxInv'
  BY <1>1, <1>2, NextStore
<1>. QED  BY <1>1, <1>2, <1>3 DEF EvictedInOrder

LEMMA CutStep ==
    ASSUME MailboxInv, NEW d \in Sendable, DepositCut(d)
    PROVE  /\ MailboxInv'
           /\ \A gone \in deposits \ deposits', kept \in deposits \cap deposits' :
                 Older(gone, kept)
<1>1. PICK k \in 1..Evictions(StoredSize(d)) :
          deposits' = Evicted[k].deposits /\ total_bytes' = Evicted[k].total
  BY DEF DepositCut
<1>2. /\ Evictions(StoredSize(d)) \in 0..Cardinality(deposits)
      /\ Cardinality(deposits) \in Nat
  BY SendableFacts, EvictionsStop, FS_CardinalityType DEF MailboxInv, Counted, Store
<1>3. k \in Nat /\ k # 0 /\ k <= Cardinality(deposits)
  BY <1>2
<1>. QED  BY <1>1, <1>3, EvictionStep

(* What an arrival does, whole or cut.                                      *)
LEMMA ArrivalStep ==
    ASSUME MailboxInv, Arrival
    PROVE  /\ MailboxInv'
           /\ \/ deposits' = {}
              \/ \E arrival \in deposits' :
                    \A gone \in deposits \ deposits',
                       kept \in (deposits \cap deposits') \ {arrival} : Older(gone, kept)
<1>1. PICK d \in Sendable : Deposit(d) \/ DepositCut(d)
  BY DEF Arrival, Sendable
<1>2. CASE Deposit(d)
  BY <1>2, DepositStep
<1>3. CASE DepositCut(d)
  BY <1>3, CutStep
<1>. QED  BY <1>1, <1>2, <1>3

LEMMA RemoveStep ==
    ASSUME MailboxInv, NEW d \in deposits, Remove(d)
    PROVE  MailboxInv'
<1>1. PICK r : r = [deposits |-> deposits \ {d}, total |-> Reduced(total_bytes, d)]
  OBVIOUS
<1>2. Counted(Store) /\ Store.deposits = deposits /\ Store.total = total_bytes
  BY DEF MailboxInv, Store
<1>3. PICK s : s = Store
  OBVIOUS
<1>4. /\ s.deposits \ {d} \in SUBSET Sendable
      /\ IsFiniteSet(s.deposits \ {d})
      /\ Reduced(s.total, d) \in Nat
      /\ Bytes(s.deposits \ {d}) <= Reduced(s.total, d)
      /\ Bytes(s.deposits \ {d}) <= Bytes(s.deposits)
  BY <1>2, <1>3, RemovalCounted
<1>5. /\ r.deposits = s.deposits \ {d} /\ r.total = Reduced(s.total, d)
      /\ s.deposits = deposits
  BY <1>1, <1>2, <1>3
<1>6. Counted(r)
  BY <1>4, <1>5 DEF Counted
<1>7. InBudget(r.deposits)
  <2>1. /\ Bytes(r.deposits) <= Bytes(deposits) /\ Bytes(r.deposits) \in Nat
        /\ Bytes(deposits) \in Nat /\ Limit \in Nat
    BY <1>2, <1>3, <1>4, <1>5, <1>6, BytesOfSendable, MailboxAssumption DEF Counted
  <2>2. CASE Bytes(deposits) <= Limit
    BY <2>1, <2>2 DEF InBudget
  <2>3. CASE Cardinality(deposits) = 1
    <3>1. /\ Cardinality(deposits \ {d}) = Cardinality(deposits) - 1
          /\ IsFiniteSet(deposits \ {d})
      BY <1>2, FS_RemoveElement DEF Counted
    <3>2. r.deposits = {}
      BY <1>5, <2>3, <3>1, FS_EmptySet
    <3>3. Bytes(r.deposits) = 0
      BY <1>6, <3>2, BytesUnfold DEF Counted
    <3>. QED  BY <2>1, <3>3 DEF InBudget
  <2>. QED  BY <2>2, <2>3, BudgetIsInBudget DEF MailboxInv, InBudget
<1>8. deposits' = r.deposits /\ total_bytes' = r.total
  BY <1>1, <1>2 DEF Remove
<1>. QED  BY <1>6, <1>7, <1>8, NextStore

LEMMA ExpiryStep ==
    ASSUME MailboxInv, EvictExpired
    PROVE  MailboxInv'
<1> DEFINE E == {d \in deposits : Expired(d)}
<1>1. /\ IsFiniteSet(deposits) /\ E \subseteq deposits
  BY DEF MailboxInv, Counted, Store
<1>2. ExpiredCount \in Nat /\ ExpiredCount <= Cardinality(deposits)
  BY <1>1, FS_Subset, FS_CardinalityType DEF ExpiredCount
<1>3. ExpiredCount # 0
  BY <1>2 DEF EvictExpired
<1>. QED  BY <1>2, <1>3, EvictionStep DEF EvictExpired

-----------------------------------------------------------------------------
(* Theorems *)

LEMMA InitIInv == MailboxInit => MailboxInv
<1> SUFFICES ASSUME MailboxInit PROVE MailboxInv
  OBVIOUS
<1>1. deposits = {} /\ total_bytes = 0 /\ IsFiniteSet({}) /\ Bytes({}) = 0
  BY FS_EmptySet, BytesUnfold DEF MailboxInit
<1>2. Counted(Store)
  BY <1>1 DEF Counted, Store
<1>3. InBudget(deposits)
  BY <1>1, MailboxAssumption DEF InBudget
<1>. QED  BY <1>2, <1>3, BudgetIsInBudget DEF MailboxInv

LEMMA NextIInv == MailboxInv /\ [MailboxNext]_mailbox_vars => MailboxInv'
<1> SUFFICES ASSUME MailboxInv, [MailboxNext]_mailbox_vars PROVE MailboxInv'
  OBVIOUS
<1>1. CASE Arrival
  BY <1>1, ArrivalStep
<1>2. ASSUME deposits' = deposits, total_bytes' = total_bytes PROVE MailboxInv'
  <2>1. /\ Counted(Store) /\ InBudget(Store.deposits)
        /\ deposits' = Store.deposits /\ total_bytes' = Store.total
    BY <1>2, BudgetIsInBudget DEF MailboxInv, Store
  <2>2. PICK s : s = Store
    OBVIOUS
  <2>. QED  BY <2>1, <2>2, NextStore
<1>3. CASE EvictExpired
  BY <1>3, ExpiryStep
<1>4. CASE \E d \in deposits : Remove(d)
  BY <1>4, RemoveStep
<1>. QED  BY <1>1, <1>2, <1>3, <1>4 DEF MailboxNext, Tick, mailbox_vars

(* The counter never falls below what is stored, and the cache stays within *)
(* its budget unless one deposit alone exceeds it, whatever arrives, twice  *)
(* or cut short, and whatever is removed or expires (mailbox.rs:300-378).   *)
THEOREM MailboxInvHolds == MailboxSpec => []MailboxInv
<1>. QED  BY InitIInv, NextIInv, PTL DEF MailboxSpec

(* The budget is kept (mailbox.rs:300-305, 334-338).                        *)
THEOREM BudgetKept == MailboxSpec => []WithinBudget
<1>1. MailboxInv => WithinBudget
  BY DEF MailboxInv
<1>. QED  BY <1>1, MailboxInvHolds, PTL

(* What an arrival evicts is older than all that stays (mailbox.rs:226-231).*)
THEOREM OldestFirst == MailboxSpec => OldestGivenUpFirst
<1> DEFINE A == arrivals' = arrivals \/ deposits \subseteq deposits' \/ deposits' = {} \/
                \E arrival \in deposits' :
                   \A gone \in deposits \ deposits',
                      kept \in (deposits \cap deposits') \ {arrival} : Older(gone, kept)
<1>1. MailboxInv /\ [MailboxNext]_mailbox_vars => [A]_mailbox_vars
  <2> SUFFICES ASSUME MailboxInv, [MailboxNext]_mailbox_vars PROVE A
    OBVIOUS
  <2>1. CASE Arrival
    BY <2>1, ArrivalStep
  <2>2. CASE ~ Arrival
    <3>1. arrivals' = arrivals
      BY <2>2 DEF MailboxNext, Tick, EvictExpired, Remove, mailbox_vars
    <3>. QED  BY <3>1
  <2>. QED  BY <2>1, <2>2
<1>2. OldestGivenUpFirst <=> [][A]_mailbox_vars
  BY DEF OldestGivenUpFirst
<1>3. MailboxSpec => []MailboxInv /\ [][MailboxNext]_mailbox_vars
  BY MailboxInvHolds, PTL DEF MailboxSpec
<1>. QED  BY <1>1, <1>2, <1>3, PTL
===============================================================================
