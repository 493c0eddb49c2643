-------------------------- MODULE ChatDeliveryProofs --------------------------
(***************************************************************************)
(* Proofs about ChatDelivery: one step is under way per peer, a message    *)
(* saved in an outbox stays there until it reached the peer's node, and an *)
(* envelope is shown once.                                                 *)
(***************************************************************************)
EXTENDS ChatDelivery, DataFacts

-----------------------------------------------------------------------------
(* Counting events, and who is owed which                                   *)

(* How many of the events es are of one of the kinds, about peer v.         *)
Count(es, v, kinds) ==
    Cardinality({i \in DOMAIN es : es[i].kind \in kinds /\ es[i].peer = v})

Fly(F, u, v) == {e \in F : e.from = u /\ e.to = v}

Bit(b) == IF b THEN 1 ELSE 0

EndKinds == {"delivered", "failed"}
CardKinds == {"blobFetched", "blobFetchFailed"}
WakeKinds == {"connected", "dialFailed"}

(* What a state promises about the envelopes, acknowledgements and events   *)
(* of a peer, as numbers.                                                   *)
Owed(st, fly, ack, ends, fetch, cards, dial, wakes) ==
    /\ fly + ack + ends = Bit(st = "sendingEnvelope")
    /\ fetch + cards = Bit(st = "fetchingCard")
    /\ st = "dialing" => dial + wakes > 0

(* OneStepPerPeer, of any states S, envelopes F, acknowledgements A, events *)
(* E, fetches X and dials D.                                                *)
Steps(S, F, A, E, X, D) ==
    \A u, v \in User :
        Owed(S[u][v], Cardinality(Fly(F, u, v)), Bit(<<u, v>> \in A),
             Count(E[u], v, EndKinds), Bit(<<u, v>> \in X),
             Count(E[u], v, CardKinds), Bit(<<u, v>> \in D),
             Count(E[u], v, WakeKinds))

-----------------------------------------------------------------------------
(* What the variables hold                                                  *)

Pairs == {p \in User \X User : p[1] # p[2]}

IsEnvelope(e) ==
    /\ e = [from |-> e.from, to |-> e.to, kind |-> e.kind, initial |-> e.initial,
            secret |-> e.secret, number |-> e.number, message |-> e.message]
    /\ <<e.from, e.to>> \in Pairs
    /\ e.kind \in {"handshake", "continuing"}

IsEvent(u, ev) ==
    /\ ev = Event(ev.kind, ev.peer, ev.data)
    /\ ev.peer \in User \ {u}
    /\ ev.kind \in EndKinds \cup CardKinds \cup WakeKinds
                   \cup {"disconnected", "envelope", "retrieved"}
    /\ ev.kind = "blobFetched" => ev.data = ContactCard(ev.peer)
    /\ ev.kind = "envelope" =>
          IsEnvelope(ev.data) /\ ev.data.from = ev.peer /\ ev.data.to = u
    /\ ev.kind = "retrieved" =>
          /\ IsEnvelope(ev.data) /\ {ev.data.from, ev.data.to} = {u, ev.peer}
          /\ ev.data.kind = "continuing"

IsBox(u, box) == IsSeq(box) /\ \A i \in DOMAIN box : box[i].to \in User \ {u}

IsSession(s) == s = [secret |-> s.secret, sent |-> s.sent, got |-> s.got]

IsApp(u, t) ==
    \/ t = NoTask
    \/ /\ t.at = "loaded"
       /\ t = [at |-> "loaded", to |-> t.to, box |-> t.box, id |-> t.id]
       /\ t.to \in User \ {u} /\ IsBox(u, t.box)
    \/ /\ t.at = "read"
       /\ t = [at |-> "read", to |-> t.to, r |-> t.r]
       /\ t.to \in User \ {u}
       /\ t.r = [item |-> t.r.item, conn |-> t.r.conn, session |-> t.r.session]
       /\ IsSession(t.r.session)

IsPump(u, t) ==
    \/ t = NoTask
    \/ /\ t = [at |-> "delivered", to |-> t.to, box |-> t.box]
       /\ t.to \in User \ {u} /\ IsBox(u, t.box)
    \/ t = [at |-> "opened", envelope |-> t.envelope]

AllStates == [User -> [User -> States]]

AllSeqs(E) == E = [u \in User |-> E[u]] /\ \A u \in User : IsSeq(E[u])

BoxesOk(B) == B = [u \in User |-> B[u]] /\ \A u \in User : IsBox(u, B[u])

SessionsOk(s) ==
    /\ s = [u \in User |-> [v \in User |-> s[u][v]]]
    /\ \A u, v \in User : IsSession(s[u][v])

EventsOk(E) ==
    /\ AllSeqs(E)
    /\ \A u \in User : \A i \in DOMAIN E[u] : IsEvent(u, E[u][i])

AppsOk(t) == t = [u \in User |-> t[u]] /\ \A u \in User : IsApp(u, t[u])
PumpsOk(t) == t = [u \in User |-> t[u]] /\ \A u \in User : IsPump(u, t[u])

(* What attemptSend can change.                                             *)
SendingOk(S, s, D, X, F) ==
    /\ S \in AllStates /\ SessionsOk(s)
    /\ D \subseteq Pairs /\ X \subseteq Pairs
    /\ IsFiniteSet(F) /\ \A e \in F : IsEnvelope(e)

TypeInv ==
    /\ BoxesOk(outbox) /\ SendingOk(states, session, dials, fetches, flying)
    /\ card = [u \in User |-> ContactCard(u)]
    /\ AppsOk(app) /\ PumpsOk(pump) /\ EventsOk(events)
    /\ DOMAIN links = {{t[1], t[2]} : t \in Talks}
    /\ acks \subseteq Pairs
    /\ \A e \in mailbox : IsEnvelope(e) /\ e.kind = "continuing"

StepInv == TypeInv /\ Steps(states, flying, acks, events, fetches, dials)

-----------------------------------------------------------------------------
(* What is queued, and what is shown, while no two threads of a user meet   *)

SoleThread(u) == ~ Overlapped(u)

(* The envelope e carries the first item for its receiver in the box.       *)
Waits(box, e) == HasItem(box, e.to) /\ Item(box, e.to).id = e.message

(* The first item for v in the box is one of those that reached their node. *)
FrontIn(box, v, arr) == HasItem(box, v) /\ Item(box, v).id \in arr

(* What the network says of u's outbox, what the pump holds of it, and what *)
(* the app does.                                                            *)
QueueNet(u, box, F, A, es, arr) ==
    /\ \A e \in F : e.from = u => Waits(box, e)
    /\ \A v \in User : <<u, v>> \in A => FrontIn(box, v, arr)
    /\ \A i \in DOMAIN es : es[i].kind = "delivered" => FrontIn(box, es[i].peer, arr)

QueuePump(t, box, st, arr) ==
    t.at = "delivered" =>
        t.box = box /\ FrontIn(box, t.to, arr) /\ st[t.to] = "none"

QueueApp(t, box) ==
    /\ t.at = "loaded" => t.box = box
    /\ t.at = "read" => HasItem(box, t.to) /\ t.r.item = Item(box, t.to)

QueueInv(u) ==
    /\ QueueNet(u, outbox[u], flying, acks, events[u], arrived)
    /\ QueuePump(pump[u], outbox[u], states[u], arrived)
    /\ QueueApp(app[u], outbox[u])

-----------------------------------------------------------------------------
(* Sequences of events *)

(* One more at the end, item by item.                                       *)
LEMMA AppendItems ==
    ASSUME NEW es, IsSeq(es), NEW ev
    PROVE  /\ IsSeq(Append(es, ev))
           /\ DOMAIN es = 1..Len(es) /\ Len(es) \in Nat
           /\ DOMAIN Append(es, ev) = 1..(Len(es) + 1)
           /\ \A i \in DOMAIN es : Append(es, ev)[i] = es[i]
           /\ Append(es, ev)[Len(es) + 1] = ev
<1> DEFINE S == Items(es) \cup {ev}
           fs == Append(es, ev)
<1>1. es \in Seq(S)
  <2>1. es \in Seq(Items(es)) /\ Items(es) \subseteq S
    BY DEF IsSeq
  <2> HIDE DEF S
  <2>. QED  BY <2>1
<1>2. ev \in S
  OBVIOUS
<1>3. /\ fs \in Seq(S) /\ Len(es) \in Nat /\ DOMAIN es = 1..Len(es)
      /\ Len(fs) = Len(es) + 1 /\ DOMAIN fs = 1..(Len(es) + 1)
      /\ \A i \in 1..Len(es) : fs[i] = es[i]
      /\ fs[Len(es) + 1] = ev
  <2> HIDE DEF S
  <2>. QED  BY <1>1, <1>2
<1>4. Items(fs) = S
  <2> HIDE DEF fs
  <2>1. \A i \in 1..Len(fs) : fs[i] \in S
    BY <1>3 DEF Items
  <2>2. \A i \in 1..Len(es) : i \in 1..Len(fs) /\ fs[i] = es[i]
    BY <1>3
  <2>3. Len(es) + 1 \in 1..Len(fs)
    BY <1>3
  <2>. QED  BY <1>3, <2>1, <2>2, <2>3 DEF Items
<1>. QED
  BY <1>3, <1>4 DEF IsSeq

(* The first one off, item by item.                                         *)
LEMMA TailItems ==
    ASSUME NEW es, IsSeq(es), es # << >>
    PROVE  /\ IsSeq(Tail(es)) /\ Head(es) = es[1] /\ 1 \in DOMAIN es
           /\ DOMAIN es = 1..Len(es) /\ Len(es) \in Nat
           /\ DOMAIN Tail(es) = 1..(Len(es) - 1)
           /\ \A i \in DOMAIN Tail(es) : i + 1 \in DOMAIN es /\ Tail(es)[i] = es[i + 1]
<1> DEFINE S == Items(es)
<1>1. es \in Seq(S)
  BY DEF IsSeq
<1> HIDE DEF S
<1>2. /\ Head(es) = es[1] /\ Len(es) \in Nat /\ Len(es) > 0
      /\ DOMAIN es = 1..Len(es)
      /\ DOMAIN Tail(es) = 1..(Len(es) - 1)
      /\ \A i \in 1..(Len(es) - 1) : Tail(es)[i] = es[i + 1]
  BY <1>1
<1>. QED
  BY <1>2, TailSeq

(* Where the events of a kind about v stand.                                *)
Places(es, v, kinds) == {i \in DOMAIN es : es[i].kind \in kinds /\ es[i].peer = v}

(* The places of some events are a finite part of the queue's.              *)
LEMMA PlacesFinite ==
    ASSUME NEW es, IsSeq(es), NEW v, NEW kinds
    PROVE  /\ Places(es, v, kinds) \in SUBSET (DOMAIN es)
           /\ IsFiniteSet(Places(es, v, kinds))
           /\ Count(es, v, kinds) = Cardinality(Places(es, v, kinds))
           /\ Count(es, v, kinds) \in Nat
           /\ Count(es, v, kinds) = 0 <=> Places(es, v, kinds) = {}
<1>1. DOMAIN es = 1..Len(es) /\ Len(es) \in Nat
  BY DEF IsSeq
<1>2. IsFiniteSet(DOMAIN es)
  BY <1>1, FS_Interval
<1>3. Places(es, v, kinds) \in SUBSET (DOMAIN es)
  BY DEF Places
<1>4. IsFiniteSet(Places(es, v, kinds))
  BY <1>2, <1>3, FS_Subset
<1>5. Count(es, v, kinds) = Cardinality(Places(es, v, kinds))
  BY DEF Count, Places
<1>. QED
  BY <1>3, <1>4, <1>5, FS_CardinalityType, FS_EmptySet

(* An event appended is one more of its kind and peer.                      *)
LEMMA CountAppend ==
    ASSUME NEW es, IsSeq(es), NEW ev, NEW v, NEW kinds
    PROVE  Count(Append(es, ev), v, kinds)
             = Count(es, v, kinds) + Bit(ev.kind \in kinds /\ ev.peer = v)
<1> DEFINE fs == Append(es, ev)
           P == Places(es, v, kinds)
           Q == Places(fs, v, kinds)
           n == Len(es) + 1
<1>1. /\ IsSeq(fs) /\ DOMAIN es = 1..Len(es) /\ Len(es) \in Nat
      /\ DOMAIN fs = 1..n /\ \A i \in DOMAIN es : fs[i] = es[i]
      /\ fs[n] = ev
  BY AppendItems
<1>2. /\ IsFiniteSet(P) /\ Count(es, v, kinds) = Cardinality(P)
      /\ Count(fs, v, kinds) = Cardinality(Q)
      /\ Cardinality(P) \in Nat
  BY <1>1, PlacesFinite
<1>3. n \notin P
  BY <1>1 DEF Places
<1>4. CASE ev.kind \in kinds /\ ev.peer = v
  <2>1. Q = P \cup {n}
    <3> HIDE DEF fs
    <3>. QED  BY <1>1, <1>4 DEF Places
  <2>2. Cardinality(Q) = Cardinality(P) + 1
    <3> HIDE DEF P, Q, n
    <3>. QED  BY <1>2, <1>3, <2>1, FS_AddElement
  <2>. QED  BY <1>2, <1>4, <2>2 DEF Bit
<1>5. CASE ~ (ev.kind \in kinds /\ ev.peer = v)
  <2>1. Q = P
    <3> HIDE DEF fs
    <3>. QED  BY <1>1, <1>5 DEF Places
  <2>. QED  BY <1>2, <1>5, <2>1 DEF Bit
<1>. QED  BY <1>4, <1>5

(* The first event taken is one less of its kind and peer.                  *)
LEMMA CountTail ==
    ASSUME NEW es, IsSeq(es), es # << >>, NEW v, NEW kinds
    PROVE  Count(es, v, kinds)
             = Count(Tail(es), v, kinds)
                 + Bit(Head(es).kind \in kinds /\ Head(es).peer = v)
<1> DEFINE fs == Tail(es)
           P == Places(es, v, kinds)
           Q == Places(fs, v, kinds)
           shift == [i \in Q |-> i + 1]
<1>1. /\ IsSeq(fs) /\ Head(es) = es[1] /\ 1 \in DOMAIN es
      /\ DOMAIN es = 1..Len(es) /\ Len(es) \in Nat
      /\ DOMAIN fs = 1..(Len(es) - 1)
      /\ \A i \in DOMAIN fs : i + 1 \in DOMAIN es /\ fs[i] = es[i + 1]
  BY TailItems
<1>2. /\ IsFiniteSet(P) /\ Count(es, v, kinds) = Cardinality(P)
      /\ IsFiniteSet(Q) /\ Count(fs, v, kinds) = Cardinality(Q)
      /\ Cardinality(P) \in Nat
  BY <1>1, PlacesFinite
<1>3. \A i \in Q : i \in Int /\ i + 1 \in P \ {1}
  <2> HIDE DEF fs
  <2>. QED  BY <1>1 DEF Places
<1>4. \A j \in P \ {1} : j - 1 \in Q /\ (j - 1) + 1 = j
  <2> HIDE DEF fs
  <2>1. \A j \in P \ {1} : j - 1 \in DOMAIN fs /\ (j - 1) + 1 = j
    BY <1>1 DEF Places
  <2>. QED  BY <1>1, <2>1 DEF Places
<1>5. shift \in Injection(Q, P \ {1}) /\ shift \in Surjection(Q, P \ {1})
  <2> HIDE DEF P, Q
  <2>1. shift \in [Q -> P \ {1}]
    BY <1>3
  <2>2. \A i, j \in Q : shift[i] = shift[j] => i = j
    BY <1>3
  <2>3. \A j \in P \ {1} : \E i \in Q : shift[i] = j
    BY <1>4
  <2>. QED  BY <2>1, <2>2, <2>3 DEF Injection, Surjection, IsInjective
<1>6. Cardinality(P \ {1}) = Cardinality(Q)
  <2> HIDE DEF P, Q, shift
  <2>. QED  BY <1>2, <1>5, FS_Surjection
<1>7. Cardinality(P \ {1}) = IF 1 \in P THEN Cardinality(P) - 1 ELSE Cardinality(P)
  <2> HIDE DEF P
  <2>. QED  BY <1>2, FS_RemoveElement
<1>8. 1 \in P <=> Head(es).kind \in kinds /\ Head(es).peer = v
  BY <1>1 DEF Places
<1> HIDE DEF P, Q
<1>. QED
  BY <1>2, <1>6, <1>7, <1>8 DEF Bit

-----------------------------------------------------------------------------
(* One step per peer, piece by piece                                        *)

(* What Owed counts are natural numbers.                                    *)
LEMMA Numbers ==
    ASSUME NEW F, IsFiniteSet(F), NEW E, AllSeqs(E)
    PROVE  /\ \A u, v : /\ IsFiniteSet(Fly(F, u, v))
                        /\ Cardinality(Fly(F, u, v)) \in Nat
                        /\ Cardinality(Fly(F, u, v)) = 0 <=> Fly(F, u, v) = {}
           /\ \A u \in User : \A v, kinds : Count(E[u], v, kinds) \in Nat
           /\ \A b : Bit(b) \in {0, 1}
<1>1. ASSUME NEW u, NEW v
      PROVE  /\ IsFiniteSet(Fly(F, u, v))
             /\ Cardinality(Fly(F, u, v)) \in Nat
             /\ Cardinality(Fly(F, u, v)) = 0 <=> Fly(F, u, v) = {}
  <2>1. Fly(F, u, v) \in SUBSET F
    BY DEF Fly
  <2>. QED  BY <2>1, FS_Subset, FS_CardinalityType, FS_EmptySet
<1>2. \A u \in User : \A v, kinds : Count(E[u], v, kinds) \in Nat
  BY PlacesFinite DEF AllSeqs
<1>. QED  BY <1>1, <1>2 DEF Bit

(* An envelope sent is one more on its way, unless it was on it already.    *)
LEMMA FlyAdd ==
    ASSUME NEW F, IsFiniteSet(F), NEW e, NEW u, NEW v
    PROVE  Cardinality(Fly(F \cup {e}, u, v)) = Cardinality(Fly(F, u, v))
             + Bit(e \notin F /\ e.from = u /\ e.to = v)
<1>1. Fly(F, u, v) \in SUBSET F
  BY DEF Fly
<1>2. IsFiniteSet(Fly(F, u, v)) /\ Cardinality(Fly(F, u, v)) \in Nat
  BY <1>1, FS_Subset, FS_CardinalityType
<1>3. CASE e \notin F /\ e.from = u /\ e.to = v
  <2>1. Fly(F \cup {e}, u, v) = Fly(F, u, v) \cup {e} /\ e \notin Fly(F, u, v)
    BY <1>3 DEF Fly
  <2>2. Cardinality(Fly(F, u, v) \cup {e}) = Cardinality(Fly(F, u, v)) + 1
    BY <1>2, <2>1, FS_AddElement
  <2>3. Bit(e \notin F /\ e.from = u /\ e.to = v) = 1
    BY <1>3 DEF Bit
  <2>. QED  BY <2>1, <2>2, <2>3
<1>4. CASE ~ (e \notin F /\ e.from = u /\ e.to = v)
  <2>1. Fly(F \cup {e}, u, v) = Fly(F, u, v)
    BY <1>4 DEF Fly
  <2>. QED  BY <1>2, <1>4, <2>1 DEF Bit
<1>. QED  BY <1>3, <1>4

(* An envelope taken from those on their way is one less.                   *)
LEMMA FlyRemove ==
    ASSUME NEW F, IsFiniteSet(F), NEW e \in F, NEW u, NEW v
    PROVE  Cardinality(Fly(F, u, v)) = Cardinality(Fly(F \ {e}, u, v))
             + Bit(e.from = u /\ e.to = v)
<1>1. Fly(F, u, v) \in SUBSET F
  BY DEF Fly
<1>2. IsFiniteSet(Fly(F, u, v)) /\ Cardinality(Fly(F, u, v)) \in Nat
  BY <1>1, FS_Subset, FS_CardinalityType
<1>3. CASE e.from = u /\ e.to = v
  <2>1. Fly(F \ {e}, u, v) = Fly(F, u, v) \ {e} /\ e \in Fly(F, u, v)
    BY <1>3 DEF Fly
  <2>2. Cardinality(Fly(F, u, v) \ {e}) = Cardinality(Fly(F, u, v)) - 1
    BY <1>2, <2>1, FS_RemoveElement
  <2>3. Bit(e.from = u /\ e.to = v) = 1
    BY <1>3 DEF Bit
  <2>4. Cardinality(Fly(F \ {e}, u, v)) = Cardinality(Fly(F, u, v)) - 1
    BY <2>1, <2>2
  <2>. QED  BY <1>2, <2>3, <2>4
<1>4. CASE ~ (e.from = u /\ e.to = v)
  <2>1. Fly(F \ {e}, u, v) = Fly(F, u, v)
    BY <1>4 DEF Fly
  <2>. QED  BY <1>2, <1>4, <2>1 DEF Bit
<1>. QED  BY <1>3, <1>4

(* Owed, as arithmetic.                                                     *)
LEMMA OwedFacts ==
    ASSUME NEW st, NEW fly \in Nat, NEW ack \in Nat, NEW ends \in Nat,
           NEW fetch \in Nat, NEW cards \in Nat, NEW dial \in Nat,
           NEW wakes \in Nat,
           Owed(st, fly, ack, ends, fetch, cards, dial, wakes)
    PROVE  /\ st # "sendingEnvelope" => fly = 0 /\ ack = 0 /\ ends = 0
           /\ st # "fetchingCard" => fetch = 0 /\ cards = 0
           /\ st = "sendingEnvelope" => fly + ack + ends = 1
           /\ st = "fetchingCard" => fetch + cards = 1
           /\ st = "dialing" => dial + wakes > 0
  BY DEF Owed, Bit

(* The same, of the variables.                                              *)
LEMMA StepsOwed ==
    ASSUME NEW S, NEW F, IsFiniteSet(F), NEW E, AllSeqs(E),
           NEW A, NEW X, NEW D, Steps(S, F, A, E, X, D),
           NEW u \in User, NEW v \in User
    PROVE  /\ S[u][v] # "sendingEnvelope" =>
                 /\ Cardinality(Fly(F, u, v)) = 0 /\ Fly(F, u, v) = {}
                 /\ <<u, v>> \notin A /\ Count(E[u], v, EndKinds) = 0
           /\ S[u][v] # "fetchingCard" =>
                 <<u, v>> \notin X /\ Count(E[u], v, CardKinds) = 0
           /\ S[u][v] = "sendingEnvelope" =>
                 Cardinality(Fly(F, u, v)) + Bit(<<u, v>> \in A)
                   + Count(E[u], v, EndKinds) = 1
           /\ S[u][v] = "fetchingCard" =>
                 Bit(<<u, v>> \in X) + Count(E[u], v, CardKinds) = 1
           /\ S[u][v] = "dialing" =>
                 Bit(<<u, v>> \in D) + Count(E[u], v, WakeKinds) > 0
<1>1. Owed(S[u][v], Cardinality(Fly(F, u, v)), Bit(<<u, v>> \in A),
           Count(E[u], v, EndKinds), Bit(<<u, v>> \in X),
           Count(E[u], v, CardKinds), Bit(<<u, v>> \in D),
           Count(E[u], v, WakeKinds))
  BY DEF Steps
<1>2. /\ Cardinality(Fly(F, u, v)) \in Nat
      /\ Cardinality(Fly(F, u, v)) = 0 => Fly(F, u, v) = {}
      /\ Count(E[u], v, EndKinds) \in Nat /\ Count(E[u], v, CardKinds) \in Nat
      /\ Count(E[u], v, WakeKinds) \in Nat
  BY Numbers
<1>3. /\ Bit(<<u, v>> \in A) \in Nat /\ Bit(<<u, v>> \in X) \in Nat
      /\ Bit(<<u, v>> \in D) \in Nat
      /\ Bit(<<u, v>> \in A) = 0 => <<u, v>> \notin A
      /\ Bit(<<u, v>> \in X) = 0 => <<u, v>> \notin X
  BY DEF Bit
<1>. QED  BY <1>1, <1>2, <1>3, OwedFacts

(* The three steps attemptSend begins, for a peer that no step is under way *)
(* for.                                                                     *)
LEMMA StepsBegin ==
    ASSUME NEW S \in AllStates, NEW F, IsFiniteSet(F), NEW E, AllSeqs(E),
           NEW A, NEW X, NEW D, Steps(S, F, A, E, X, D),
           NEW u \in User, NEW v \in User, S[u][v] = "none"
    PROVE  /\ Steps([S EXCEPT ![u] = [@ EXCEPT ![v] = "dialing"]],
                    F, A, E, X, D \cup {<<u, v>>})
           /\ Steps([S EXCEPT ![u] = [@ EXCEPT ![v] = "fetchingCard"]],
                    F, A, E, X \cup {<<u, v>>}, D)
           /\ \A e : e.from = u /\ e.to = v =>
                Steps([S EXCEPT ![u] = [@ EXCEPT ![v] = "sendingEnvelope"]],
                      F \cup {e}, A, E, X, D)
<1> DEFINE S2(s) == [S EXCEPT ![u] = [@ EXCEPT ![v] = s]]
<1>1. \A s : \A a, b \in User :
         S2(s)[a][b] = IF a = u /\ b = v THEN s ELSE S[a][b]
  BY DEF AllStates
<1>2. \A a, b \in User :
         Owed(S[a][b], Cardinality(Fly(F, a, b)), Bit(<<a, b>> \in A),
              Count(E[a], b, EndKinds), Bit(<<a, b>> \in X),
              Count(E[a], b, CardKinds), Bit(<<a, b>> \in D),
              Count(E[a], b, WakeKinds))
  BY DEF Steps
<1>3. /\ \A a, b : Cardinality(Fly(F, a, b)) \in Nat
      /\ \A a \in User : \A b, kinds : Count(E[a], b, kinds) \in Nat
      /\ \A b : Bit(b) \in {0, 1}
  BY Numbers
<1>7. /\ Cardinality(Fly(F, u, v)) = 0 /\ Fly(F, u, v) = {}
      /\ <<u, v>> \notin A /\ Count(E[u], v, EndKinds) = 0
      /\ <<u, v>> \notin X /\ Count(E[u], v, CardKinds) = 0
  BY StepsOwed
<1> HIDE DEF S2
<1>4. Steps(S2("dialing"), F, A, E, X, D \cup {<<u, v>>})
  <2> SUFFICES ASSUME NEW a \in User, NEW b \in User
               PROVE  Owed(S2("dialing")[a][b], Cardinality(Fly(F, a, b)),
                           Bit(<<a, b>> \in A), Count(E[a], b, EndKinds),
                           Bit(<<a, b>> \in X), Count(E[a], b, CardKinds),
                           Bit(<<a, b>> \in D \cup {<<u, v>>}),
                           Count(E[a], b, WakeKinds))
    BY DEF Steps
  <2>1. CASE a = u /\ b = v
    <3>1. Bit(<<a, b>> \in D \cup {<<u, v>>}) = 1 /\ S2("dialing")[a][b] = "dialing"
      BY <1>1, <2>1 DEF Bit
    <3>2. /\ Cardinality(Fly(F, a, b)) = 0 /\ Bit(<<a, b>> \in A) = 0
          /\ Count(E[a], b, EndKinds) = 0 /\ Bit(<<a, b>> \in X) = 0
          /\ Count(E[a], b, CardKinds) = 0 /\ Count(E[a], b, WakeKinds) \in Nat
      BY <1>3, <1>7, <2>1 DEF Bit
    <3>3. Bit("dialing" = "sendingEnvelope") = 0 /\ Bit("dialing" = "fetchingCard") = 0
      BY DEF Bit
    <3>4. \A m \in Nat : Owed("dialing", 0, 0, 0, 0, 0, 1, m)
      BY <3>3 DEF Owed
    <3>. QED  BY <3>1, <3>2, <3>4
  <2>2. CASE ~ (a = u /\ b = v)
    <3>1. <<a, b>> \in D \cup {<<u, v>>} <=> <<a, b>> \in D
      BY <2>2
    <3>. QED  BY <1>1, <1>2, <2>2, <3>1 DEF Owed, Bit
  <2>. QED  BY <2>1, <2>2
<1>5. Steps(S2("fetchingCard"), F, A, E, X \cup {<<u, v>>}, D)
  <2> SUFFICES ASSUME NEW a \in User, NEW b \in User
               PROVE  Owed(S2("fetchingCard")[a][b], Cardinality(Fly(F, a, b)),
                           Bit(<<a, b>> \in A), Count(E[a], b, EndKinds),
                           Bit(<<a, b>> \in X \cup {<<u, v>>}),
                           Count(E[a], b, CardKinds), Bit(<<a, b>> \in D),
                           Count(E[a], b, WakeKinds))
    BY DEF Steps
  <2>1. CASE a = u /\ b = v
    <3>1. Bit(<<a, b>> \in X \cup {<<u, v>>}) = 1
      BY <2>1 DEF Bit
    <3>. QED  BY <1>1, <1>3, <1>7, <2>1, <3>1 DEF Owed, Bit
  <2>2. CASE ~ (a = u /\ b = v)
    <3>1. <<a, b>> \in X \cup {<<u, v>>} <=> <<a, b>> \in X
      BY <2>2
    <3>. QED  BY <1>1, <1>2, <2>2, <3>1 DEF Owed, Bit
  <2>. QED  BY <2>1, <2>2
<1>6. ASSUME NEW e, e.from = u, e.to = v
      PROVE  Steps(S2("sendingEnvelope"), F \cup {e}, A, E, X, D)
  <2> SUFFICES ASSUME NEW a \in User, NEW b \in User
               PROVE  Owed(S2("sendingEnvelope")[a][b],
                           Cardinality(Fly(F \cup {e}, a, b)),
                           Bit(<<a, b>> \in A), Count(E[a], b, EndKinds),
                           Bit(<<a, b>> \in X), Count(E[a], b, CardKinds),
                           Bit(<<a, b>> \in D), Count(E[a], b, WakeKinds))
    BY DEF Steps
  <2>1. Cardinality(Fly(F \cup {e}, a, b)) = Cardinality(Fly(F, a, b))
          + Bit(e \notin F /\ e.from = a /\ e.to = b)
    BY FlyAdd
  <2>2. CASE a = u /\ b = v
    <3>1. Cardinality(Fly(F, a, b)) = 0 /\ Fly(F, a, b) = {}
      BY <1>7, <2>2
    <3>3. e \notin F
      BY <1>6, <2>2, <3>1 DEF Fly
    <3>4. Cardinality(Fly(F \cup {e}, a, b)) = 1
      BY <1>6, <2>1, <2>2, <3>1, <3>3 DEF Bit
    <3>. QED  BY <1>1, <1>3, <1>7, <2>2, <3>4 DEF Owed, Bit
  <2>3. CASE ~ (a = u /\ b = v)
    <3>1. Cardinality(Fly(F \cup {e}, a, b)) = Cardinality(Fly(F, a, b))
      BY <1>3, <1>6, <2>1, <2>3 DEF Bit
    <3>. QED  BY <1>1, <1>2, <2>3, <3>1 DEF Owed, Bit
  <2>. QED  BY <2>2, <2>3
<1>. QED  BY <1>4, <1>5, <1>6 DEF S2

(* A step that moves an envelope, or what became of it, along.              *)
LEMMA StepsSame ==
    ASSUME NEW S, NEW F, NEW E, NEW A, NEW X, NEW D, Steps(S, F, A, E, X, D),
           NEW F2, NEW E2, NEW A2, NEW X2, NEW D2,
           \A u, v \in User :
             /\ Cardinality(Fly(F2, u, v)) + Bit(<<u, v>> \in A2)
                  + Count(E2[u], v, EndKinds)
                = Cardinality(Fly(F, u, v)) + Bit(<<u, v>> \in A)
                    + Count(E[u], v, EndKinds)
             /\ Bit(<<u, v>> \in X2) + Count(E2[u], v, CardKinds)
                = Bit(<<u, v>> \in X) + Count(E[u], v, CardKinds)
             /\ Bit(<<u, v>> \in D) + Count(E[u], v, WakeKinds) > 0
                => Bit(<<u, v>> \in D2) + Count(E2[u], v, WakeKinds) > 0
    PROVE  Steps(S, F2, A2, E2, X2, D2)
<1> SUFFICES ASSUME NEW u \in User, NEW v \in User
             PROVE  Owed(S[u][v], Cardinality(Fly(F2, u, v)), Bit(<<u, v>> \in A2),
                         Count(E2[u], v, EndKinds), Bit(<<u, v>> \in X2),
                         Count(E2[u], v, CardKinds), Bit(<<u, v>> \in D2),
                         Count(E2[u], v, WakeKinds))
  BY DEF Steps
<1>1. Owed(S[u][v], Cardinality(Fly(F, u, v)), Bit(<<u, v>> \in A),
           Count(E[u], v, EndKinds), Bit(<<u, v>> \in X),
           Count(E[u], v, CardKinds), Bit(<<u, v>> \in D),
           Count(E[u], v, WakeKinds))
  BY DEF Steps
<1>. QED  BY <1>1 DEF Owed

(* One event more, and one less.                                            *)
Told(E, u, ev) == [E EXCEPT ![u] = Append(@, ev)]
Taken(E, u) == [E EXCEPT ![u] = Tail(@)]

(* The events of E2 are those of E and ev, which is for u.                  *)
CountsMore(E, E2, u, ev) ==
    /\ \A kinds : ev.kind \in kinds =>
          Count(E2[u], ev.peer, kinds) = Count(E[u], ev.peer, kinds) + 1
    /\ \A a \in User : \A b, kinds :
          ~ (a = u /\ ev.kind \in kinds /\ ev.peer = b) =>
             Count(E2[a], b, kinds) = Count(E[a], b, kinds)

(* Telling a user an event changes the counts of that event only.           *)
LEMMA Enqueued ==
    ASSUME NEW E, AllSeqs(E), NEW u \in User, NEW ev
    PROVE  /\ AllSeqs(Told(E, u, ev))
           /\ \A a \in User : Told(E, u, ev)[a] = IF a = u THEN Append(E[a], ev) ELSE E[a]
           /\ CountsMore(E, Told(E, u, ev), u, ev)
<1>1. \A a \in User : Told(E, u, ev)[a] = IF a = u THEN Append(E[a], ev) ELSE E[a]
  BY DEF AllSeqs, Told
<1>2. AllSeqs(Told(E, u, ev))
  <2>1. Told(E, u, ev) = [a \in User |-> Told(E, u, ev)[a]]
    BY DEF AllSeqs, Told
  <2>2. \A a \in User : IsSeq(Told(E, u, ev)[a])
    BY <1>1, AppendItems DEF AllSeqs
  <2>. QED  BY <2>1, <2>2 DEF AllSeqs
<1>3. ASSUME NEW kinds, ev.kind \in kinds
      PROVE  Count(Told(E, u, ev)[u], ev.peer, kinds) = Count(E[u], ev.peer, kinds) + 1
  <2>1. Bit(ev.kind \in kinds /\ ev.peer = ev.peer) = 1
    BY <1>3 DEF Bit
  <2>. QED  BY <1>1, <2>1, CountAppend DEF AllSeqs
<1>4. ASSUME NEW a \in User, NEW b, NEW kinds,
             ~ (a = u /\ ev.kind \in kinds /\ ev.peer = b)
      PROVE  Count(Told(E, u, ev)[a], b, kinds) = Count(E[a], b, kinds)
  <2>1. CASE a = u
    <3>1. Bit(ev.kind \in kinds /\ ev.peer = b) = 0
      BY <1>4, <2>1 DEF Bit
    <3>2. Count(E[a], b, kinds) \in Nat
      BY PlacesFinite DEF AllSeqs
    <3>. QED  BY <1>1, <2>1, <3>1, <3>2, CountAppend DEF AllSeqs
  <2>2. CASE a # u
    BY <1>1, <2>2
  <2>. QED  BY <2>1, <2>2
<1>. QED  BY <1>1, <1>2, <1>3, <1>4 DEF CountsMore

(* Taking a user's first event changes the counts of that event only.       *)
LEMMA Dequeued ==
    ASSUME NEW E, AllSeqs(E), NEW u \in User, E[u] # << >>
    PROVE  /\ AllSeqs(Taken(E, u))
           /\ \A a \in User : Taken(E, u)[a] = IF a = u THEN Tail(E[a]) ELSE E[a]
           /\ \A kinds : Head(E[u]).kind \in kinds =>
                 Count(E[u], Head(E[u]).peer, kinds)
                   = Count(Taken(E, u)[u], Head(E[u]).peer, kinds) + 1
           /\ \A a \in User : \A b, kinds :
                 ~ (a = u /\ Head(E[u]).kind \in kinds /\ Head(E[u]).peer = b) =>
                    Count(E[a], b, kinds) = Count(Taken(E, u)[a], b, kinds)
<1>1. \A a \in User : Taken(E, u)[a] = IF a = u THEN Tail(E[a]) ELSE E[a]
  BY DEF AllSeqs, Taken
<1>2. AllSeqs(Taken(E, u))
  <2>1. Taken(E, u) = [a \in User |-> Taken(E, u)[a]]
    BY DEF AllSeqs, Taken
  <2>2. \A a \in User : IsSeq(Taken(E, u)[a])
    BY <1>1, TailItems DEF AllSeqs
  <2>. QED  BY <2>1, <2>2 DEF AllSeqs
<1> DEFINE ev == Head(E[u])
<1>3. ASSUME NEW kinds, ev.kind \in kinds
      PROVE  Count(E[u], ev.peer, kinds) = Count(Taken(E, u)[u], ev.peer, kinds) + 1
  <2>1. Bit(ev.kind \in kinds /\ ev.peer = ev.peer) = 1
    BY <1>3 DEF Bit
  <2>. QED  BY <1>1, <2>1, CountTail DEF AllSeqs
<1>4. ASSUME NEW a \in User, NEW b, NEW kinds,
             ~ (a = u /\ ev.kind \in kinds /\ ev.peer = b)
      PROVE  Count(E[a], b, kinds) = Count(Taken(E, u)[a], b, kinds)
  <2>1. CASE a = u
    <3>1. Bit(ev.kind \in kinds /\ ev.peer = b) = 0
      BY <1>4, <2>1 DEF Bit
    <3>2. Count(Taken(E, u)[a], b, kinds) \in Nat
      BY <1>2, PlacesFinite DEF AllSeqs
    <3>. QED  BY <1>1, <2>1, <3>1, <3>2, CountTail DEF AllSeqs
  <2>2. CASE a # u
    BY <1>1, <2>2
  <2>. QED  BY <2>1, <2>2
<1>. QED  BY <1>1, <1>2, <1>3, <1>4

(* The pump takes an event: one that answers a step ends it.                *)
LEMMA StepsTaken ==
    ASSUME NEW S \in AllStates, NEW F, IsFiniteSet(F), NEW E, AllSeqs(E),
           NEW A, NEW X, NEW D, Steps(S, F, A, E, X, D),
           NEW u \in User, E[u] # << >>, NEW v \in User, v = Head(E[u]).peer
    PROVE  /\ AllSeqs(Taken(E, u))
           /\ Head(E[u]).kind \notin EndKinds \cup CardKinds \cup WakeKinds =>
                Steps(S, F, A, Taken(E, u), X, D)
           /\ Head(E[u]).kind \in EndKinds =>
                /\ S[u][v] = "sendingEnvelope"
                /\ Fly(F, u, v) = {} /\ <<u, v>> \notin A
                /\ Count(Taken(E, u)[u], v, EndKinds) = 0
                /\ Steps([S EXCEPT ![u] = [@ EXCEPT ![v] = "none"]],
                         F, A, Taken(E, u), X, D)
           /\ Head(E[u]).kind \in CardKinds =>
                /\ S[u][v] = "fetchingCard"
                /\ Steps([S EXCEPT ![u] = [@ EXCEPT ![v] = "none"]],
                         F, A, Taken(E, u), X, D)
           /\ Head(E[u]).kind \in WakeKinds =>
                IF S[u][v] = "dialing"
                THEN Steps([S EXCEPT ![u] = [@ EXCEPT ![v] = "none"]],
                           F, A, Taken(E, u), X, D)
                ELSE Steps(S, F, A, Taken(E, u), X, D)
<1> DEFINE E2 == Taken(E, u)
           kind == Head(E[u]).kind
           S2 == [S EXCEPT ![u] = [@ EXCEPT ![v] = "none"]]
<1>1. /\ AllSeqs(E2)
      /\ \A kinds : kind \in kinds => Count(E[u], v, kinds) = Count(E2[u], v, kinds) + 1
      /\ \A kinds : kind \notin kinds => Count(E[u], v, kinds) = Count(E2[u], v, kinds)
      /\ \A a, b \in User : ~ (a = u /\ b = v) =>
            \A kinds : Count(E[a], b, kinds) = Count(E2[a], b, kinds)
  <2>1. /\ AllSeqs(E2)
        /\ \A kinds : kind \in kinds =>
              Count(E[u], Head(E[u]).peer, kinds) = Count(E2[u], Head(E[u]).peer, kinds) + 1
        /\ \A a \in User : \A b, kinds :
              ~ (a = u /\ kind \in kinds /\ Head(E[u]).peer = b) =>
                 Count(E[a], b, kinds) = Count(E2[a], b, kinds)
    BY Dequeued
  <2> HIDE DEF kind, E2
  <2>2. \A kinds : kind \notin kinds => Count(E[u], v, kinds) = Count(E2[u], v, kinds)
    BY <2>1
  <2>3. ASSUME NEW a \in User, NEW b \in User, ~ (a = u /\ b = v), NEW kinds
        PROVE  Count(E[a], b, kinds) = Count(E2[a], b, kinds)
    BY <2>1, <2>3
  <2>. QED  BY <2>1, <2>2, <2>3
<1>2. \A a, b \in User : S2[a][b] = IF a = u /\ b = v THEN "none" ELSE S[a][b]
  BY DEF AllStates
<1>3. /\ \A a, b : Cardinality(Fly(F, a, b)) \in Nat
      /\ \A a, b : Cardinality(Fly(F, a, b)) = 0 <=> Fly(F, a, b) = {}
      /\ \A a \in User : \A b, kinds : Count(E2[a], b, kinds) \in Nat
      /\ \A b : Bit(b) \in {0, 1}
  BY <1>1, Numbers
<1>4. \A a, b \in User :
         Owed(S[a][b], Cardinality(Fly(F, a, b)), Bit(<<a, b>> \in A),
              Count(E[a], b, EndKinds), Bit(<<a, b>> \in X),
              Count(E[a], b, CardKinds), Bit(<<a, b>> \in D),
              Count(E[a], b, WakeKinds))
  BY DEF Steps
<1>5. /\ S[u][v] # "sendingEnvelope" => Count(E[u], v, EndKinds) = 0
      /\ S[u][v] # "fetchingCard" => Count(E[u], v, CardKinds) = 0
  <2>1. /\ S[u][v] # "sendingEnvelope" =>
              /\ Cardinality(Fly(F, u, v)) = 0 /\ Fly(F, u, v) = {}
              /\ <<u, v>> \notin A /\ Count(E[u], v, EndKinds) = 0
        /\ S[u][v] # "fetchingCard" =>
              <<u, v>> \notin X /\ Count(E[u], v, CardKinds) = 0
    <3> HIDE DEF kind, E2, S2
    <3>. QED  BY StepsOwed
  <2>. QED  BY <2>1
<1> HIDE DEF S2, kind, E2
<1>6. \A a, b \in User : ~ (a = u /\ b = v) =>
         Owed(S[a][b], Cardinality(Fly(F, a, b)), Bit(<<a, b>> \in A),
              Count(E2[a], b, EndKinds), Bit(<<a, b>> \in X),
              Count(E2[a], b, CardKinds), Bit(<<a, b>> \in D),
              Count(E2[a], b, WakeKinds))
  <2> TAKE a, b \in User
  <2> HAVE ~ (a = u /\ b = v)
  <2>3. \A kinds : Count(E[a], b, kinds) = Count(E2[a], b, kinds)
    BY <1>1
  <2>1. /\ Count(E2[a], b, EndKinds) = Count(E[a], b, EndKinds)
        /\ Count(E2[a], b, CardKinds) = Count(E[a], b, CardKinds)
        /\ Count(E2[a], b, WakeKinds) = Count(E[a], b, WakeKinds)
    BY <2>3
  <2>2. Owed(S[a][b], Cardinality(Fly(F, a, b)), Bit(<<a, b>> \in A),
             Count(E[a], b, EndKinds), Bit(<<a, b>> \in X),
             Count(E[a], b, CardKinds), Bit(<<a, b>> \in D),
             Count(E[a], b, WakeKinds))
    BY <1>4
  <2>. QED  BY <2>1, <2>2
<1>7. ASSUME kind \notin EndKinds \cup CardKinds
      PROVE  /\ Count(E2[u], v, EndKinds) = Count(E[u], v, EndKinds)
             /\ Count(E2[u], v, CardKinds) = Count(E[u], v, CardKinds)
  BY <1>1, <1>7
<1>8. ASSUME kind \notin EndKinds \cup CardKinds,
             \/ kind \notin WakeKinds
             \/ S[u][v] # "dialing"
      PROVE  Steps(S, F, A, E2, X, D)
  <2>1. S[u][v] = "dialing" => Count(E2[u], v, WakeKinds) = Count(E[u], v, WakeKinds)
    BY <1>1, <1>8
  <2>2. Owed(S[u][v], Cardinality(Fly(F, u, v)), Bit(<<u, v>> \in A),
             Count(E2[u], v, EndKinds), Bit(<<u, v>> \in X),
             Count(E2[u], v, CardKinds), Bit(<<u, v>> \in D),
             Count(E2[u], v, WakeKinds))
    BY <1>4, <1>7, <1>8, <2>1 DEF Owed
  <2>. QED  BY <1>6, <2>2 DEF Steps
<1>9. ASSUME Owed("none", Cardinality(Fly(F, u, v)), Bit(<<u, v>> \in A),
                  Count(E2[u], v, EndKinds), Bit(<<u, v>> \in X),
                  Count(E2[u], v, CardKinds), Bit(<<u, v>> \in D),
                  Count(E2[u], v, WakeKinds))
      PROVE  Steps(S2, F, A, E2, X, D)
  <2> SUFFICES ASSUME NEW a \in User, NEW b \in User
               PROVE  Owed(S2[a][b], Cardinality(Fly(F, a, b)), Bit(<<a, b>> \in A),
                           Count(E2[a], b, EndKinds), Bit(<<a, b>> \in X),
                           Count(E2[a], b, CardKinds), Bit(<<a, b>> \in D),
                           Count(E2[a], b, WakeKinds))
    BY DEF Steps
  <2>1. CASE a = u /\ b = v
    BY <1>2, <1>9, <2>1
  <2>2. CASE ~ (a = u /\ b = v)
    <3>1. S2[a][b] = S[a][b]
      BY <1>2, <2>2
    <3>. QED  BY <1>6, <2>2, <3>1
  <2>. QED  BY <2>1, <2>2
<1>10. ASSUME kind \in EndKinds
       PROVE  /\ S[u][v] = "sendingEnvelope"
              /\ Fly(F, u, v) = {} /\ <<u, v>> \notin A
              /\ Count(E2[u], v, EndKinds) = 0
              /\ Steps(S2, F, A, E2, X, D)
  <2>1. /\ Count(E[u], v, EndKinds) = Count(E2[u], v, EndKinds) + 1
        /\ Count(E[u], v, CardKinds) = Count(E2[u], v, CardKinds)
    <3>1. kind \notin CardKinds
      BY <1>10 DEF EndKinds, CardKinds
    <3>. QED  BY <1>1, <1>10, <3>1
  <2>2. S[u][v] = "sendingEnvelope"
    <3>1. Count(E2[u], v, EndKinds) \in Nat
      BY <1>3
    <3>2. Count(E[u], v, EndKinds) # 0
      BY <2>1, <3>1
    <3>. QED  BY <1>5, <3>2
  <2>3. /\ Cardinality(Fly(F, u, v)) + Bit(<<u, v>> \in A) + Count(E[u], v, EndKinds) = 1
        /\ <<u, v>> \notin X /\ Count(E[u], v, CardKinds) = 0
    BY <2>2, StepsOwed
  <2>4. /\ Cardinality(Fly(F, u, v)) = 0 /\ Bit(<<u, v>> \in A) = 0
        /\ Count(E2[u], v, EndKinds) = 0
    <3>1. /\ Cardinality(Fly(F, u, v)) \in Nat /\ Bit(<<u, v>> \in A) \in Nat
          /\ Count(E2[u], v, EndKinds) \in Nat
      BY <1>3 DEF Bit
    <3>. QED  BY <2>1, <2>3, <3>1
  <2>5. Fly(F, u, v) = {} /\ <<u, v>> \notin A
    BY <1>3, <2>4 DEF Bit
  <2>6. Bit(<<u, v>> \in X) = 0 /\ Count(E2[u], v, CardKinds) = 0
    BY <2>1, <2>3 DEF Bit
  <2>. QED  BY <1>9, <2>2, <2>4, <2>5, <2>6 DEF Owed, Bit
<1>11. ASSUME kind \in CardKinds
       PROVE  S[u][v] = "fetchingCard" /\ Steps(S2, F, A, E2, X, D)
  <2>1. /\ Count(E[u], v, EndKinds) = Count(E2[u], v, EndKinds)
        /\ Count(E[u], v, CardKinds) = Count(E2[u], v, CardKinds) + 1
    <3>1. kind \notin EndKinds
      BY <1>11 DEF EndKinds, CardKinds
    <3>. QED  BY <1>1, <1>11, <3>1
  <2>2. S[u][v] = "fetchingCard"
    <3>1. Count(E2[u], v, CardKinds) \in Nat
      BY <1>3
    <3>2. Count(E[u], v, CardKinds) # 0
      BY <2>1, <3>1
    <3>. QED  BY <1>5, <3>2
  <2>3. /\ Bit(<<u, v>> \in X) + Count(E[u], v, CardKinds) = 1
        /\ Cardinality(Fly(F, u, v)) = 0 /\ <<u, v>> \notin A
        /\ Count(E[u], v, EndKinds) = 0
    BY <2>2, StepsOwed
  <2>4. Bit(<<u, v>> \in X) = 0 /\ Count(E2[u], v, CardKinds) = 0
    <3>1. Bit(<<u, v>> \in X) \in Nat /\ Count(E2[u], v, CardKinds) \in Nat
      BY <1>3
    <3>. QED  BY <2>1, <2>3, <3>1
  <2>5. Bit(<<u, v>> \in A) = 0 /\ Count(E2[u], v, EndKinds) = 0
    BY <2>1, <2>3 DEF Bit
  <2>. QED  BY <1>9, <2>2, <2>3, <2>4, <2>5 DEF Owed, Bit
<1>12. ASSUME kind \in WakeKinds
       PROVE  IF S[u][v] = "dialing" THEN Steps(S2, F, A, E2, X, D)
              ELSE Steps(S, F, A, E2, X, D)
  <2>1. kind \notin EndKinds \cup CardKinds
    BY <1>12 DEF EndKinds, CardKinds, WakeKinds
  <2>2. CASE S[u][v] = "dialing"
    <3>1. /\ Cardinality(Fly(F, u, v)) = 0 /\ <<u, v>> \notin A
          /\ Count(E[u], v, EndKinds) = 0
          /\ <<u, v>> \notin X /\ Count(E[u], v, CardKinds) = 0
      BY <2>2, StepsOwed
    <3>2. Bit(<<u, v>> \in A) = 0 /\ Bit(<<u, v>> \in X) = 0
      BY <3>1 DEF Bit
    <3>3. Count(E2[u], v, EndKinds) = 0 /\ Count(E2[u], v, CardKinds) = 0
      BY <1>7, <2>1, <3>1
    <3>. QED  BY <1>9, <2>2, <3>1, <3>2, <3>3 DEF Owed, Bit
  <2>3. CASE S[u][v] # "dialing"
    BY <1>8, <2>1, <2>3
  <2>. QED  BY <2>2, <2>3
<1>13. ASSUME kind \notin EndKinds \cup CardKinds \cup WakeKinds
       PROVE  Steps(S, F, A, E2, X, D)
  BY <1>8, <1>13
<1>. QED  BY <1>1, <1>10, <1>11, <1>12, <1>13 DEF kind, S2, E2

(* An event that answers nothing, or wakes a dial.                          *)
LEMMA StepsTold ==
    ASSUME NEW S, NEW F, IsFiniteSet(F), NEW E, AllSeqs(E),
           NEW A, NEW X, NEW D, Steps(S, F, A, E, X, D),
           NEW u \in User, NEW ev, ev.kind \notin EndKinds \cup CardKinds
    PROVE  /\ AllSeqs(Told(E, u, ev))
           /\ Steps(S, F, A, Told(E, u, ev), X, D)
           /\ ev.kind \in WakeKinds =>
                Steps(S, F, A, Told(E, u, ev), X, D \ {<<u, ev.peer>>})
<1> DEFINE E2 == Told(E, u, ev)
<1>1. /\ AllSeqs(E2)
      /\ \A kinds : ev.kind \in kinds =>
            Count(E2[u], ev.peer, kinds) = Count(E[u], ev.peer, kinds) + 1
      /\ \A a \in User : \A b, kinds :
            ~ (a = u /\ ev.kind \in kinds /\ ev.peer = b) =>
               Count(E2[a], b, kinds) = Count(E[a], b, kinds)
  <2>1. AllSeqs(E2) /\ CountsMore(E, E2, u, ev)
    BY Enqueued
  <2> HIDE DEF E2
  <2>. QED  BY <2>1 DEF CountsMore
<1>2. \A a \in User : \A b, kinds :
         Count(E[a], b, kinds) \in Nat /\ Count(E2[a], b, kinds) \in Nat
  <2> HIDE DEF E2
  <2>. QED  BY <1>1, Numbers
<1> HIDE DEF E2
<1>3. \A a, b \in User : /\ Count(E2[a], b, EndKinds) = Count(E[a], b, EndKinds)
                         /\ Count(E2[a], b, CardKinds) = Count(E[a], b, CardKinds)
  BY <1>1
<1>4. \A a, b \in User : Count(E2[a], b, WakeKinds) >= Count(E[a], b, WakeKinds)
  <2> TAKE a, b \in User
  <2>1. CASE a = u /\ ev.kind \in WakeKinds /\ ev.peer = b
    BY <1>1, <1>2, <2>1
  <2>2. CASE ~ (a = u /\ ev.kind \in WakeKinds /\ ev.peer = b)
    <3>1. Count(E2[a], b, WakeKinds) = Count(E[a], b, WakeKinds)
      BY <1>1, <2>2
    <3>2. Count(E[a], b, WakeKinds) \in Nat
      BY <1>2
    <3>. QED  BY <3>1, <3>2
  <2>. QED  BY <2>1, <2>2
<1>5. \A a, b \in User :
         Bit(<<a, b>> \in D) + Count(E[a], b, WakeKinds) > 0
           => Bit(<<a, b>> \in D) + Count(E2[a], b, WakeKinds) > 0
  BY <1>2, <1>4 DEF Bit
<1>6. Steps(S, F, A, E2, X, D)
  BY <1>3, <1>5, StepsSame
<1>7. ASSUME ev.kind \in WakeKinds, NEW a \in User, NEW b \in User,
             Bit(<<a, b>> \in D) + Count(E[a], b, WakeKinds) > 0
      PROVE  Bit(<<a, b>> \in D \ {<<u, ev.peer>>}) + Count(E2[a], b, WakeKinds) > 0
  <2>1. CASE a = u /\ b = ev.peer
    <3>1. Count(E2[a], b, WakeKinds) = Count(E[a], b, WakeKinds) + 1
      BY <1>1, <1>7, <2>1
    <3>2. Bit(<<a, b>> \in D \ {<<u, ev.peer>>}) \in {0, 1}
      BY DEF Bit
    <3>. QED  BY <1>2, <3>1, <3>2
  <2>2. CASE ~ (a = u /\ b = ev.peer)
    <3>1. <<a, b>> \in D \ {<<u, ev.peer>>} <=> <<a, b>> \in D
      BY <2>2
    <3>2. Bit(<<a, b>> \in D \ {<<u, ev.peer>>}) = Bit(<<a, b>> \in D)
      BY <3>1 DEF Bit
    <3>. QED  BY <1>2, <1>4, <1>7, <3>2 DEF Bit
  <2>. QED  BY <2>1, <2>2
<1>8. ev.kind \in WakeKinds => Steps(S, F, A, E2, X, D \ {<<u, ev.peer>>})
  BY <1>3, <1>7, StepsSame
<1>. QED  BY <1>1, <1>6, <1>8 DEF E2

(* An event that answers: it takes the place of an envelope, of an          *)
(* acknowledgement, or of a fetch.                                          *)
LEMMA StepsAnswered ==
    ASSUME NEW S, NEW F, IsFiniteSet(F), NEW E, AllSeqs(E),
           NEW A, NEW X, NEW D, Steps(S, F, A, E, X, D),
           NEW u \in User, NEW ev
    PROVE  /\ AllSeqs(Told(E, u, ev))
           /\ \A e \in F : ev.kind \in EndKinds /\ e.from = u /\ e.to = ev.peer =>
                Steps(S, F \ {e}, A, Told(E, u, ev), X, D)
           /\ ev.kind \in EndKinds /\ <<u, ev.peer>> \in A =>
                Steps(S, F, A \ {<<u, ev.peer>>}, Told(E, u, ev), X, D)
           /\ ev.kind \in CardKinds /\ <<u, ev.peer>> \in X =>
                Steps(S, F, A, Told(E, u, ev), X \ {<<u, ev.peer>>}, D)
<1> DEFINE E2 == Told(E, u, ev)
<1>1. /\ AllSeqs(E2)
      /\ \A kinds : ev.kind \in kinds =>
            Count(E2[u], ev.peer, kinds) = Count(E[u], ev.peer, kinds) + 1
      /\ \A a \in User : \A b, kinds :
            ~ (a = u /\ ev.kind \in kinds /\ ev.peer = b) =>
               Count(E2[a], b, kinds) = Count(E[a], b, kinds)
  <2>1. AllSeqs(E2) /\ CountsMore(E, E2, u, ev)
    BY Enqueued
  <2> HIDE DEF E2
  <2>. QED  BY <2>1 DEF CountsMore
<1>2. /\ \A a, b : Cardinality(Fly(F, a, b)) \in Nat
      /\ \A a \in User : \A b, kinds : Count(E[a], b, kinds) \in Nat
  BY Numbers
<1> HIDE DEF E2
<1>3. ASSUME ev.kind \in EndKinds
      PROVE  \A a, b \in User :
               /\ Count(E2[a], b, CardKinds) = Count(E[a], b, CardKinds)
               /\ Count(E2[a], b, WakeKinds) = Count(E[a], b, WakeKinds)
               /\ Count(E2[a], b, EndKinds) = IF a = u /\ b = ev.peer
                                              THEN Count(E[a], b, EndKinds) + 1
                                              ELSE Count(E[a], b, EndKinds)
  <2>1. ev.kind \notin CardKinds /\ ev.kind \notin WakeKinds
    BY <1>3 DEF EndKinds, CardKinds, WakeKinds
  <2>. QED  BY <1>1, <1>3, <2>1
<1>4. ASSUME NEW e \in F, ev.kind \in EndKinds, e.from = u, e.to = ev.peer
      PROVE  Steps(S, F \ {e}, A, E2, X, D)
  <2>1. ASSUME NEW a \in User, NEW b \in User
        PROVE  Cardinality(Fly(F \ {e}, a, b)) + Bit(<<a, b>> \in A)
                  + Count(E2[a], b, EndKinds)
                = Cardinality(Fly(F, a, b)) + Bit(<<a, b>> \in A)
                    + Count(E[a], b, EndKinds)
    <3>1. IsFiniteSet(F \ {e})
      BY FS_RemoveElement
    <3>2. /\ Cardinality(Fly(F \ {e}, a, b)) \in Nat /\ Bit(<<a, b>> \in A) \in Nat
          /\ Count(E[a], b, EndKinds) \in Nat
      BY <1>2, <3>1, Numbers DEF Bit
    <3>3. Cardinality(Fly(F, a, b)) = Cardinality(Fly(F \ {e}, a, b))
            + Bit(e.from = a /\ e.to = b)
      BY FlyRemove
    <3>4. CASE a = u /\ b = ev.peer
      <4>1. Bit(e.from = a /\ e.to = b) = 1
        BY <1>4, <3>4 DEF Bit
      <4>2. Count(E2[a], b, EndKinds) = Count(E[a], b, EndKinds) + 1
        BY <1>3, <1>4, <3>4
      <4>. QED  BY <3>2, <3>3, <4>1, <4>2
    <3>5. CASE ~ (a = u /\ b = ev.peer)
      <4>1. Bit(e.from = a /\ e.to = b) = 0
        BY <1>4, <3>5 DEF Bit
      <4>2. Count(E2[a], b, EndKinds) = Count(E[a], b, EndKinds)
        BY <1>3, <1>4, <3>5
      <4>. QED  BY <3>2, <3>3, <4>1, <4>2
    <3>. QED  BY <3>4, <3>5
  <2>. QED  BY <1>3, <1>4, <2>1, StepsSame
<1>5. ASSUME ev.kind \in EndKinds, <<u, ev.peer>> \in A
      PROVE  Steps(S, F, A \ {<<u, ev.peer>>}, E2, X, D)
  <2>1. ASSUME NEW a \in User, NEW b \in User
        PROVE  Cardinality(Fly(F, a, b)) + Bit(<<a, b>> \in A \ {<<u, ev.peer>>})
                  + Count(E2[a], b, EndKinds)
                = Cardinality(Fly(F, a, b)) + Bit(<<a, b>> \in A)
                    + Count(E[a], b, EndKinds)
    <3>2. Cardinality(Fly(F, a, b)) \in Nat /\ Count(E[a], b, EndKinds) \in Nat
      BY <1>2
    <3>4. CASE a = u /\ b = ev.peer
      <4>1. Bit(<<a, b>> \in A \ {<<u, ev.peer>>}) = 0 /\ Bit(<<a, b>> \in A) = 1
        BY <1>5, <3>4 DEF Bit
      <4>2. Count(E2[a], b, EndKinds) = Count(E[a], b, EndKinds) + 1
        BY <1>3, <1>5, <3>4
      <4>. QED  BY <3>2, <4>1, <4>2
    <3>5. CASE ~ (a = u /\ b = ev.peer)
      <4>1. <<a, b>> \in A \ {<<u, ev.peer>>} <=> <<a, b>> \in A
        BY <3>5
      <4>2. Bit(<<a, b>> \in A \ {<<u, ev.peer>>}) = Bit(<<a, b>> \in A)
        BY <4>1 DEF Bit
      <4>3. Count(E2[a], b, EndKinds) = Count(E[a], b, EndKinds)
        BY <1>3, <1>5, <3>5
      <4>. QED  BY <4>2, <4>3
    <3>. QED  BY <3>4, <3>5
  <2>. QED  BY <1>3, <1>5, <2>1, StepsSame
<1>6. ASSUME ev.kind \in CardKinds, <<u, ev.peer>> \in X
      PROVE  Steps(S, F, A, E2, X \ {<<u, ev.peer>>}, D)
  <2>1. \A a, b \in User :
               /\ Count(E2[a], b, EndKinds) = Count(E[a], b, EndKinds)
               /\ Count(E2[a], b, WakeKinds) = Count(E[a], b, WakeKinds)
               /\ Count(E2[a], b, CardKinds) = IF a = u /\ b = ev.peer
                                               THEN Count(E[a], b, CardKinds) + 1
                                               ELSE Count(E[a], b, CardKinds)
    <3>1. ev.kind \notin EndKinds /\ ev.kind \notin WakeKinds
      BY <1>6 DEF EndKinds, CardKinds, WakeKinds
    <3>. QED  BY <1>1, <1>6, <3>1
  <2>2. ASSUME NEW a \in User, NEW b \in User
        PROVE  Bit(<<a, b>> \in X \ {<<u, ev.peer>>}) + Count(E2[a], b, CardKinds)
                = Bit(<<a, b>> \in X) + Count(E[a], b, CardKinds)
    <3>2. Count(E[a], b, CardKinds) \in Nat
      BY <1>2
    <3>4. CASE a = u /\ b = ev.peer
      <4>1. Bit(<<a, b>> \in X \ {<<u, ev.peer>>}) = 0 /\ Bit(<<a, b>> \in X) = 1
        BY <1>6, <3>4 DEF Bit
      <4>2. Count(E2[a], b, CardKinds) = Count(E[a], b, CardKinds) + 1
        BY <2>1, <3>4
      <4>. QED  BY <3>2, <4>1, <4>2
    <3>5. CASE ~ (a = u /\ b = ev.peer)
      <4>1. <<a, b>> \in X \ {<<u, ev.peer>>} <=> <<a, b>> \in X
        BY <3>5
      <4>2. Bit(<<a, b>> \in X \ {<<u, ev.peer>>}) = Bit(<<a, b>> \in X)
        BY <4>1 DEF Bit
      <4>3. Count(E2[a], b, CardKinds) = Count(E[a], b, CardKinds)
        BY <2>1, <3>5
      <4>. QED  BY <4>2, <4>3
    <3>. QED  BY <3>4, <3>5
  <2>. QED  BY <2>1, <2>2, StepsSame
<1>. QED  BY <1>1, <1>4, <1>5, <1>6 DEF E2

(* An envelope that is acknowledged.                                        *)
LEMMA StepsAcked ==
    ASSUME NEW S, NEW F, IsFiniteSet(F), NEW E, AllSeqs(E),
           NEW A, NEW X, NEW D, Steps(S, F, A, E, X, D),
           NEW e \in F, e.from \in User, e.to \in User
    PROVE  Steps(S, F \ {e}, A \cup {<<e.from, e.to>>}, E, X, D)
<1>1. ASSUME NEW a \in User, NEW b \in User
      PROVE  Cardinality(Fly(F \ {e}, a, b)) + Bit(<<a, b>> \in A \cup {<<e.from, e.to>>})
                + Count(E[a], b, EndKinds)
              = Cardinality(Fly(F, a, b)) + Bit(<<a, b>> \in A)
                  + Count(E[a], b, EndKinds)
  <2>1. IsFiniteSet(F \ {e})
    BY FS_RemoveElement
  <2>2. /\ Cardinality(Fly(F \ {e}, a, b)) \in Nat
        /\ Count(E[a], b, EndKinds) \in Nat
    BY <2>1, Numbers
  <2>3. Cardinality(Fly(F, a, b)) = Cardinality(Fly(F \ {e}, a, b))
          + Bit(e.from = a /\ e.to = b)
    BY FlyRemove
  <2>4. CASE a = e.from /\ b = e.to
    <3>1. Bit(e.from = a /\ e.to = b) = 1
      BY <2>4 DEF Bit
    <3>2. Bit(<<a, b>> \in A \cup {<<e.from, e.to>>}) = 1
      BY <2>4 DEF Bit
    <3>3. e \in Fly(F, a, b)
      BY <2>4 DEF Fly
    <3>4. CASE S[a][b] = "sendingEnvelope"
      <4>1. Cardinality(Fly(F, a, b)) + Bit(<<a, b>> \in A)
              + Count(E[a], b, EndKinds) = 1
        BY <3>4, StepsOwed
      <4>2. Bit(<<a, b>> \in A) \in Nat
        BY DEF Bit
      <4>3. Bit(<<a, b>> \in A) = 0
        BY <2>2, <2>3, <3>1, <4>1, <4>2
      <4>. QED  BY <2>2, <2>3, <3>1, <3>2, <4>3
    <3>5. CASE S[a][b] # "sendingEnvelope"
      <4>1. /\ Cardinality(Fly(F, a, b)) = 0 /\ Fly(F, a, b) = {}
            /\ <<a, b>> \notin A /\ Count(E[a], b, EndKinds) = 0
        BY <3>5, StepsOwed
      <4>. QED  BY <3>3, <4>1
    <3>. QED  BY <3>4, <3>5
  <2>5. CASE ~ (a = e.from /\ b = e.to)
    <3>1. Bit(e.from = a /\ e.to = b) = 0
      BY <2>5 DEF Bit
    <3>2. <<a, b>> \in A \cup {<<e.from, e.to>>} <=> <<a, b>> \in A
      BY <2>5
    <3>3. Bit(<<a, b>> \in A \cup {<<e.from, e.to>>}) = Bit(<<a, b>> \in A)
      BY <3>2 DEF Bit
    <3>4. Cardinality(Fly(F, a, b)) = Cardinality(Fly(F \ {e}, a, b))
      BY <2>2, <2>3, <3>1
    <3>. QED  BY <3>3, <3>4
  <2>. QED  BY <2>4, <2>5
<1> SUFFICES ASSUME NEW a \in User, NEW b \in User
             PROVE  Owed(S[a][b], Cardinality(Fly(F \ {e}, a, b)),
                         Bit(<<a, b>> \in A \cup {<<e.from, e.to>>}),
                         Count(E[a], b, EndKinds), Bit(<<a, b>> \in X),
                         Count(E[a], b, CardKinds), Bit(<<a, b>> \in D),
                         Count(E[a], b, WakeKinds))
  BY DEF Steps
<1>2. Owed(S[a][b], Cardinality(Fly(F, a, b)), Bit(<<a, b>> \in A),
           Count(E[a], b, EndKinds), Bit(<<a, b>> \in X),
           Count(E[a], b, CardKinds), Bit(<<a, b>> \in D),
           Count(E[a], b, WakeKinds))
  BY DEF Steps
<1>. QED  BY <1>1, <1>2 DEF Owed


(* The user's app starts again: its events are gone, the others hear of it, *)
(* and it dials everyone it has something for.                              *)
Silenced(E, E2, u) ==
    /\ E2[u] = << >>
    /\ \A a \in User \ {u} :
         \/ E2[a] = E[a]
         \/ \E ev : ev.kind = "disconnected" /\ E2[a] = Append(E[a], ev)

StepsAgain(S, F, A, E2, X, D, u, waiting) ==
    Steps([S EXCEPT ![u] = [v \in User |-> IF v \in waiting THEN "dialing"
                                           ELSE "none"]],
          {e \in F : e.from # u}, {a \in A : a[1] # u}, E2,
          {f \in X : f[1] # u},
          {d \in D : d[1] # u} \cup {<<u, v>> : v \in waiting})

(* What is owed after a restart: the user's states and queue are new, and   *)
(* it dials those it has something for.                                     *)
LEMMA StepsRestart ==
    ASSUME NEW S \in AllStates, NEW F, IsFiniteSet(F), NEW E, AllSeqs(E),
           NEW A, NEW X, NEW D, Steps(S, F, A, E, X, D),
           NEW u \in User, NEW waiting \in SUBSET User, NEW E2, Silenced(E, E2, u)
    PROVE  StepsAgain(S, F, A, E2, X, D, u, waiting)
<1> USE DEF Silenced
<1> DEFINE S2 == [S EXCEPT ![u] = [v \in User |-> IF v \in waiting THEN "dialing"
                                                  ELSE "none"]]
           F2 == {e \in F : e.from # u}
           A2 == {a \in A : a[1] # u}
           X2 == {f \in X : f[1] # u}
           D2 == {d \in D : d[1] # u} \cup {<<u, v>> : v \in waiting}
<1> SUFFICES ASSUME NEW a \in User, NEW b \in User
             PROVE  Owed(S2[a][b], Cardinality(Fly(F2, a, b)),
                         Bit(<<a, b>> \in A2), Count(E2[a], b, EndKinds),
                         Bit(<<a, b>> \in X2), Count(E2[a], b, CardKinds),
                         Bit(<<a, b>> \in D2), Count(E2[a], b, WakeKinds))
  BY DEF StepsAgain, Steps
<1>1. Owed(S[a][b], Cardinality(Fly(F, a, b)), Bit(<<a, b>> \in A),
           Count(E[a], b, EndKinds), Bit(<<a, b>> \in X),
           Count(E[a], b, CardKinds), Bit(<<a, b>> \in D),
           Count(E[a], b, WakeKinds))
  BY DEF Steps
<1>2. CASE a # u
  <2>1. S2[a][b] = S[a][b]
    BY <1>2 DEF AllStates
  <2>2. Fly(F2, a, b) = Fly(F, a, b)
    BY <1>2 DEF Fly
  <2>3. /\ <<a, b>> \in A2 <=> <<a, b>> \in A
        /\ <<a, b>> \in X2 <=> <<a, b>> \in X
        /\ <<a, b>> \in D2 <=> <<a, b>> \in D
    BY <1>2
  <2>4. ASSUME NEW kinds, "disconnected" \notin kinds
        PROVE  Count(E2[a], b, kinds) = Count(E[a], b, kinds)
    <3>1. CASE E2[a] = E[a]
      BY <3>1
    <3>2. CASE \E ev : ev.kind = "disconnected" /\ E2[a] = Append(E[a], ev)
      <4>1. PICK ev : ev.kind = "disconnected" /\ E2[a] = Append(E[a], ev)
        BY <3>2
      <4>2. Bit(ev.kind \in kinds /\ ev.peer = b) = 0
        BY <2>4, <4>1 DEF Bit
      <4>3. IsSeq(E[a])
        BY DEF AllSeqs
      <4>4. Count(E[a], b, kinds) \in Nat
        BY <4>3, PlacesFinite
      <4>5. Count(Append(E[a], ev), b, kinds)
              = Count(E[a], b, kinds) + Bit(ev.kind \in kinds /\ ev.peer = b)
        BY <4>3, CountAppend
      <4>. QED  BY <4>1, <4>2, <4>4, <4>5
    <3>. QED  BY <1>2, <3>1, <3>2
  <2>5. /\ Count(E2[a], b, EndKinds) = Count(E[a], b, EndKinds)
        /\ Count(E2[a], b, CardKinds) = Count(E[a], b, CardKinds)
        /\ Count(E2[a], b, WakeKinds) = Count(E[a], b, WakeKinds)
    <3>1. /\ "disconnected" \notin EndKinds /\ "disconnected" \notin CardKinds
          /\ "disconnected" \notin WakeKinds
      BY DEF EndKinds, CardKinds, WakeKinds
    <3>. QED  BY <2>4, <3>1
  <2>6. /\ Bit(<<a, b>> \in A2) = Bit(<<a, b>> \in A)
        /\ Bit(<<a, b>> \in X2) = Bit(<<a, b>> \in X)
        /\ Bit(<<a, b>> \in D2) = Bit(<<a, b>> \in D)
    BY <2>3 DEF Bit
  <2>. HIDE DEF S2, F2, A2, X2, D2
  <2>. QED  BY <1>1, <2>1, <2>2, <2>5, <2>6
<1>3. CASE a = u
  <2>1. S2[a][b] = IF b \in waiting THEN "dialing" ELSE "none"
    BY <1>3 DEF AllStates
  <2>2. Fly(F2, a, b) = {}
    BY <1>3 DEF Fly
  <2>3. Cardinality(Fly(F2, a, b)) = 0
    BY <2>2, FS_EmptySet
  <2>4. /\ <<a, b>> \notin A2 /\ <<a, b>> \notin X2
        /\ b \in waiting => <<a, b>> \in D2
    BY <1>3
  <2>5. \A kinds : Count(E2[a], b, kinds) = 0
    <3> TAKE kinds
    <3>1. Places(<< >>, b, kinds) = {}
      BY DEF Places
    <3>. QED  BY <1>3, <3>1, ShortSeqs, PlacesFinite
  <2>6. /\ Bit(<<a, b>> \in A2) = 0 /\ Bit(<<a, b>> \in X2) = 0
        /\ b \in waiting => Bit(<<a, b>> \in D2) = 1
    BY <2>4 DEF Bit
  <2>. HIDE DEF S2, F2, A2, X2, D2
  <2>. QED  BY <2>1, <2>3, <2>5, <2>6 DEF Owed, Bit
<1>. QED  BY <1>2, <1>3

-----------------------------------------------------------------------------
(* What the pieces of a step keep                                           *)

(* Everything stays in its place, for any function on the users.            *)
LEMMA BoxChanged ==
    ASSUME NEW B, BoxesOk(B), NEW u \in User, NEW box, IsBox(u, box)
    PROVE  /\ BoxesOk([B EXCEPT ![u] = box])
           /\ \A a \in User : [B EXCEPT ![u] = box][a] = IF a = u THEN box ELSE B[a]
<1> DEFINE B2 == [B EXCEPT ![u] = box]
<1>1. B2 = [a \in User |-> IF a = u THEN box ELSE B[a]]
  BY DEF BoxesOk
<1> HIDE DEF B2
<1>2. \A a \in User : B2[a] = IF a = u THEN box ELSE B[a]
  BY <1>1
<1>3. BoxesOk(B2)
  BY <1>1, <1>2 DEF BoxesOk
<1>. QED  BY <1>2, <1>3 DEF B2

(* The app's task of one user is replaced.                                  *)
LEMMA AppChanged ==
    ASSUME NEW T, AppsOk(T), NEW u \in User, NEW t, IsApp(u, t)
    PROVE  /\ AppsOk([T EXCEPT ![u] = t])
           /\ \A a \in User : [T EXCEPT ![u] = t][a] = IF a = u THEN t ELSE T[a]
<1> DEFINE T2 == [T EXCEPT ![u] = t]
<1>1. T2 = [a \in User |-> IF a = u THEN t ELSE T[a]]
  BY DEF AppsOk
<1> HIDE DEF T2
<1>2. \A a \in User : T2[a] = IF a = u THEN t ELSE T[a]
  BY <1>1
<1>3. AppsOk(T2)
  BY <1>1, <1>2 DEF AppsOk
<1>. QED  BY <1>2, <1>3 DEF T2

(* The pump's task of one user is replaced.                                 *)
LEMMA PumpChanged ==
    ASSUME NEW T, PumpsOk(T), NEW u \in User, NEW t, IsPump(u, t)
    PROVE  /\ PumpsOk([T EXCEPT ![u] = t])
           /\ \A a \in User : [T EXCEPT ![u] = t][a] = IF a = u THEN t ELSE T[a]
<1> DEFINE T2 == [T EXCEPT ![u] = t]
<1>1. T2 = [a \in User |-> IF a = u THEN t ELSE T[a]]
  BY DEF PumpsOk
<1> HIDE DEF T2
<1>2. \A a \in User : T2[a] = IF a = u THEN t ELSE T[a]
  BY <1>1
<1>3. PumpsOk(T2)
  BY <1>1, <1>2 DEF PumpsOk
<1>. QED  BY <1>2, <1>3 DEF T2

(* An envelope opened is what the pump of its receiver holds.               *)
LEMMA PumpOpened ==
    ASSUME StepInv, NEW u \in User, NEW e, Opened(u, e) \/ UNCHANGED pump
    PROVE  /\ PumpsOk(pump') /\ \A a \in User \ {u} : pump'[a] = pump[a]
           /\ pump'[u] = pump[u] \/ pump'[u] = [at |-> "opened", envelope |-> e]
<1> DEFINE t == [at |-> "opened", envelope |-> e]
<1>1. PumpsOk(pump)
  BY DEF StepInv, TypeInv
<1>2. IsPump(u, t)
  BY DEF IsPump
<1>3. pump' = [pump EXCEPT ![u] = t] \/ pump' = pump
  BY DEF Opened
<1> HIDE DEF t
<1>4. CASE pump' = pump
  BY <1>1, <1>4
<1>5. CASE pump' = [pump EXCEPT ![u] = t]
  <2> DEFINE T2 == [pump EXCEPT ![u] = t]
  <2>1. PumpsOk(T2) /\ \A a \in User : T2[a] = IF a = u THEN t ELSE pump[a]
    BY <1>1, <1>2, PumpChanged
  <2>2. pump' = T2
    BY <1>5
  <2> HIDE DEF T2
  <2>. QED  BY <2>1, <2>2 DEF t
<1>. QED  BY <1>3, <1>4, <1>5

(* One session is replaced.                                                 *)
LEMMA SessionChanged ==
    ASSUME NEW s, SessionsOk(s), NEW u \in User, NEW v \in User, NEW new,
           IsSession(new)
    PROVE  /\ SessionsOk([s EXCEPT ![u][v] = new])
           /\ \A a, b \in User : [s EXCEPT ![u][v] = new][a][b]
                                   = IF a = u /\ b = v THEN new ELSE s[a][b]
<1> DEFINE s2 == [s EXCEPT ![u][v] = new]
<1>1. s2 = [a \in User |-> [b \in User |->
              IF a = u /\ b = v THEN new ELSE s[a][b]]]
  <2>1. s = [a \in User |-> [b \in User |-> s[a][b]]]
    BY DEF SessionsOk
  <2> DEFINE f == [a \in User |-> [b \in User |-> s[a][b]]]
  <2>2. [f EXCEPT ![u][v] = new] = [a \in User |-> [b \in User |->
              IF a = u /\ b = v THEN new ELSE s[a][b]]]
    OBVIOUS
  <2>. QED  BY <2>1, <2>2
<1> HIDE DEF s2
<1>2. \A a, b \in User : s2[a][b] = IF a = u /\ b = v THEN new ELSE s[a][b]
  BY <1>1
<1>3. SessionsOk(s2)
  BY <1>1, <1>2 DEF SessionsOk
<1>. QED  BY <1>2, <1>3 DEF s2

(* What a user is told is an event.                                         *)
LEMMA EventTold ==
    ASSUME NEW E, EventsOk(E), NEW u \in User, NEW ev, IsEvent(u, ev)
    PROVE  EventsOk(Told(E, u, ev))
<1>1. /\ AllSeqs(Told(E, u, ev))
      /\ \A a \in User : Told(E, u, ev)[a] = IF a = u THEN Append(E[a], ev) ELSE E[a]
  BY Enqueued DEF EventsOk
<1>2. ASSUME NEW a \in User, NEW i \in DOMAIN Told(E, u, ev)[a]
      PROVE  IsEvent(a, Told(E, u, ev)[a][i])
  <2>1. CASE a = u
    <3>1. /\ DOMAIN E[u] = 1..Len(E[u]) /\ Len(E[u]) \in Nat
          /\ DOMAIN Append(E[u], ev) = 1..(Len(E[u]) + 1)
          /\ \A k \in DOMAIN E[u] : Append(E[u], ev)[k] = E[u][k]
          /\ Append(E[u], ev)[Len(E[u]) + 1] = ev
      BY AppendItems DEF EventsOk, AllSeqs
    <3>4. i \in DOMAIN Append(E[u], ev)
      BY <1>1, <1>2, <2>1
    <3>2. i \in DOMAIN E[u] \/ i = Len(E[u]) + 1
      <4> DEFINE n == Len(E[u])
      <4>1. i \in 1..(n + 1) /\ n \in Nat /\ DOMAIN E[u] = 1..n
        BY <3>1, <3>4
      <4> HIDE DEF n
      <4>2. i \in 1..n \/ i = n + 1
        BY <4>1
      <4>. QED  BY <4>1, <4>2 DEF n
    <3>3. Told(E, u, ev)[a][i] = Append(E[u], ev)[i]
      BY <1>1, <2>1
    <3>. QED  BY <2>1, <3>1, <3>2, <3>3 DEF EventsOk
  <2>2. CASE a # u
    BY <1>1, <1>2, <2>2 DEF EventsOk
  <2>. QED  BY <2>1, <2>2
<1>. QED  BY <1>1, <1>2 DEF EventsOk

(* What a user takes is an event, and events remain.                        *)
LEMMA EventTaken ==
    ASSUME NEW E, EventsOk(E), NEW u \in User, E[u] # << >>
    PROVE  EventsOk(Taken(E, u)) /\ IsEvent(u, Head(E[u]))
<1>1. /\ AllSeqs(Taken(E, u))
      /\ \A a \in User : Taken(E, u)[a] = IF a = u THEN Tail(E[a]) ELSE E[a]
  BY Dequeued DEF EventsOk
<1>2. /\ Head(E[u]) = E[u][1] /\ 1 \in DOMAIN E[u]
      /\ \A i \in DOMAIN Tail(E[u]) : i + 1 \in DOMAIN E[u] /\ Tail(E[u])[i] = E[u][i + 1]
  BY TailItems DEF EventsOk, AllSeqs
<1>3. ASSUME NEW a \in User, NEW i \in DOMAIN Taken(E, u)[a]
      PROVE  IsEvent(a, Taken(E, u)[a][i])
  <2>1. CASE a = u
    <3>1. i \in DOMAIN Tail(E[u]) /\ Taken(E, u)[a][i] = Tail(E[u])[i]
      BY <1>1, <1>3, <2>1
    <3>. QED  BY <1>2, <2>1, <3>1 DEF EventsOk
  <2>2. CASE a # u
    BY <1>1, <1>3, <2>2 DEF EventsOk
  <2>. QED  BY <2>1, <2>2
<1>4. IsEvent(u, Head(E[u]))
  BY <1>2 DEF EventsOk
<1>. QED  BY <1>1, <1>3, <1>4 DEF EventsOk

(* Both nodes of a pair report a connection made, or one closed.            *)
LEMMA BothTold ==
    ASSUME NEW u \in User, NEW v \in User, u # v, NEW kind, EventsOk(events),
           Both({u, v}, kind)
    PROVE  events' = Told(Told(events, u, Event(kind, v, NoData)), v,
                          Event(kind, u, NoData))
<1>1. /\ (CHOOSE w \in {u, v} : w # u) = v
      /\ (CHOOSE w \in {u, v} : w # v) = u
  OBVIOUS
<1> DEFINE e1 == Append(events[u], Event(kind, v, NoData))
           e2 == Append(events[v], Event(kind, u, NoData))
<1>2. events' = [a \in User |-> IF a = u THEN e1 ELSE IF a = v THEN e2 ELSE events[a]]
  <2>1. events' = [a \in User |-> IF a \in {u, v}
                     THEN Append(events[a],
                                 Event(kind, CHOOSE w \in {u, v} : w # a, NoData))
                     ELSE events[a]]
    BY DEF Both
  <2>2. ASSUME NEW a \in User
        PROVE  (IF a \in {u, v}
                THEN Append(events[a],
                            Event(kind, CHOOSE w \in {u, v} : w # a, NoData))
                ELSE events[a])
               = IF a = u THEN e1 ELSE IF a = v THEN e2 ELSE events[a]
    BY <1>1
  <2>. QED  BY <2>1, <2>2
<1> HIDE DEF e1, e2
<1>3. events = [a \in User |-> events[a]]
  BY DEF EventsOk, AllSeqs
<1>4. Told(events, u, Event(kind, v, NoData))
        = [a \in User |-> IF a = u THEN e1 ELSE events[a]]
  BY <1>3 DEF Told, e1
<1>5. Told(Told(events, u, Event(kind, v, NoData)), v, Event(kind, u, NoData))
        = [a \in User |-> IF a = v THEN e2 ELSE IF a = u THEN e1 ELSE events[a]]
  BY <1>4 DEF Told, e2
<1>. QED  BY <1>2, <1>5

(* attemptSend keeps what it can change, and one step per peer.             *)
LEMMA AttemptKeeps ==
    ASSUME NEW u \in User, NEW v \in User, u # v, NEW st \in [User -> States],
           NEW r, IsSession(r.session), NEW E, AllSeqs(E),
           SendingOk(states, session, dials, fetches, flying),
           Steps([states EXCEPT ![u] = st], flying, acks, E, fetches, dials),
           Attempt(u, v, st, r)
    PROVE  /\ SendingOk(states', session', dials', fetches', flying')
           /\ Steps(states', flying', acks, E, fetches', dials')
<1> DEFINE S == [states EXCEPT ![u] = st]
           new == IF ~r.conn THEN "dialing"
                  ELSE IF r.session = NoSession THEN "fetchingCard"
                  ELSE "sendingEnvelope"
<1>1. states \in AllStates /\ S \in AllStates /\ S[u] = st
  BY DEF SendingOk, AllStates
<1>2. CASE ~Begins(st, v, new)
  <2>1. states' = S /\ UNCHANGED <<session, dials, fetches, flying>>
    BY <1>2 DEF Attempt
  <2>. QED  BY <1>1, <2>1 DEF SendingOk
<1>3. CASE Begins(st, v, new)
  <2>1. st[v] = "none"
    BY <1>3 DEF Begins
  <2>2. /\ states' = [states EXCEPT ![u] = [st EXCEPT ![v] = new]]
        /\ dials' = IF new = "dialing" THEN dials \cup {<<u, v>>} ELSE dials
        /\ fetches' = IF new = "fetchingCard" THEN fetches \cup {<<u, v>>} ELSE fetches
        /\ IF new = "sendingEnvelope"
           THEN /\ session' = [session EXCEPT ![u][v] = Encrypted(r.session)]
                /\ flying' = flying \cup {Envelope(u, v, "continuing", NoData,
                                                   r.session, r.item)}
           ELSE UNCHANGED <<session, flying>>
    BY <1>3 DEF Attempt, Started
  <2>3. \A s : [states EXCEPT ![u] = [st EXCEPT ![v] = s]]
                 = [S EXCEPT ![u] = [@ EXCEPT ![v] = s]]
    BY <1>1 DEF AllStates
  <2>4. \A s \in States : [S EXCEPT ![u] = [@ EXCEPT ![v] = s]] \in AllStates
    BY <1>1 DEF AllStates
  <2>5. <<u, v>> \in Pairs
    BY DEF Pairs
  <2>6. S[u][v] = "none"
    BY <1>1, <2>1
  <2> HIDE DEF S, new
  <2>7. /\ Steps([S EXCEPT ![u] = [@ EXCEPT ![v] = "dialing"]],
                 flying, acks, E, fetches, dials \cup {<<u, v>>})
        /\ Steps([S EXCEPT ![u] = [@ EXCEPT ![v] = "fetchingCard"]],
                 flying, acks, E, fetches \cup {<<u, v>>}, dials)
        /\ \A e : e.from = u /\ e.to = v =>
             Steps([S EXCEPT ![u] = [@ EXCEPT ![v] = "sendingEnvelope"]],
                   flying \cup {e}, acks, E, fetches, dials)
    <3>1. Steps(S, flying, acks, E, fetches, dials) /\ IsFiniteSet(flying)
      BY DEF S, SendingOk
    <3>. QED  BY <1>1, <2>6, <3>1, StepsBegin
  <2>8. CASE new = "dialing"
    <3>1. /\ states' = [S EXCEPT ![u] = [@ EXCEPT ![v] = "dialing"]]
          /\ dials' = dials \cup {<<u, v>>} /\ UNCHANGED <<fetches, session, flying>>
      BY <2>2, <2>3, <2>8
    <3>2. states' \in AllStates
      BY <2>4, <3>1 DEF States
    <3>. QED  BY <2>5, <2>7, <3>1, <3>2 DEF SendingOk
  <2>9. CASE new = "fetchingCard"
    <3>1. /\ states' = [S EXCEPT ![u] = [@ EXCEPT ![v] = "fetchingCard"]]
          /\ fetches' = fetches \cup {<<u, v>>} /\ UNCHANGED <<dials, session, flying>>
      BY <2>2, <2>3, <2>9
    <3>2. states' \in AllStates
      BY <2>4, <3>1 DEF States
    <3>. QED  BY <2>5, <2>7, <3>1, <3>2 DEF SendingOk
  <2>10. CASE new = "sendingEnvelope"
    <3> DEFINE e == Envelope(u, v, "continuing", NoData, r.session, r.item)
    <3>1. /\ states' = [S EXCEPT ![u] = [@ EXCEPT ![v] = "sendingEnvelope"]]
          /\ session' = [session EXCEPT ![u][v] = Encrypted(r.session)]
          /\ flying' = flying \cup {e} /\ UNCHANGED <<dials, fetches>>
      BY <2>2, <2>3, <2>10
    <3>2. states' \in AllStates
      BY <2>4, <3>1 DEF States
    <3>3. IsEnvelope(e) /\ e.from = u /\ e.to = v
      BY <2>5 DEF Envelope, IsEnvelope
    <3>4. IsSession(Encrypted(r.session))
      BY DEF IsSession, Encrypted
    <3>5. SessionsOk(session')
      BY <3>1, <3>4, SessionChanged DEF SendingOk
    <3>6. IsFiniteSet(flying')
      BY <3>1, FS_AddElement DEF SendingOk
    <3>7. Steps(states', flying', acks, E, fetches', dials')
      <4> HIDE DEF e
      <4>. QED  BY <2>7, <3>1, <3>3
    <3> HIDE DEF e
    <3>. QED  BY <3>1, <3>2, <3>3, <3>5, <3>6, <3>7 DEF SendingOk
  <2>. QED  BY <2>8, <2>9, <2>10 DEF new
<1>. QED  BY <1>2, <1>3

-----------------------------------------------------------------------------
(* One step is under way per peer                                           *)

(* What the pump finds in the event it takes, and what is then under way.   *)
LEMMA TakesKeeps ==
    ASSUME StepInv, NEW u \in User, NEW kind, Takes(u, kind)
    PROVE  /\ events' = Taken(events, u) /\ EventsOk(events') /\ events[u] # << >>
           /\ IsEvent(u, Head(events[u])) /\ Head(events[u]).kind = kind
           /\ PeerOf(u) \in User \ {u} /\ pump[u] = NoTask
           /\ kind \notin EndKinds \cup CardKinds \cup WakeKinds =>
                Steps(states, flying, acks, events', fetches, dials)
           /\ kind \in EndKinds =>
                /\ states[u][PeerOf(u)] = "sendingEnvelope"
                /\ Steps([states EXCEPT ![u] = Ended(u, PeerOf(u))],
                         flying, acks, events', fetches, dials)
           /\ kind \in CardKinds =>
                /\ states[u][PeerOf(u)] = "fetchingCard"
                /\ Steps([states EXCEPT ![u] = Ended(u, PeerOf(u))],
                         flying, acks, events', fetches, dials)
           /\ kind \in WakeKinds =>
                IF states[u][PeerOf(u)] = "dialing"
                THEN Steps([states EXCEPT ![u] = Ended(u, PeerOf(u))],
                           flying, acks, events', fetches, dials)
                ELSE Steps(states, flying, acks, events', fetches, dials)
<1>1. /\ events[u] # << >> /\ Head(events[u]).kind = kind
      /\ events' = Taken(events, u) /\ pump[u] = NoTask
  BY DEF Takes, Taken
<1>2. EventsOk(events) /\ AllSeqs(events) /\ states \in AllStates /\ IsFiniteSet(flying)
  BY DEF StepInv, TypeInv, EventsOk, SendingOk
<1>3. EventsOk(Taken(events, u)) /\ IsEvent(u, Head(events[u]))
  BY <1>1, <1>2, EventTaken
<1>4. PeerOf(u) \in User \ {u} /\ PeerOf(u) = Head(events[u]).peer
  BY <1>3 DEF IsEvent, PeerOf
<1>5. Steps(states, flying, acks, events, fetches, dials)
  BY DEF StepInv
<1>6. PICK v \in User : v = Head(events[u]).peer
  BY <1>4
<1>7. /\ AllSeqs(Taken(events, u))
      /\ Head(events[u]).kind \notin EndKinds \cup CardKinds \cup WakeKinds =>
            Steps(states, flying, acks, Taken(events, u), fetches, dials)
      /\ Head(events[u]).kind \in EndKinds =>
            /\ states[u][v] = "sendingEnvelope"
            /\ Fly(flying, u, v) = {} /\ <<u, v>> \notin acks
            /\ Count(Taken(events, u)[u], v, EndKinds) = 0
            /\ Steps([states EXCEPT ![u] = [@ EXCEPT ![v] = "none"]],
                     flying, acks, Taken(events, u), fetches, dials)
      /\ Head(events[u]).kind \in CardKinds =>
            /\ states[u][v] = "fetchingCard"
            /\ Steps([states EXCEPT ![u] = [@ EXCEPT ![v] = "none"]],
                     flying, acks, Taken(events, u), fetches, dials)
      /\ Head(events[u]).kind \in WakeKinds =>
            IF states[u][v] = "dialing"
            THEN Steps([states EXCEPT ![u] = [@ EXCEPT ![v] = "none"]],
                       flying, acks, Taken(events, u), fetches, dials)
            ELSE Steps(states, flying, acks, Taken(events, u), fetches, dials)
  BY <1>1, <1>2, <1>5, <1>6, StepsTaken
<1>8. PeerOf(u) = v /\ Ended(u, v) = [states[u] EXCEPT ![v] = "none"]
  BY <1>4, <1>6 DEF Ended
<1>. QED  BY <1>1, <1>3, <1>4, <1>7, <1>8

(* Any row of states is one.                                                *)
LEMMA RowChanged ==
    ASSUME StepInv, NEW u \in User, NEW v \in User, NEW s \in States
    PROVE  /\ [states EXCEPT ![u][v] = s] \in AllStates
           /\ [states EXCEPT ![u][v] = s] = [states EXCEPT ![u] = [@ EXCEPT ![v] = s]]
           /\ Ended(u, v) \in [User -> States] /\ states[u] \in [User -> States]
           /\ [states EXCEPT ![u] = Ended(u, v)] \in AllStates
           /\ [states EXCEPT ![u] = states[u]] = states
<1>1. states \in [User -> [User -> States]]
  BY DEF StepInv, TypeInv, SendingOk, AllStates
<1>2. "none" \in States
  BY DEF States
<1>. QED  BY <1>1, <1>2 DEF AllStates, Ended

(* sendMessage reads the session file.                                      *)
LEMMA SendLoadStep ==
    ASSUME StepInv, NEW u \in User, NEW v \in User, SendLoad(u, v)
    PROVE  StepInv'
<1>1. v # u
  BY ChatAssumption DEF SendLoad
<1>2. app' = [app EXCEPT ![u] = [at |-> "loaded", to |-> v, box |-> outbox[u],
                                 id |-> sent + 1]]
  BY DEF SendLoad
<1>3. UNCHANGED <<outbox, session, card, states, pump, events, links, dials,
                  fetches, flying, acks, mailbox>>
  BY DEF SendLoad, disk, net
<1>4. IsBox(u, outbox[u])
  BY DEF StepInv, TypeInv, BoxesOk
<1>5. IsApp(u, [at |-> "loaded", to |-> v, box |-> outbox[u], id |-> sent + 1])
  BY <1>1, <1>4 DEF IsApp
<1>6. AppsOk(app')
  <2>1. AppsOk(app)
    BY DEF StepInv, TypeInv
  <2> DEFINE t == [at |-> "loaded", to |-> v, box |-> outbox[u], id |-> sent + 1]
  <2>2. app' = [app EXCEPT ![u] = t] /\ IsApp(u, t)
    BY <1>2, <1>5
  <2> HIDE DEF t
  <2>. QED  BY <2>1, <2>2, AppChanged
<1>. QED  BY <1>3, <1>6 DEF StepInv, TypeInv

(* A box with one more item, item by item.                                  *)
LEMMA BoxAppend ==
    ASSUME NEW u \in User, NEW box, IsBox(u, box), NEW x, x.to \in User \ {u}
    PROVE  IsBox(u, Append(box, x))
<1>1. /\ IsSeq(Append(box, x))
      /\ DOMAIN box = 1..Len(box) /\ Len(box) \in Nat
      /\ DOMAIN Append(box, x) = 1..(Len(box) + 1)
      /\ \A i \in DOMAIN box : Append(box, x)[i] = box[i]
      /\ Append(box, x)[Len(box) + 1] = x
  BY AppendItems DEF IsBox
<1>2. ASSUME NEW i \in DOMAIN Append(box, x)
      PROVE  Append(box, x)[i].to \in User \ {u}
  <2> DEFINE n == Len(box)
  <2>1. i \in 1..(n + 1) /\ n \in Nat /\ DOMAIN box = 1..n
    BY <1>1, <1>2
  <2>2. i \in DOMAIN box \/ i = n + 1
    <3> HIDE DEF n
    <3>. QED  BY <2>1
  <2>. QED  BY <1>1, <2>2 DEF IsBox
<1>. QED  BY <1>1, <1>2 DEF IsBox

(* What app[u] is, by where it is.                                          *)
LEMMA AppTask ==
    ASSUME StepInv, NEW u \in User
    PROVE  /\ app[u].at = "loaded" =>
                /\ app[u] = [at |-> "loaded", to |-> app[u].to, box |-> app[u].box,
                             id |-> app[u].id]
                /\ app[u].to \in User \ {u} /\ IsBox(u, app[u].box)
           /\ app[u].at = "read" =>
                /\ app[u].to \in User \ {u}
                /\ app[u].r = [item |-> app[u].r.item, conn |-> app[u].r.conn,
                               session |-> app[u].r.session]
                /\ IsSession(app[u].r.session)
           /\ app[u].at # "loaded" /\ app[u].at # "read" => app[u] = NoTask
<1>1. IsApp(u, app[u])
  BY DEF StepInv, TypeInv, AppsOk
<1>. QED  BY <1>1 DEF IsApp, NoTask

(* sendMessage saves the session and the outbox.                            *)
LEMMA SendSaveStep ==
    ASSUME StepInv, NEW u \in User, SendSave(u)
    PROVE  StepInv'
<1> DEFINE x == [id |-> app[u].id, to |-> app[u].to]
           box == Append(app[u].box, x)
           r == Reads(u, app[u].to, box)
<1>1. /\ app[u].at = "loaded" /\ outbox' = [outbox EXCEPT ![u] = box]
      /\ app' = [app EXCEPT ![u] = [at |-> "read", to |-> app[u].to, r |-> r]]
  BY DEF SendSave
<1>2. UNCHANGED <<session, card, states, pump, events, links, dials,
                  fetches, flying, acks, mailbox>>
  BY DEF SendSave, net
<1>3. app[u].to \in User \ {u} /\ IsBox(u, app[u].box)
  BY <1>1, AppTask
<1>4. IsBox(u, box)
  BY <1>3, BoxAppend
<1>5. r = [item |-> r.item, conn |-> r.conn, session |-> r.session]
      /\ IsSession(r.session)
  <2>1. IsSession(session[u][app[u].to])
    BY <1>3 DEF StepInv, TypeInv, SendingOk, SessionsOk
  <2> HIDE DEF box
  <2>. QED  BY <2>1 DEF Reads
<1> HIDE DEF box, r
<1>6. IsApp(u, [at |-> "read", to |-> app[u].to, r |-> r])
  BY <1>3, <1>5 DEF IsApp
<1>7. AppsOk(app')
  BY <1>1, <1>6, AppChanged DEF StepInv, TypeInv
<1>8. BoxesOk(outbox')
  BY <1>1, <1>4, BoxChanged DEF StepInv, TypeInv
<1>. QED  BY <1>2, <1>7, <1>8 DEF StepInv, TypeInv

(* sendMessage attempts delivery.                                           *)
LEMMA SendAttemptStep ==
    ASSUME StepInv, NEW u \in User, SendAttempt(u)
    PROVE  StepInv'
<1> DEFINE v == app[u].to
           r == app[u].r
<1>1. /\ app[u].at = "read" /\ Attempt(u, v, states[u], r)
      /\ app' = [app EXCEPT ![u] = NoTask]
  BY DEF SendAttempt
<1>2. UNCHANGED <<outbox, card, pump, events, links, acks, mailbox>>
  BY DEF SendAttempt
<1>3. v \in User /\ u # v /\ IsSession(r.session)
  BY <1>1, AppTask
<1>4. /\ SendingOk(states, session, dials, fetches, flying) /\ AllSeqs(events)
      /\ states[u] \in [User -> States]
      /\ Steps([states EXCEPT ![u] = states[u]], flying, acks, events, fetches, dials)
  <2>1. states[u] \in [User -> States] /\ [states EXCEPT ![u] = states[u]] = states
    BY DEF StepInv, TypeInv, SendingOk, AllStates
  <2>. QED  BY <2>1 DEF StepInv, TypeInv, EventsOk
<1> HIDE DEF v, r
<1>5. /\ SendingOk(states', session', dials', fetches', flying')
      /\ Steps(states', flying', acks, events, fetches', dials')
  BY <1>1, <1>3, <1>4, AttemptKeeps
<1>6. AppsOk(app')
  BY <1>1, AppChanged DEF IsApp, StepInv, TypeInv
<1>. QED  BY <1>2, <1>5, <1>6 DEF StepInv, TypeInv

(* The pump handles .connected.                                             *)
LEMMA ConnectedStep ==
    ASSUME StepInv, NEW u \in User, OnPeerConnected(u)
    PROVE  StepInv'
<1> DEFINE v == PeerOf(u)
           st == IF states[u][v] = "dialing" THEN Ended(u, v) ELSE states[u]
           r == [Reads(u, v, outbox[u]) EXCEPT !.conn = TRUE]
<1>1. /\ Takes(u, "connected")
      /\ \/ Attempt(u, v, st, r)
         \/ /\ states' = [states EXCEPT ![u] = st]
            /\ UNCHANGED <<session, dials, fetches, flying>>
  BY DEF OnPeerConnected
<1>2. UNCHANGED <<outbox, card, app, pump, links, acks, mailbox>>
  BY DEF OnPeerConnected
<1>3. /\ EventsOk(events') /\ v \in User \ {u}
      /\ IF states[u][v] = "dialing"
         THEN Steps([states EXCEPT ![u] = Ended(u, v)],
                    flying, acks, events', fetches, dials)
         ELSE Steps(states, flying, acks, events', fetches, dials)
  <2>1. "connected" \in WakeKinds
    BY DEF WakeKinds
  <2>. QED  BY <1>1, <2>1, TakesKeeps
<1>4. /\ Ended(u, v) \in [User -> States] /\ states[u] \in [User -> States]
      /\ [states EXCEPT ![u] = Ended(u, v)] \in AllStates
      /\ [states EXCEPT ![u] = states[u]] = states
  <2>1. "none" \in States
    BY DEF States
  <2>. QED  BY <1>3, <2>1, RowChanged
<1>5. /\ st \in [User -> States]
      /\ Steps([states EXCEPT ![u] = st], flying, acks, events', fetches, dials)
      /\ [states EXCEPT ![u] = st] \in AllStates
  <2>1. states \in AllStates
    BY DEF StepInv, TypeInv, SendingOk
  <2>. QED  BY <1>3, <1>4, <2>1
<1>6. IsSession(r.session)
  <2>1. r.session = session[u][v]
    BY DEF Reads
  <2>. QED  BY <1>3, <2>1 DEF StepInv, TypeInv, SendingOk, SessionsOk
<1>7. SendingOk(states, session, dials, fetches, flying) /\ AllSeqs(events')
  BY <1>3 DEF StepInv, TypeInv, EventsOk
<1> HIDE DEF v, st, r
<1>8. /\ SendingOk(states', session', dials', fetches', flying')
      /\ Steps(states', flying', acks, events', fetches', dials')
  <2>1. CASE Attempt(u, v, st, r)
    BY <1>3, <1>5, <1>6, <1>7, <2>1, AttemptKeeps
  <2>2. CASE /\ states' = [states EXCEPT ![u] = st]
             /\ UNCHANGED <<session, dials, fetches, flying>>
    BY <1>5, <1>7, <2>2 DEF SendingOk
  <2>. QED  BY <1>1, <2>1, <2>2
<1>. QED  BY <1>2, <1>3, <1>8 DEF StepInv, TypeInv

(* The pump handles .disconnected.                                          *)
LEMMA DisconnectedStep ==
    ASSUME StepInv, NEW u \in User, OnPeerDisconnected(u)
    PROVE  StepInv'
<1>1. /\ Takes(u, "disconnected")
      /\ UNCHANGED <<outbox, session, card, states, app, pump, links, dials,
                     fetches, flying, acks, mailbox>>
  BY DEF OnPeerDisconnected, disk
<1>2. "disconnected" \notin EndKinds \cup CardKinds \cup WakeKinds
  BY DEF EndKinds, CardKinds, WakeKinds
<1>3. EventsOk(events') /\ Steps(states, flying, acks, events', fetches, dials)
  BY <1>1, <1>2, TakesKeeps
<1>. QED  BY <1>1, <1>3 DEF StepInv, TypeInv

(* The pump handles .dialFailed or .blobFetchFailed.                        *)
LEMMA FailedStep ==
    ASSUME StepInv, NEW u \in User, OnDialFailed(u) \/ OnBlobFetchFailed(u)
    PROVE  StepInv'
<1> DEFINE v == PeerOf(u)
           S2 == [states EXCEPT ![u] = Ended(u, v)]
<1>1. UNCHANGED <<outbox, session, card, app, pump, links, dials,
                  fetches, flying, acks, mailbox>>
  BY DEF OnDialFailed, OnBlobFetchFailed, OnFailed, disk
<1>2. EventsOk(events') /\ v \in User \ {u}
  BY TakesKeeps DEF OnDialFailed, OnBlobFetchFailed, OnFailed
<1>3. S2 \in AllStates /\ states \in AllStates
  <2>1. "none" \in States
    BY DEF States
  <2>2. states \in AllStates
    BY DEF StepInv, TypeInv, SendingOk
  <2>. QED  BY <1>2, <2>1, <2>2, RowChanged
<1>4. (states' = states \/ states' = S2)
      /\ Steps(states', flying, acks, events', fetches, dials)
  <2>1. CASE OnDialFailed(u)
    <3>1. /\ Takes(u, "dialFailed")
          /\ states' = IF states[u][v] = "dialing" THEN S2 ELSE states
      BY <2>1 DEF OnDialFailed, OnFailed
    <3>2. IF states[u][v] = "dialing"
          THEN Steps(S2, flying, acks, events', fetches, dials)
          ELSE Steps(states, flying, acks, events', fetches, dials)
      <4>1. "dialFailed" \in WakeKinds
        BY DEF WakeKinds
      <4>. QED  BY <3>1, <4>1, TakesKeeps
    <3>. QED  BY <3>1, <3>2
  <2>2. CASE OnBlobFetchFailed(u)
    <3>1. /\ Takes(u, "blobFetchFailed")
          /\ states' = IF states[u][v] = "fetchingCard" THEN S2 ELSE states
      BY <2>2 DEF OnBlobFetchFailed, OnFailed
    <3>2. /\ states[u][v] = "fetchingCard"
          /\ Steps(S2, flying, acks, events', fetches, dials)
      <4>1. "blobFetchFailed" \in CardKinds
        BY DEF CardKinds
      <4>. QED  BY <3>1, <4>1, TakesKeeps
    <3>. QED  BY <3>1, <3>2
  <2>. QED  BY <2>1, <2>2
<1>5. states' \in AllStates
  BY <1>3, <1>4
<1> HIDE DEF v, S2
<1>. QED  BY <1>1, <1>2, <1>4, <1>5 DEF StepInv, TypeInv, SendingOk

(* A new session, one encrypted in and one decrypted in.                    *)
LEMMA SessionShapes ==
    /\ \A x : IsSession(NewRatchet(x)) /\ IsSession(Encrypted(NewRatchet(x)))
    /\ \A s, e : IsSession(s) => IsSession(Encrypted(s)) /\ IsSession(Decrypted(s, e))
    /\ IsSession(NoSession)
<1>1. ASSUME NEW s, IsSession(s)
      PROVE  IsSession(Encrypted(s))
  BY <1>1 DEF IsSession, Encrypted
<1>2. ASSUME NEW s, NEW e, IsSession(s)
      PROVE  IsSession(Decrypted(s, e))
  BY <1>2 DEF IsSession, Decrypted
<1>4. IsSession(NoSession)
  BY DEF IsSession, NoSession
<1>3. ASSUME NEW x
      PROVE  IsSession(NewRatchet(x))
  <2>1. PICK n : n = NoSession
    OBVIOUS
  <2>2. IsSession(n)
    BY <1>4, <2>1
  <2>3. NewRatchet(x) = [n EXCEPT !.secret = x]
    BY <2>1 DEF NewRatchet
  <2>. QED  BY <2>2, <2>3 DEF IsSession
<1>. QED  BY <1>1, <1>2, <1>3, <1>4

(* The pump handles .blobFetched: a handshake starts.                       *)
LEMMA BlobFetchedStep ==
    ASSUME StepInv, NEW u \in User, OnBlobFetched(u)
    PROVE  StepInv'
<1> DEFINE v == PeerOf(u)
           ephemeral == <<"EK", u, v, handshakes[u][v] + 1>>
           result == X3dhInitiate(u, ephemeral, Head(events[u]).data)
           s == NewRatchet(result.secret)
           e == Envelope(u, v, "handshake", result.initial, s, Item(outbox[u], v))
           S1 == [states EXCEPT ![u] = Ended(u, v)]
<1>1. /\ Takes(u, "blobFetched")
      /\ UNCHANGED <<outbox, card, app, pump, links, dials, fetches, acks, mailbox>>
  BY DEF OnBlobFetched
<1>2. /\ EventsOk(events') /\ v \in User \ {u}
      /\ states[u][v] = "fetchingCard"
      /\ Steps(S1, flying, acks, events', fetches, dials)
  <2>1. "blobFetched" \in CardKinds
    BY DEF CardKinds
  <2>. QED  BY <1>1, <2>1, TakesKeeps
<1>3. \/ /\ session' = [session EXCEPT ![u][v] = Encrypted(s)]
         /\ flying' = flying \cup {e}
         /\ states' = [states EXCEPT ![u][v] = "sendingEnvelope"]
      \/ states' = S1 /\ UNCHANGED <<session, flying>>
  BY <1>2 DEF OnBlobFetched, Started
<1>4. /\ S1 \in AllStates
      /\ [states EXCEPT ![u][v] = "sendingEnvelope"] \in AllStates
      /\ [states EXCEPT ![u][v] = "sendingEnvelope"]
           = [states EXCEPT ![u] = [@ EXCEPT ![v] = "sendingEnvelope"]]
  <2>1. "sendingEnvelope" \in States
    BY DEF States
  <2>. QED  BY <1>2, <2>1, RowChanged
<1>5. [states EXCEPT ![u][v] = "sendingEnvelope"]
        = [S1 EXCEPT ![u] = [@ EXCEPT ![v] = "sendingEnvelope"]]
  <2>1. states \in [User -> [User -> States]]
    BY DEF StepInv, TypeInv, SendingOk, AllStates
  <2>. QED  BY <1>2, <2>1 DEF Ended
<1>6. S1[u][v] = "none"
  <2>1. states \in [User -> [User -> States]]
    BY DEF StepInv, TypeInv, SendingOk, AllStates
  <2>. QED  BY <1>2, <2>1 DEF Ended
<1>7. SendingOk(states, session, dials, fetches, flying)
  BY DEF StepInv, TypeInv
<1>8. e.from = u /\ e.to = v /\ IsEnvelope(e)
  BY <1>2 DEF Envelope, IsEnvelope, Pairs
<1>9. IsSession(Encrypted(s))
  BY SessionShapes
<1>10. AllSeqs(events')
  BY <1>2 DEF EventsOk
<1> HIDE DEF v, e, s, S1
<1>11. CASE /\ session' = [session EXCEPT ![u][v] = Encrypted(s)]
            /\ flying' = flying \cup {e}
            /\ states' = [states EXCEPT ![u][v] = "sendingEnvelope"]
  <2>1. SessionsOk(session')
    BY <1>2, <1>7, <1>9, <1>11, SessionChanged DEF SendingOk
  <2>2. IsFiniteSet(flying')
    BY <1>7, <1>11, FS_AddElement DEF SendingOk
  <2>3. SendingOk(states', session', dials, fetches, flying')
    BY <1>4, <1>7, <1>8, <1>11, <2>1, <2>2 DEF SendingOk
  <2>4. Steps(states', flying', acks, events', fetches, dials)
    <3>1. IsFiniteSet(flying)
      BY <1>7 DEF SendingOk
    <3>2. \A d : d.from = u /\ d.to = v =>
             Steps([S1 EXCEPT ![u] = [@ EXCEPT ![v] = "sendingEnvelope"]],
                   flying \cup {d}, acks, events', fetches, dials)
      BY <1>2, <1>4, <1>6, <1>10, <3>1, StepsBegin
    <3>. QED  BY <1>5, <1>8, <1>11, <3>2
  <2>. QED  BY <1>1, <1>2, <2>3, <2>4 DEF StepInv, TypeInv
<1>12. CASE states' = S1 /\ UNCHANGED <<session, flying>>
  BY <1>1, <1>2, <1>4, <1>7, <1>12 DEF StepInv, TypeInv, SendingOk
<1>. QED  BY <1>3, <1>11, <1>12

(* The pump handles a handshake envelope.                                   *)
LEMMA HandshakeStep ==
    ASSUME StepInv, NEW u \in User, OnHandshake(u)
    PROVE  StepInv'
<1> DEFINE v == PeerOf(u)
           e == Head(events[u]).data
           s == NewRatchet(X3dhRespond(u, prekeys[u], e.initial).secret)
<1>1. /\ Takes(u, "envelope")
      /\ \/ session' = [session EXCEPT ![u][v] = Decrypted(s, e)]
         \/ UNCHANGED session
      /\ Opened(u, e) \/ UNCHANGED pump
      /\ UNCHANGED <<outbox, card, states, app, links, dials,
                     fetches, flying, acks, mailbox>>
  BY DEF OnHandshake
<1>2. /\ EventsOk(events') /\ v \in User \ {u}
      /\ Steps(states, flying, acks, events', fetches, dials)
  <2>1. "envelope" \notin EndKinds \cup CardKinds \cup WakeKinds
    BY DEF EndKinds, CardKinds, WakeKinds
  <2>. QED  BY <1>1, <2>1, TakesKeeps
<1>3. SessionsOk(session)
  BY DEF StepInv, TypeInv, SendingOk
<1>4. IsSession(Decrypted(s, e))
  BY SessionShapes
<1> HIDE DEF v, e, s
<1>5. SessionsOk(session')
  BY <1>1, <1>2, <1>3, <1>4, SessionChanged
<1>6. PumpsOk(pump')
  BY <1>1, PumpOpened
<1>. QED  BY <1>1, <1>2, <1>5, <1>6 DEF StepInv, TypeInv, SendingOk

(* The pump handles a continuing envelope, from the peer or the mailbox.    *)
LEMMA ContinuingStep ==
    ASSUME StepInv, NEW u \in User, NEW kind \in {"envelope", "retrieved"},
           OnContinuing(u, kind)
    PROVE  StepInv'
<1> DEFINE e == Head(events[u]).data
<1>1. /\ Takes(u, kind) /\ (Opened(u, e) \/ UNCHANGED pump)
      /\ UNCHANGED <<outbox, card, states, app, links, dials,
                     fetches, flying, acks, mailbox>>
  BY DEF OnContinuing
<1>2. /\ EventsOk(events') /\ PeerOf(u) \in User \ {u}
      /\ Steps(states, flying, acks, events', fetches, dials)
  <2>1. kind \notin EndKinds \cup CardKinds \cup WakeKinds
    BY DEF EndKinds, CardKinds, WakeKinds
  <2>. QED  BY <1>1, <2>1, TakesKeeps
<1>3. \/ \E v \in User : session' = [session EXCEPT ![u][v] = Decrypted(session[u][v], e)]
      \/ UNCHANGED session
  <2> DEFINE tried == IF kind = "envelope" THEN {PeerOf(u)} ELSE User
             fits == {v \in tried : Opens(u, session[u][v], e)}
  <2>1. (\E v \in fits : Keeps(u, v, e)) \/ UNCHANGED session
    BY DEF OnContinuing
  <2>2. fits \subseteq User
    BY <1>2
  <2>. QED  BY <2>1, <2>2 DEF Keeps
<1>4. SessionsOk(session)
  BY DEF StepInv, TypeInv, SendingOk
<1>5. SessionsOk(session')
  <2>1. ASSUME NEW v \in User,
               session' = [session EXCEPT ![u][v] = Decrypted(session[u][v], e)]
        PROVE  SessionsOk(session')
    <3>1. IsSession(Decrypted(session[u][v], e))
      BY <1>4, SessionShapes DEF SessionsOk
    <3> HIDE DEF e
    <3>. QED  BY <1>4, <2>1, <3>1, SessionChanged
  <2>. QED  BY <1>3, <1>4, <2>1
<1>6. PumpsOk(pump')
  <2> HIDE DEF e
  <2>. QED  BY <1>1, PumpOpened
<1>. QED  BY <1>1, <1>2, <1>5, <1>6 DEF StepInv, TypeInv, SendingOk

(* The pump shows what it opened.                                           *)
LEMMA ShowStep ==
    ASSUME StepInv, NEW u \in User, ShowOpened(u)
    PROVE  StepInv'
<1>1. /\ pump' = [pump EXCEPT ![u] = NoTask]
      /\ UNCHANGED <<outbox, session, card, states, app, events, links, dials,
                     fetches, flying, acks, mailbox>>
  BY DEF ShowOpened, disk, net
<1>2. PumpsOk(pump')
  BY <1>1, PumpChanged DEF IsPump, StepInv, TypeInv
<1>. QED  BY <1>1, <1>2 DEF StepInv, TypeInv

(* The pump handles .envelopeDelivered.                                     *)
LEMMA DeliveredStep ==
    ASSUME StepInv, NEW u \in User, OnEnvelopeDelivered(u)
    PROVE  StepInv'
<1> DEFINE v == PeerOf(u)
           S1 == [states EXCEPT ![u] = Ended(u, v)]
           t == [at |-> "delivered", to |-> v, box |-> outbox[u]]
<1>1. /\ Takes(u, "delivered")
      /\ UNCHANGED <<outbox, session, card, app, links, dials,
                     fetches, flying, acks, mailbox>>
  BY DEF OnEnvelopeDelivered, disk
<1>2. /\ EventsOk(events') /\ v \in User \ {u}
      /\ states[u][v] = "sendingEnvelope"
      /\ Steps(S1, flying, acks, events', fetches, dials)
  <2>1. "delivered" \in EndKinds
    BY DEF EndKinds
  <2>. QED  BY <1>1, <2>1, TakesKeeps
<1>3. states' = S1 /\ pump' = [pump EXCEPT ![u] = t]
  BY <1>2 DEF OnEnvelopeDelivered
<1>4. S1 \in AllStates
  <2>1. "none" \in States
    BY DEF States
  <2>. QED  BY <1>2, <2>1, RowChanged
<1>5. IsPump(u, t)
  <2>1. IsBox(u, outbox[u])
    BY DEF StepInv, TypeInv, BoxesOk
  <2>. QED  BY <1>2, <2>1 DEF IsPump
<1> HIDE DEF v, S1, t
<1>6. PumpsOk(pump')
  BY <1>3, <1>5, PumpChanged DEF StepInv, TypeInv
<1>. QED  BY <1>1, <1>2, <1>3, <1>4, <1>6 DEF StepInv, TypeInv, SendingOk

(* The pump handles .envelopeDeliveryFailed: the mailbox fallback.          *)
LEMMA DeliveryFailedStep ==
    ASSUME StepInv, NEW u \in User, OnEnvelopeDeliveryFailed(u)
    PROVE  StepInv'
<1> DEFINE v == PeerOf(u)
           S1 == [states EXCEPT ![u] = Ended(u, v)]
           s == session[u][v]
           e == Envelope(u, v, "continuing", NoData, s, Item(outbox[u], v))
<1>1. /\ Takes(u, "failed")
      /\ UNCHANGED <<outbox, card, app, pump, links, dials, fetches, flying, acks>>
  BY DEF OnEnvelopeDeliveryFailed
<1>2. /\ EventsOk(events') /\ v \in User \ {u}
      /\ states[u][v] = "sendingEnvelope"
      /\ Steps(S1, flying, acks, events', fetches, dials)
  <2>1. "failed" \in EndKinds
    BY DEF EndKinds
  <2>. QED  BY <1>1, <2>1, TakesKeeps
<1>3. /\ states' = S1
      /\ \/ /\ session' = [session EXCEPT ![u][v] = Encrypted(s)]
            /\ mailbox' = mailbox \cup {e}
         \/ UNCHANGED <<session, mailbox>>
  BY <1>2 DEF OnEnvelopeDeliveryFailed
<1>4. S1 \in AllStates
  <2>1. "none" \in States
    BY DEF States
  <2>. QED  BY <1>2, <2>1, RowChanged
<1>5. IsEnvelope(e) /\ e.kind = "continuing"
  BY <1>2 DEF Envelope, IsEnvelope, Pairs
<1>6. SessionsOk(session) /\ IsSession(Encrypted(s))
  <2>1. SessionsOk(session)
    BY DEF StepInv, TypeInv, SendingOk
  <2>. QED  BY <1>2, <2>1, SessionShapes DEF SessionsOk
<1> HIDE DEF v, S1, s, e
<1>7. SessionsOk(session')
  BY <1>2, <1>3, <1>6, SessionChanged
<1>8. \A d \in mailbox' : IsEnvelope(d) /\ d.kind = "continuing"
  BY <1>3, <1>5 DEF StepInv, TypeInv
<1>. QED  BY <1>1, <1>2, <1>3, <1>4, <1>7, <1>8 DEF StepInv, TypeInv, SendingOk

(* A box without one of its items: the others are there, in their order.    *)
LEMMA BoxWithout ==
    ASSUME NEW box, IsSeq(box), NEW i \in DOMAIN box
    PROVE  /\ IsSeq(Without(box, i))
           /\ DOMAIN box = 1..Len(box) /\ Len(box) \in Nat
           /\ DOMAIN Without(box, i) = 1..(Len(box) - 1)
           /\ \A k \in DOMAIN Without(box, i) :
                Without(box, i)[k] = IF k < i THEN box[k] ELSE box[k + 1]
<1> DEFINE S == Items(box)
           n == Len(box)
           a == SubSeq(box, 1, i - 1)
           b == SubSeq(box, i + 1, n)
           w == a \o b
<1>1. box \in Seq(S) /\ n \in Nat /\ DOMAIN box = 1..n /\ i \in 1..n
  BY DEF IsSeq
<1>2. Without(box, i) = w
  BY DEF Without, RemoveAt
<1> HIDE DEF S
<1>3. /\ a \in Seq(S) /\ Len(a) = i - 1
      /\ \A k \in 1..(i - 1) : a[k] = box[k]
  <2>1. 1..(i - 1) \subseteq 1..n
    BY <1>1
  <2>. QED  BY <1>1, <2>1
<1>4. /\ b \in Seq(S) /\ Len(b) = n - i
      /\ \A k \in 1..(n - i) : b[k] = box[k + i]
  BY <1>1
<1> HIDE DEF a, b, n
<1>5. /\ w \in Seq(S) /\ Len(w) = n - 1
      /\ \A k \in 1..(n - 1) : w[k] = IF k <= Len(a) THEN a[k] ELSE b[k - Len(a)]
  <2>1. w \in Seq(S) /\ Len(w) = Len(a) + Len(b)
    BY <1>3, <1>4
  <2>2. \A k \in 1..(Len(a) + Len(b)) :
           w[k] = IF k <= Len(a) THEN a[k] ELSE b[k - Len(a)]
    BY <1>3, <1>4
  <2>3. Len(a) + Len(b) = n - 1
    BY <1>1, <1>3, <1>4
  <2>. QED  BY <2>1, <2>2, <2>3
<1> HIDE DEF w
<1>6. ASSUME NEW k \in 1..(n - 1)
      PROVE  w[k] = IF k < i THEN box[k] ELSE box[k + 1]
  <2>1. CASE k < i
    <3>1. k \in 1..(i - 1) /\ k <= Len(a)
      BY <1>1, <1>3, <2>1
    <3>. QED  BY <1>3, <1>5, <2>1, <3>1
  <2>2. CASE ~ (k < i)
    <3>1. ~ (k <= Len(a)) /\ k - Len(a) \in 1..(n - i) /\ (k - Len(a)) + i = k + 1
      BY <1>1, <1>3, <2>2
    <3>2. w[k] = b[k - Len(a)] /\ b[k - Len(a)] = box[(k - Len(a)) + i]
      BY <1>4, <1>5, <3>1
    <3>. QED  BY <2>2, <3>1, <3>2
  <2>. QED  BY <2>1, <2>2
<1>7. DOMAIN w = 1..(n - 1)
  BY <1>5
<1>8. w \in Seq(Items(w))
  <2>1. w = [k \in 1..Len(w) |-> w[k]] /\ Len(w) \in Nat
    BY <1>5
  <2>2. w \in [1..Len(w) -> Items(w)]
    BY <2>1 DEF Items
  <2>. QED  BY <2>1, <2>2
<1>. QED  BY <1>1, <1>2, <1>6, <1>7, <1>8 DEF IsSeq, n

(* The first item for v, and where it is.                                   *)
LEMMA FirstItem ==
    ASSUME NEW box, IsSeq(box), NEW v, HasItem(box, v)
    PROVE  /\ First(box, v) \in DOMAIN box /\ box[First(box, v)].to = v
           /\ Item(box, v) = box[First(box, v)]
           /\ \A j \in DOMAIN box : box[j].to = v => First(box, v) <= j
<1>1. ItemsFor(box, v) \in SUBSET Nat /\ ItemsFor(box, v) # {}
  BY DEF HasItem, ItemsFor, IsSeq
<1>2. \E i \in ItemsFor(box, v) : \A j \in ItemsFor(box, v) : i <= j
  BY <1>1, LeastElement
<1>3. /\ First(box, v) \in ItemsFor(box, v)
      /\ \A j \in ItemsFor(box, v) : First(box, v) <= j
  BY <1>2 DEF First
<1>. QED  BY <1>3 DEF ItemsFor, Item

(* It is the first if no earlier one is for v.                              *)
LEMMA ItIsFirst ==
    ASSUME NEW box, IsSeq(box), NEW v, NEW i \in DOMAIN box, box[i].to = v,
           \A j \in DOMAIN box : box[j].to = v => i <= j
    PROVE  HasItem(box, v) /\ First(box, v) = i /\ Item(box, v) = box[i]
<1>1. HasItem(box, v)
  BY DEF HasItem, ItemsFor
<1>2. /\ First(box, v) \in DOMAIN box /\ box[First(box, v)].to = v
      /\ Item(box, v) = box[First(box, v)]
      /\ First(box, v) <= i
  BY <1>1, FirstItem
<1>3. i <= First(box, v) /\ i \in Int /\ First(box, v) \in Int
  BY <1>2 DEF IsSeq
<1>. QED  BY <1>1, <1>2, <1>3

(* The pump saves the outbox without the item delivered, and goes on.       *)
LEMMA RemoveStep ==
    ASSUME StepInv, NEW u \in User, RemoveAndContinue(u)
    PROVE  StepInv'
<1> DEFINE v == pump[u].to
           box == pump[u].box
           rest == IF HasItem(box, v) THEN Without(box, Delivered(box, v))
                   ELSE outbox[u]
           r == Reads(u, v, rest)
<1>1. /\ pump[u].at = "delivered"
      /\ outbox' = [outbox EXCEPT ![u] = rest]
      /\ pump' = [pump EXCEPT ![u] = NoTask]
      /\ \/ Attempt(u, v, states[u], r)
         \/ /\ states' = [states EXCEPT ![u] = states[u]]
            /\ UNCHANGED <<session, dials, fetches, flying>>
  BY DEF RemoveAndContinue, AttemptIfQueued
<1>2. UNCHANGED <<card, app, events, links, acks, mailbox>>
  BY DEF RemoveAndContinue
<1>3. v \in User \ {u} /\ IsBox(u, box)
  <2>1. IsPump(u, pump[u])
    BY DEF StepInv, TypeInv, PumpsOk
  <2>. QED  BY <1>1, <2>1 DEF IsPump, NoTask
<1>4. IsBox(u, rest)
  <2>1. CASE HasItem(box, v)
    <3> DEFINE i == First(box, v)
               w == Without(box, i)
    <3>1. i \in DOMAIN box /\ IsSeq(box)
      BY <1>3, <2>1, FirstItem DEF IsBox
    <3>2. rest = w
      BY <2>1 DEF Delivered
    <3>3. /\ IsSeq(w) /\ DOMAIN box = 1..Len(box) /\ Len(box) \in Nat
          /\ DOMAIN w = 1..(Len(box) - 1)
          /\ \A k \in DOMAIN w : w[k] = IF k < i THEN box[k] ELSE box[k + 1]
      <4> HIDE DEF i
      <4>. QED  BY <3>1, BoxWithout
    <3> HIDE DEF i, w, rest
    <3>4. \A k \in DOMAIN w : w[k].to \in User \ {u}
      BY <1>3, <3>3 DEF IsBox
    <3>. QED  BY <3>2, <3>3, <3>4 DEF IsBox
  <2>2. CASE ~HasItem(box, v)
    BY <2>2 DEF StepInv, TypeInv, BoxesOk
  <2>. QED  BY <2>1, <2>2
<1>5. IsSession(r.session)
  <2>1. IsSession(session[u][v])
    BY <1>3 DEF StepInv, TypeInv, SendingOk, SessionsOk
  <2> HIDE DEF rest
  <2>. QED  BY <2>1 DEF Reads
<1>6. /\ SendingOk(states, session, dials, fetches, flying) /\ AllSeqs(events)
      /\ states[u] \in [User -> States]
      /\ Steps([states EXCEPT ![u] = states[u]], flying, acks, events, fetches, dials)
  <2>1. states[u] \in [User -> States] /\ [states EXCEPT ![u] = states[u]] = states
    BY DEF StepInv, TypeInv, SendingOk, AllStates
  <2>. QED  BY <2>1 DEF StepInv, TypeInv, EventsOk
<1> HIDE DEF v, rest, r
<1>7. /\ SendingOk(states', session', dials', fetches', flying')
      /\ Steps(states', flying', acks, events, fetches', dials')
  <2>1. CASE Attempt(u, v, states[u], r)
    BY <1>3, <1>5, <1>6, <2>1, AttemptKeeps
  <2>2. CASE /\ states' = [states EXCEPT ![u] = states[u]]
             /\ UNCHANGED <<session, dials, fetches, flying>>
    <3>1. states' = states
      BY <2>2 DEF StepInv, TypeInv, SendingOk, AllStates
    <3>. QED  BY <2>2, <3>1 DEF StepInv, TypeInv
  <2>. QED  BY <1>1, <2>1, <2>2
<1>8. PumpsOk(pump')
  BY <1>1, PumpChanged DEF IsPump, StepInv, TypeInv
<1>9. BoxesOk(outbox')
  BY <1>1, <1>4, BoxChanged DEF StepInv, TypeInv
<1>. QED  BY <1>2, <1>7, <1>8, <1>9 DEF StepInv, TypeInv

(* The two nodes report a connection, or its end, to their users.           *)
LEMMA BothKeep ==
    ASSUME StepInv, NEW u \in User, NEW v \in User, u # v,
           NEW kind \in {"connected", "disconnected"}, Both({u, v}, kind)
    PROVE  /\ EventsOk(events')
           /\ Steps(states, flying, acks, events', fetches, dials)
           /\ kind = "connected" =>
                Steps(states, flying, acks, events', fetches, dials \ {<<u, v>>})
<1> DEFINE e1 == Event(kind, v, NoData)
           e2 == Event(kind, u, NoData)
           E1 == Told(events, u, e1)
<1>1. /\ EventsOk(events) /\ IsFiniteSet(flying) /\ AllSeqs(events)
      /\ Steps(states, flying, acks, events, fetches, dials)
  BY DEF StepInv, TypeInv, SendingOk, EventsOk
<1>2. events' = Told(E1, v, e2)
  BY <1>1, BothTold
<1>3. /\ IsEvent(u, e1) /\ IsEvent(v, e2)
      /\ e1.kind = kind /\ e1.peer = v /\ e2.kind = kind
  BY DEF Event, IsEvent, WakeKinds
<1>4. kind \notin EndKinds \cup CardKinds /\ (kind = "connected" => kind \in WakeKinds)
  BY DEF EndKinds, CardKinds, WakeKinds
<1> HIDE DEF e1, e2
<1>5. EventsOk(E1) /\ AllSeqs(E1)
  BY <1>1, <1>3, EventTold DEF EventsOk
<1>6. /\ Steps(states, flying, acks, E1, fetches, dials)
      /\ e1.kind \in WakeKinds =>
           Steps(states, flying, acks, E1, fetches, dials \ {<<u, e1.peer>>})
  BY <1>1, <1>3, <1>4, StepsTold
<1> HIDE DEF E1
<1>7. EventsOk(Told(E1, v, e2))
  BY <1>3, <1>5, EventTold
<1>8. Steps(states, flying, acks, Told(E1, v, e2), fetches, dials)
  BY <1>1, <1>3, <1>4, <1>5, <1>6, StepsTold
<1>9. ASSUME kind = "connected"
      PROVE  Steps(states, flying, acks, Told(E1, v, e2), fetches, dials \ {<<u, v>>})
  <2>1. Steps(states, flying, acks, E1, fetches, dials \ {<<u, v>>})
    BY <1>3, <1>4, <1>6, <1>9
  <2>. QED  BY <1>1, <1>3, <1>4, <1>5, <2>1, StepsTold
<1>. QED  BY <1>2, <1>7, <1>8, <1>9

(* A dial reaches the peer.                                                 *)
LEMMA DialConnectsStep ==
    ASSUME StepInv, NEW u \in User, NEW v \in User, DialConnects(u, v)
    PROVE  StepInv'
<1>1. /\ <<u, v>> \in dials /\ dials' = dials \ {<<u, v>>}
      /\ links' = [links EXCEPT ![{u, v}] = @ + 1]
      /\ Both({u, v}, "connected")
      /\ UNCHANGED <<outbox, session, card, states, app, pump, fetches, flying,
                     acks, mailbox>>
  BY DEF DialConnects, disk, memory
<1>2. u # v
  BY <1>1 DEF StepInv, TypeInv, SendingOk, Pairs
<1>3. /\ EventsOk(events')
      /\ Steps(states, flying, acks, events', fetches, dials \ {<<u, v>>})
  BY <1>1, <1>2, BothKeep
<1>4. DOMAIN links' = DOMAIN links
  BY <1>1
<1>. QED  BY <1>1, <1>3, <1>4 DEF StepInv, TypeInv, SendingOk

(* Two nodes connect by themselves, or lose their connection.               *)
LEMMA LinksStep ==
    ASSUME StepInv, NEW p \in DOMAIN links, NodesConnect(p) \/ Disconnect(p)
    PROVE  StepInv'
<1>1. /\ DOMAIN links' = DOMAIN links
      /\ Both(p, "connected") \/ Both(p, "disconnected")
      /\ UNCHANGED <<outbox, session, card, states, app, pump, dials, fetches,
                     flying, acks, mailbox>>
  BY DEF NodesConnect, Disconnect, disk, memory
<1>2. PICK u \in User, v \in User : u # v /\ p = {u, v}
  <2>1. PICK t \in Talks : p = {t[1], t[2]}
    BY DEF StepInv, TypeInv
  <2>2. t[1] \in User /\ t[2] \in User /\ t[1] # t[2]
    BY ChatAssumption
  <2>. QED  BY <2>1, <2>2
<1>3. EventsOk(events') /\ Steps(states, flying, acks, events', fetches, dials)
  BY <1>1, <1>2, BothKeep
<1>. QED  BY <1>1, <1>3 DEF StepInv, TypeInv

(* An event that ends a step of u, or answers nothing.                      *)
LEMMA EnqueueKeeps ==
    ASSUME StepInv, NEW u \in User, NEW ev, IsEvent(u, ev), Enqueue(u, ev)
    PROVE  /\ events' = Told(events, u, ev) /\ EventsOk(events')
           /\ ev.kind \notin EndKinds \cup CardKinds =>
                Steps(states, flying, acks, events', fetches, dials)
           /\ ev.kind \in WakeKinds =>
                Steps(states, flying, acks, events', fetches, dials \ {<<u, ev.peer>>})
           /\ \A e \in flying : ev.kind \in EndKinds /\ e.from = u /\ e.to = ev.peer =>
                Steps(states, flying \ {e}, acks, events', fetches, dials)
           /\ ev.kind \in EndKinds /\ <<u, ev.peer>> \in acks =>
                Steps(states, flying, acks \ {<<u, ev.peer>>}, events', fetches, dials)
           /\ ev.kind \in CardKinds /\ <<u, ev.peer>> \in fetches =>
                Steps(states, flying, acks, events', fetches \ {<<u, ev.peer>>}, dials)
<1>1. events' = Told(events, u, ev)
  BY DEF Enqueue, Told
<1>2. /\ EventsOk(events) /\ IsFiniteSet(flying) /\ AllSeqs(events)
      /\ Steps(states, flying, acks, events, fetches, dials)
  BY DEF StepInv, TypeInv, SendingOk, EventsOk
<1>3. EventsOk(Told(events, u, ev))
  BY <1>2, EventTold
<1>4. ASSUME ev.kind \notin EndKinds \cup CardKinds
      PROVE  /\ Steps(states, flying, acks, Told(events, u, ev), fetches, dials)
             /\ ev.kind \in WakeKinds =>
                  Steps(states, flying, acks, Told(events, u, ev), fetches,
                        dials \ {<<u, ev.peer>>})
  BY <1>2, <1>4, StepsTold
<1>5. /\ \A e \in flying : ev.kind \in EndKinds /\ e.from = u /\ e.to = ev.peer =>
           Steps(states, flying \ {e}, acks, Told(events, u, ev), fetches, dials)
      /\ ev.kind \in EndKinds /\ <<u, ev.peer>> \in acks =>
           Steps(states, flying, acks \ {<<u, ev.peer>>}, Told(events, u, ev),
                 fetches, dials)
      /\ ev.kind \in CardKinds /\ <<u, ev.peer>> \in fetches =>
           Steps(states, flying, acks, Told(events, u, ev),
                 fetches \ {<<u, ev.peer>>}, dials)
  BY <1>2, StepsAnswered
<1>6. ev.kind \in WakeKinds => ev.kind \notin EndKinds \cup CardKinds
  BY DEF EndKinds, CardKinds, WakeKinds
<1>. QED  BY <1>1, <1>3, <1>4, <1>5, <1>6

(* The shape of an event.                                                   *)
LEMMA EventShape ==
    ASSUME NEW kind, NEW v, NEW data
    PROVE  /\ Event(kind, v, data).kind = kind /\ Event(kind, v, data).peer = v
           /\ Event(kind, v, data).data = data
           /\ \A u : /\ v \in User \ {u}
                     /\ kind \in {"connected", "dialFailed", "disconnected",
                                  "blobFetchFailed", "delivered", "failed"}
                     => IsEvent(u, Event(kind, v, data))
  BY DEF Event, IsEvent, EndKinds, CardKinds, WakeKinds

(* A dial fails.                                                            *)
LEMMA DialFailsStep ==
    ASSUME StepInv, NEW u \in User, NEW v \in User, DialFails(u, v)
    PROVE  StepInv'
<1> DEFINE ev == Event("dialFailed", v, NoData)
<1>1. /\ <<u, v>> \in dials /\ dials' = dials \ {<<u, v>>}
      /\ Enqueue(u, ev)
      /\ UNCHANGED <<outbox, session, card, states, app, pump, links, fetches,
                     flying, acks, mailbox>>
  BY DEF DialFails, disk, memory
<1>2. v \in User \ {u}
  BY <1>1 DEF StepInv, TypeInv, SendingOk, Pairs
<1>3. IsEvent(u, ev) /\ ev.kind \in WakeKinds /\ ev.peer = v
  BY <1>2, EventShape DEF WakeKinds
<1> HIDE DEF ev
<1>4. /\ EventsOk(events')
      /\ Steps(states, flying, acks, events', fetches, dials \ {<<u, v>>})
  BY <1>1, <1>3, EnqueueKeeps
<1>. QED  BY <1>1, <1>4 DEF StepInv, TypeInv, SendingOk

(* The fetch of a contact card ends.                                        *)
LEMMA CardStep ==
    ASSUME StepInv, NEW u \in User, NEW v \in User,
           CardFetched(u, v) \/ CardFetchFails(u, v)
    PROVE  StepInv'
<1>1. /\ <<u, v>> \in fetches /\ fetches' = fetches \ {<<u, v>>}
      /\ UNCHANGED <<outbox, session, card, states, app, pump, links, dials,
                     flying, acks, mailbox>>
  BY DEF CardFetched, CardFetchFails, disk, memory
<1>2. v \in User \ {u}
  BY <1>1 DEF StepInv, TypeInv, SendingOk, Pairs
<1>3. PICK ev : /\ Enqueue(u, ev) /\ IsEvent(u, ev)
                /\ ev.kind \in CardKinds /\ ev.peer = v
  <2>1. CASE CardFetched(u, v)
    <3> DEFINE ev == Event("blobFetched", v, card[v])
    <3>1. Enqueue(u, ev)
      BY <2>1 DEF CardFetched
    <3>2. card[v] = ContactCard(v)
      BY <1>2 DEF StepInv, TypeInv
    <3>3. IsEvent(u, ev) /\ ev.kind \in CardKinds /\ ev.peer = v
      BY <1>2, <3>2 DEF IsEvent, Event, CardKinds
    <3>. QED  BY <3>1, <3>3
  <2>2. CASE CardFetchFails(u, v)
    <3> DEFINE ev == Event("blobFetchFailed", v, NoData)
    <3>1. Enqueue(u, ev)
      BY <2>2 DEF CardFetchFails
    <3>2. IsEvent(u, ev) /\ ev.kind \in CardKinds /\ ev.peer = v
      BY <1>2, EventShape DEF CardKinds
    <3>. QED  BY <3>1, <3>2
  <2>. QED  BY <2>1, <2>2
<1>4. /\ EventsOk(events')
      /\ Steps(states, flying, acks, events', fetches \ {<<u, v>>}, dials)
  BY <1>1, <1>3, EnqueueKeeps
<1>. QED  BY <1>1, <1>4 DEF StepInv, TypeInv, SendingOk

(* An envelope reaches the peer's node.                                     *)
LEMMA ArrivesStep ==
    ASSUME StepInv, NEW e \in flying, EnvelopeArrives(e)
    PROVE  StepInv'
<1> DEFINE ev == Event("envelope", e.from, e)
           A2 == acks \cup {<<e.from, e.to>>}
<1>1. /\ flying' = flying \ {e} /\ acks' = A2 /\ Enqueue(e.to, ev)
      /\ UNCHANGED <<outbox, session, card, states, app, pump, links, dials,
                     fetches, mailbox>>
  BY DEF EnvelopeArrives, disk, memory
<1>2. IsEnvelope(e) /\ <<e.from, e.to>> \in Pairs
  BY DEF StepInv, TypeInv, SendingOk, IsEnvelope
<1>3. e.from \in User /\ e.to \in User /\ e.from # e.to
  BY <1>2 DEF Pairs
<1>4. IsEvent(e.to, ev) /\ ev.kind = "envelope"
  BY <1>2, <1>3 DEF IsEvent, Event
<1>5. ev.kind \notin EndKinds \cup CardKinds
  BY <1>4 DEF EndKinds, CardKinds
<1> HIDE DEF ev
<1>6. EventsOk(events') /\ events' = Told(events, e.to, ev)
  BY <1>1, <1>3, <1>4, EnqueueKeeps
<1>7. /\ IsFiniteSet(flying) /\ AllSeqs(events) /\ IsFiniteSet(flying \ {e})
      /\ Steps(states, flying, acks, events, fetches, dials)
  <2>1. IsFiniteSet(flying)
    BY DEF StepInv, TypeInv, SendingOk
  <2>. QED  BY <2>1, FS_RemoveElement DEF StepInv, TypeInv, EventsOk
<1>8. Steps(states, flying \ {e}, A2, events, fetches, dials)
  BY <1>3, <1>7, StepsAcked
<1> HIDE DEF A2
<1>9. Steps(states, flying \ {e}, A2, Told(events, e.to, ev), fetches, dials)
  BY <1>3, <1>5, <1>7, <1>8, StepsTold
<1>10. A2 \subseteq Pairs
  BY <1>2 DEF A2, StepInv, TypeInv
<1>. QED  BY <1>1, <1>6, <1>7, <1>9, <1>10 DEF StepInv, TypeInv, SendingOk

(* An envelope is lost with its connection.                                 *)
LEMMA LostStep ==
    ASSUME StepInv, NEW e \in flying, EnvelopeLost(e)
    PROVE  StepInv'
<1> DEFINE ev == Event("failed", e.to, NoData)
<1>1. /\ flying' = flying \ {e} /\ Enqueue(e.from, ev)
      /\ UNCHANGED <<outbox, session, card, states, app, pump, links, dials,
                     fetches, acks, mailbox>>
  BY DEF EnvelopeLost, disk, memory
<1>2. e.from \in User /\ e.to \in User \ {e.from}
  BY DEF StepInv, TypeInv, SendingOk, IsEnvelope, Pairs
<1>3. IsEvent(e.from, ev) /\ ev.kind \in EndKinds /\ ev.peer = e.to
  BY <1>2, EventShape DEF EndKinds
<1> HIDE DEF ev
<1>4. /\ EventsOk(events')
      /\ Steps(states, flying \ {e}, acks, events', fetches, dials)
  BY <1>1, <1>2, <1>3, EnqueueKeeps
<1>5. IsFiniteSet(flying \ {e})
  BY FS_RemoveElement DEF StepInv, TypeInv, SendingOk
<1>. QED  BY <1>1, <1>4, <1>5 DEF StepInv, TypeInv, SendingOk

(* The acknowledgement of an envelope comes back.                           *)
LEMMA AckStep ==
    ASSUME StepInv, NEW u \in User, NEW v \in User, AckArrives(u, v)
    PROVE  StepInv'
<1>1. /\ <<u, v>> \in acks /\ acks' = acks \ {<<u, v>>}
      /\ \/ Enqueue(u, Event("delivered", v, NoData))
         \/ Enqueue(u, Event("failed", v, NoData))
      /\ UNCHANGED <<outbox, session, card, states, app, pump, links, dials,
                     fetches, flying, mailbox>>
  BY DEF AckArrives, disk, memory
<1>2. v \in User \ {u}
  BY <1>1 DEF StepInv, TypeInv, Pairs
<1>3. PICK ev : /\ Enqueue(u, ev) /\ IsEvent(u, ev)
                /\ ev.kind \in EndKinds /\ ev.peer = v
  BY <1>1, <1>2, EventShape DEF EndKinds
<1>4. /\ EventsOk(events')
      /\ Steps(states, flying, acks \ {<<u, v>>}, events', fetches, dials)
  BY <1>1, <1>3, EnqueueKeeps
<1>. QED  BY <1>1, <1>4 DEF StepInv, TypeInv

(* The mailbox returns an envelope.                                         *)
LEMMA MailboxStep ==
    ASSUME StepInv, NEW u \in User, NEW v \in User, NEW e \in mailbox,
           MailboxReturns(u, v, e)
    PROVE  StepInv'
<1> DEFINE ev == Event("retrieved", v, e)
<1>1. /\ {e.from, e.to} = {u, v} /\ Enqueue(u, ev)
      /\ UNCHANGED <<outbox, session, card, states, app, pump, links, dials,
                     fetches, flying, acks, mailbox>>
  BY DEF MailboxReturns, disk, memory
<1>2. IsEnvelope(e) /\ e.kind = "continuing"
  BY DEF StepInv, TypeInv
<1>3. v \in User \ {u}
  BY <1>1, <1>2 DEF IsEnvelope, Pairs
<1>4. IsEvent(u, ev) /\ ev.kind \notin EndKinds \cup CardKinds
  BY <1>1, <1>2, <1>3 DEF IsEvent, Event, EndKinds, CardKinds
<1> HIDE DEF ev
<1>5. EventsOk(events') /\ Steps(states, flying, acks, events', fetches, dials)
  BY <1>1, <1>4, EnqueueKeeps
<1>. QED  BY <1>1, <1>5 DEF StepInv, TypeInv

(* The app is restarted.                                                    *)
LEMMA RestartStep ==
    ASSUME StepInv, NEW u \in User, Restart(u)
    PROVE  StepInv'
<1> DEFINE waiting == {v \in User : HasItem(outbox[u], v)}
           off == Event("disconnected", u, NoData)
<1>1. /\ card' = [card EXCEPT ![u] = ContactCard(u)]
      /\ states' = [states EXCEPT ![u] =
                      [v \in User |-> IF v \in waiting THEN "dialing" ELSE "none"]]
      /\ dials' = {d \in dials : d[1] # u} \cup {<<u, v>> : v \in waiting}
      /\ app' = [app EXCEPT ![u] = NoTask]
      /\ pump' = [pump EXCEPT ![u] = NoTask]
      /\ DOMAIN links' = DOMAIN links
      /\ fetches' = {f \in fetches : f[1] # u}
      /\ flying' = {e \in flying : e.from # u}
      /\ acks' = {a \in acks : a[1] # u}
      /\ UNCHANGED <<outbox, session, mailbox>>
  BY DEF Restart, disk
<1>2. events' = [v \in User |->
                   IF v = u THEN << >>
                   ELSE IF {u, v} \in DOMAIN links /\ links[{u, v}] > 0
                        THEN Append(events[v], off) ELSE events[v]]
  BY DEF Restart
<1>3. /\ events'[u] = << >> /\ events' = [v \in User |-> events'[v]]
      /\ \A a \in User \ {u} : events'[a] = events[a] \/ events'[a] = Append(events[a], off)
  BY <1>2
<1>4. \A a \in User \ {u} : IsEvent(a, off)
  BY EventShape
<1>5. off.kind = "disconnected"
  BY EventShape
<1> HIDE DEF off, waiting
<1>6. EventsOk(events')
  <2>1. \A a \in User :
           IsSeq(events[a]) /\ \A i \in DOMAIN events[a] : IsEvent(a, events[a][i])
    BY DEF StepInv, TypeInv, EventsOk, AllSeqs
  <2>2. ASSUME NEW a \in User
        PROVE  IsSeq(events'[a]) /\ \A i \in DOMAIN events'[a] : IsEvent(a, events'[a][i])
    <3>1. CASE a = u
      BY <1>3, <3>1, ShortSeqs
    <3>2. CASE a # u /\ events'[a] = events[a]
      BY <2>1, <3>2
    <3>3. CASE a # u /\ events'[a] = Append(events[a], off)
      <4>1. /\ IsSeq(Append(events[a], off))
            /\ DOMAIN events[a] = 1..Len(events[a]) /\ Len(events[a]) \in Nat
            /\ DOMAIN Append(events[a], off) = 1..(Len(events[a]) + 1)
            /\ \A i \in DOMAIN events[a] : Append(events[a], off)[i] = events[a][i]
            /\ Append(events[a], off)[Len(events[a]) + 1] = off
        BY <2>1, AppendItems
      <4>2. ASSUME NEW i \in DOMAIN Append(events[a], off)
            PROVE  IsEvent(a, Append(events[a], off)[i])
        <5> DEFINE n == Len(events[a])
        <5>1. i \in 1..(n + 1) /\ n \in Nat /\ DOMAIN events[a] = 1..n
          BY <4>1, <4>2
        <5>2. i \in DOMAIN events[a] \/ i = n + 1
          <6> HIDE DEF n
          <6>. QED  BY <5>1
        <5>. QED  BY <1>4, <2>1, <3>3, <4>1, <5>2
      <4>. QED  BY <3>3, <4>1, <4>2
    <3>. QED  BY <1>3, <3>1, <3>2, <3>3
  <2>. QED  BY <1>3, <2>2 DEF EventsOk, AllSeqs
<1>7. Steps(states', flying', acks', events', fetches', dials')
  <2>1. /\ states \in AllStates /\ IsFiniteSet(flying) /\ AllSeqs(events)
        /\ Steps(states, flying, acks, events, fetches, dials)
    BY DEF StepInv, TypeInv, SendingOk, EventsOk
  <2>2. waiting \in SUBSET User
    BY DEF waiting
  <2>3. Silenced(events, events', u)
    BY <1>3, <1>5 DEF Silenced
  <2>4. StepsAgain(states, flying, acks, events', fetches, dials, u, waiting)
    BY <2>1, <2>2, <2>3, StepsRestart
  <2>. QED  BY <1>1, <2>4 DEF StepsAgain
<1>8. states' \in AllStates
  <2>1. states \in [User -> [User -> States]]
    BY DEF StepInv, TypeInv, SendingOk, AllStates
  <2>. QED  BY <1>1, <2>1 DEF AllStates, States
<1>9. dials' \subseteq Pairs
  <2>1. \A v \in waiting : v # u /\ v \in User
    <3>1. IsBox(u, outbox[u])
      BY DEF StepInv, TypeInv, BoxesOk
    <3>. QED  BY <3>1 DEF waiting, HasItem, ItemsFor, IsBox
  <2>2. dials \subseteq Pairs
    BY DEF StepInv, TypeInv, SendingOk
  <2>3. \A v \in waiting : <<u, v>> \in Pairs
    BY <2>1 DEF Pairs
  <2>. QED  BY <1>1, <2>2, <2>3
<1>10. IsFiniteSet(flying') /\ \A e \in flying' : IsEnvelope(e)
  <2>1. flying' \in SUBSET flying
    BY <1>1
  <2>. QED  BY <2>1, FS_Subset DEF StepInv, TypeInv, SendingOk
<1>11. card' = [a \in User |-> ContactCard(a)]
  BY <1>1 DEF StepInv, TypeInv
<1>12. AppsOk(app')
  BY <1>1, AppChanged DEF IsApp, StepInv, TypeInv
<1>13. PumpsOk(pump')
  BY <1>1, PumpChanged DEF IsPump, StepInv, TypeInv
<1>14. fetches' \subseteq Pairs /\ acks' \subseteq Pairs
  BY <1>1 DEF StepInv, TypeInv, SendingOk
<1>15. SendingOk(states', session', dials', fetches', flying')
  BY <1>1, <1>8, <1>9, <1>10, <1>14 DEF StepInv, TypeInv, SendingOk
<1>. QED
  BY <1>1, <1>6, <1>7, <1>11, <1>12, <1>13, <1>14, <1>15 DEF StepInv, TypeInv

(* StepInv is true of the initial states.                                   *)
LEMMA StepInvInit == Init => StepInv
<1> SUFFICES ASSUME Init PROVE StepInv
  OBVIOUS
<1> USE DEF Init
<1>1. AllSeqs(events) /\ EventsOk(events)
  BY ShortSeqs DEF AllSeqs, EventsOk
<1>2. BoxesOk(outbox)
  BY ShortSeqs DEF BoxesOk, IsBox
<1>3. SessionsOk(session)
  BY SessionShapes DEF SessionsOk
<1>4. states \in AllStates
  BY DEF AllStates, States
<1>5. IsFiniteSet(flying)
  BY FS_EmptySet
<1>6. AppsOk(app) /\ PumpsOk(pump)
  BY DEF AppsOk, PumpsOk, IsApp, IsPump
<1>7. DOMAIN links = {{t[1], t[2]} : t \in Talks}
  OBVIOUS
<1>8. TypeInv
  BY <1>1, <1>2, <1>3, <1>4, <1>5, <1>6, <1>7 DEF TypeInv, SendingOk
<1>9. Steps(states, flying, acks, events, fetches, dials)
  <2> SUFFICES ASSUME NEW a \in User, NEW b \in User
               PROVE  Owed(states[a][b], Cardinality(Fly(flying, a, b)),
                           Bit(<<a, b>> \in acks), Count(events[a], b, EndKinds),
                           Bit(<<a, b>> \in fetches), Count(events[a], b, CardKinds),
                           Bit(<<a, b>> \in dials), Count(events[a], b, WakeKinds))
    BY DEF Steps
  <2>1. Fly(flying, a, b) = {}
    BY DEF Fly
  <2>2. Cardinality(Fly(flying, a, b)) = 0
    BY <2>1, FS_EmptySet
  <2>3. \A kinds : Count(events[a], b, kinds) = 0
    <3> TAKE kinds
    <3>1. Places(<< >>, b, kinds) = {}
      BY DEF Places
    <3>2. Count(<< >>, b, kinds) = 0
      BY <3>1, ShortSeqs, PlacesFinite
    <3>. QED  BY <3>2
  <2>4. /\ Bit(<<a, b>> \in acks) = 0 /\ Bit(<<a, b>> \in fetches) = 0
        /\ states[a][b] = "none"
    BY DEF Bit
  <2>. QED  BY <2>2, <2>3, <2>4 DEF Owed, Bit
<1>. QED  BY <1>8, <1>9 DEF StepInv

(* StepInv is inductive.                                                    *)
LEMMA StepInvNext == StepInv /\ [Next]_vars => StepInv'
<1> SUFFICES ASSUME StepInv, [Next]_vars PROVE StepInv'
  OBVIOUS
<1>1. CASE UNCHANGED vars
  BY <1>1 DEF StepInv, TypeInv, vars, disk, memory, net
<1>2. ASSUME NEW u \in User, NEW v \in User, SendLoad(u, v)
      PROVE  StepInv'
  BY <1>2, SendLoadStep
<1>3. ASSUME NEW u \in User, SendMessage(u)
      PROVE  StepInv'
  BY <1>3, SendSaveStep, SendAttemptStep DEF SendMessage
<1>4. ASSUME NEW u \in User, Pump(u)
      PROVE  StepInv'
  <2>1. CASE OnPeerConnected(u) \/ OnPeerDisconnected(u) \/ OnDialFailed(u)
             \/ OnBlobFetchFailed(u) \/ OnBlobFetched(u)
    BY <2>1, ConnectedStep, DisconnectedStep, FailedStep, BlobFetchedStep
  <2>2. CASE OnEnvelopeReceived(u) \/ OnMailboxEnvelopeRetrieved(u)
    BY <2>2, HandshakeStep, ContinuingStep
       DEF OnEnvelopeReceived, OnMailboxEnvelopeRetrieved
  <2>3. CASE OnEnvelopeDelivered(u) \/ OnEnvelopeDeliveryFailed(u)
             \/ RemoveAndContinue(u) \/ ShowOpened(u)
    BY <2>3, DeliveredStep, DeliveryFailedStep, RemoveStep, ShowStep
  <2>. QED  BY <1>4, <2>1, <2>2, <2>3 DEF Pump
<1>5. ASSUME NEW u \in User, Restart(u)
      PROVE  StepInv'
  BY <1>5, RestartStep
<1>6. CASE Network
  <2>1. ASSUME NEW u \in User, NEW v \in User,
               \/ DialConnects(u, v) \/ DialFails(u, v)
               \/ CardFetched(u, v) \/ CardFetchFails(u, v) \/ AckArrives(u, v)
        PROVE  StepInv'
    BY <2>1, DialConnectsStep, DialFailsStep, CardStep, AckStep
  <2>2. ASSUME NEW p \in DOMAIN links, NodesConnect(p) \/ Disconnect(p)
        PROVE  StepInv'
    BY <2>2, LinksStep
  <2>3. ASSUME NEW e \in flying, EnvelopeArrives(e) \/ EnvelopeLost(e)
        PROVE  StepInv'
    BY <2>3, ArrivesStep, LostStep
  <2>4. ASSUME NEW u \in User, NEW v \in User, NEW e \in mailbox,
               MailboxReturns(u, v, e)
        PROVE  StepInv'
    BY <2>4, MailboxStep
  <2>. QED  BY <1>6, <2>1, <2>2, <2>3, <2>4 DEF Network
<1>. QED  BY <1>1, <1>2, <1>3, <1>4, <1>5, <1>6 DEF Next

(* The counts of StepInv are those of OneStepPerPeer.                       *)
LEMMA StepInvIsOneStep == StepInv => OneStepPerPeer
<1> SUFFICES ASSUME StepInv, NEW u \in User, NEW v \in User
             PROVE  /\ EnvelopesOut(u, v) = IF states[u][v] = "sendingEnvelope"
                                            THEN 1 ELSE 0
                    /\ FetchesOut(u, v) = IF states[u][v] = "fetchingCard" THEN 1 ELSE 0
                    /\ states[u][v] = "dialing" =>
                         \/ <<u, v>> \in dials
                         \/ Queued(u, v, {"connected", "dialFailed"}) > 0
  BY DEF OneStepPerPeer
<1>1. Owed(states[u][v], Cardinality(Fly(flying, u, v)), Bit(<<u, v>> \in acks),
           Count(events[u], v, EndKinds), Bit(<<u, v>> \in fetches),
           Count(events[u], v, CardKinds), Bit(<<u, v>> \in dials),
           Count(events[u], v, WakeKinds))
  BY DEF StepInv, Steps
<1>2. \A S : Cardinality(S \cap {<<u, v>>}) = Bit(<<u, v>> \in S)
  <2> TAKE S
  <2>1. CASE <<u, v>> \in S
    <3>1. S \cap {<<u, v>>} = {<<u, v>>}
      BY <2>1
    <3>. QED  BY <2>1, <3>1, FS_Singleton DEF Bit
  <2>2. CASE <<u, v>> \notin S
    <3>1. S \cap {<<u, v>>} = {}
      BY <2>2
    <3>. QED  BY <2>2, <3>1, FS_EmptySet DEF Bit
  <2>. QED  BY <2>1, <2>2
<1>3. /\ Queued(u, v, {"delivered", "failed"}) = Count(events[u], v, EndKinds)
      /\ Queued(u, v, {"blobFetched", "blobFetchFailed"}) = Count(events[u], v, CardKinds)
      /\ Queued(u, v, {"connected", "dialFailed"}) = Count(events[u], v, WakeKinds)
  BY DEF Queued, Count, EndKinds, CardKinds, WakeKinds
<1>4. Cardinality({e \in flying : e.from = u /\ e.to = v}) = Cardinality(Fly(flying, u, v))
  BY DEF Fly
<1>5. Bit(<<u, v>> \in dials) = 0 \/ <<u, v>> \in dials
  BY DEF Bit
<1>6. Count(events[u], v, WakeKinds) \in Nat
  BY PlacesFinite DEF StepInv, TypeInv, EventsOk, AllSeqs
<1>7. /\ EnvelopesOut(u, v) = Bit(states[u][v] = "sendingEnvelope")
      /\ FetchesOut(u, v) = Bit(states[u][v] = "fetchingCard")
  BY <1>1, <1>2, <1>3, <1>4 DEF EnvelopesOut, FetchesOut, Owed
<1>8. states[u][v] = "dialing" =>
         <<u, v>> \in dials \/ Queued(u, v, {"connected", "dialFailed"}) > 0
  BY <1>1, <1>3, <1>5, <1>6 DEF Owed
<1>. QED  BY <1>7, <1>8 DEF Bit

(***************************************************************************)
(* A user's outcomes of envelopes and of card fetches carry no number:     *)
(* beginState, transitionState and endState of ChatManager keep exactly    *)
(* one under way for a peer whose state says so, none for any other, and   *)
(* a dial that waits has its answer coming.                                *)
(***************************************************************************)
THEOREM OneStepAtATime == Spec => []OneStepPerPeer
<1>1. Init => StepInv
  BY StepInvInit
<1>2. StepInv /\ [Next]_vars => StepInv'
  BY StepInvNext
<1>3. StepInv => OneStepPerPeer
  BY StepInvIsOneStep
<1>. QED  BY <1>1, <1>2, <1>3, PTL DEF Spec

-----------------------------------------------------------------------------
(* A queued message stays until it arrived                                  *)

(* What is said to be delivered by the events fs is said so by those of es. *)
NoNews(es, fs) ==
    \A i \in DOMAIN fs : fs[i].kind = "delivered" =>
        \E j \in DOMAIN es : es[j] = fs[i]

(* What keeps the news of deliveries in a queue.                            *)
LEMMA NewsFacts ==
    ASSUME NEW es, IsSeq(es)
    PROVE  /\ NoNews(es, es) /\ NoNews(es, << >>)
           /\ \A ev : ev.kind # "delivered" => NoNews(es, Append(es, ev))
           /\ es # << >> => NoNews(es, Tail(es))
<1>1. ASSUME NEW ev, ev.kind # "delivered"
      PROVE  NoNews(es, Append(es, ev))
  <2> DEFINE n == Len(es)
             fs == Append(es, ev)
  <2>1. /\ DOMAIN es = 1..n /\ n \in Nat /\ DOMAIN fs = 1..(n + 1)
        /\ \A i \in DOMAIN es : fs[i] = es[i]
        /\ fs[n + 1] = ev
    BY AppendItems
  <2> HIDE DEF n, fs
  <2>2. \A i \in DOMAIN fs : i \in DOMAIN es \/ i = n + 1
    BY <2>1
  <2>3. NoNews(es, fs)
    BY <1>1, <2>1, <2>2 DEF NoNews
  <2>. QED  BY <2>3 DEF fs
<1>2. ASSUME es # << >>
      PROVE  NoNews(es, Tail(es))
  <2>1. \A i \in DOMAIN Tail(es) : i + 1 \in DOMAIN es /\ Tail(es)[i] = es[i + 1]
    BY <1>2, TailItems
  <2>. QED  BY <2>1 DEF NoNews
<1>. QED  BY <1>1, <1>2 DEF NoNews

(* What the net says of a box stays true while nothing new is said of it.   *)
LEMMA QueueNetKept ==
    ASSUME NEW u, NEW box, NEW F, NEW A, NEW es, NEW arr,
           QueueNet(u, box, F, A, es, arr),
           NEW F2, \A e \in F2 : e.from = u => e \in F \/ Waits(box, e),
           NEW A2, \A v \in User : <<u, v>> \in A2 => <<u, v>> \in A,
           NEW fs, NoNews(es, fs), NEW arr2, arr \subseteq arr2
    PROVE  QueueNet(u, box, F2, A2, fs, arr2)
<1>1. \A v : FrontIn(box, v, arr) => FrontIn(box, v, arr2)
  BY DEF FrontIn
<1>2. \A i \in DOMAIN fs : fs[i].kind = "delivered" => FrontIn(box, fs[i].peer, arr2)
  BY <1>1 DEF QueueNet, NoNews
<1>. QED  BY <1>1, <1>2 DEF QueueNet

(* A step that leaves a user's outbox and threads alone.                    *)
QuietNet(u) ==
    /\ arrived \subseteq arrived' /\ NoNews(events[u], events'[u])
    /\ \A e \in flying' : e.from = u => e \in flying \/ Waits(outbox[u], e)
    /\ \A v \in User : <<u, v>> \in acks' => <<u, v>> \in acks

Quiet(u) ==
    /\ QuietNet(u) /\ outbox'[u] = outbox[u] /\ app'[u] = app[u]
    /\ \/ pump'[u] = pump[u] /\ states'[u] = states[u]
       \/ pump'[u].at # "delivered"

(* A step that is quiet about a user keeps what is said of its outbox.      *)
LEMMA QuietKeeps ==
    ASSUME NEW u \in User, QueueInv(u)
    PROVE  /\ QuietNet(u) => QueueNet(u, outbox[u], flying', acks', events'[u], arrived')
           /\ Quiet(u) => QueueInv(u)'
<1>1. ASSUME QuietNet(u)
      PROVE  QueueNet(u, outbox[u], flying', acks', events'[u], arrived')
  <2>1. /\ QueueNet(u, outbox[u], flying, acks, events[u], arrived)
        /\ arrived \subseteq arrived' /\ NoNews(events[u], events'[u])
        /\ \A e \in flying' : e.from = u => e \in flying \/ Waits(outbox[u], e)
        /\ \A v \in User : <<u, v>> \in acks' => <<u, v>> \in acks
    BY <1>1 DEF QueueInv, QuietNet
  <2>. QED  BY <2>1, QueueNetKept
<1>2. ASSUME Quiet(u)
      PROVE  QueueInv(u)'
  <2>1. QueueNet(u, outbox'[u], flying', acks', events'[u], arrived')
    BY <1>1, <1>2 DEF Quiet
  <2>2. QueuePump(pump'[u], outbox'[u], states'[u], arrived')
    BY <1>2 DEF Quiet, QuietNet, QueueInv, QueuePump, FrontIn
  <2>3. QueueApp(app'[u], outbox'[u])
    BY <1>2 DEF Quiet, QueueInv
  <2>. QED  BY <2>1, <2>2, <2>3 DEF QueueInv
<1>. QED  BY <1>1, <1>2

(* Faults are never forgotten, and a thread that starts its next step while *)
(* the other is in the middle of its own is one.                            *)
LEMMA FaultsStay ==
    ASSUME [Next]_vars
    PROVE  /\ faults \subseteq faults'
           /\ \A u \in User : SoleThread(u)' => SoleThread(u)
<1>1. \A u \in User : \A task : Overlap(u, task) => faults \subseteq faults'
  BY DEF Overlap
<1>2. ASSUME NEW u \in User, NEW v \in User, SendLoad(u, v)
      PROVE  faults \subseteq faults'
  BY <1>1, <1>2 DEF SendLoad
<1>3. ASSUME NEW u \in User, SendMessage(u)
      PROVE  faults \subseteq faults'
  BY <1>1, <1>3 DEF SendMessage, SendSave, SendAttempt
<1>4. ASSUME NEW u \in User, Pump(u)
      PROVE  faults \subseteq faults'
  <2>1. Overlap(u, app) \/ UNCHANGED faults
    BY <1>4 DEF Pump, Takes, ShowOpened, OnPeerConnected, OnPeerDisconnected, OnDialFailed,
         OnFailed, OnBlobFetched, OnBlobFetchFailed, OnEnvelopeReceived,
         OnHandshake, OnContinuing, OnMailboxEnvelopeRetrieved,
         OnEnvelopeDelivered, OnEnvelopeDeliveryFailed, RemoveAndContinue
  <2>. QED  BY <1>1, <2>1
<1>5. ASSUME NEW u \in User, Restart(u)
      PROVE  faults \subseteq faults'
  <2>1. \E S : faults' = faults \cup S
    BY <1>5 DEF Restart
  <2>. QED  BY <2>1
<1>6. ASSUME Network
      PROVE  faults \subseteq faults'
  <2>1. ASSUME NEW e \in flying, EnvelopeLost(e)
        PROVE  faults \subseteq faults'
    BY <2>1 DEF EnvelopeLost
  <2>2. UNCHANGED faults \/ \E e \in flying : EnvelopeLost(e)
    BY <1>6 DEF Network, history, DialConnects, DialFails, NodesConnect, Disconnect,
         CardFetched, CardFetchFails, EnvelopeArrives, AckArrives, MailboxReturns
  <2>. QED  BY <2>1, <2>2
<1>7. ASSUME UNCHANGED vars
      PROVE  faults \subseteq faults'
  <2>1. UNCHANGED history
    BY <1>7 DEF vars
  <2>2. faults' = faults
    BY <2>1 DEF history
  <2>. QED  BY <2>2
<1>8. faults \subseteq faults'
  BY <1>2, <1>3, <1>4, <1>5, <1>6, <1>7 DEF Next
<1>. QED  BY <1>8 DEF SoleThread, Overlapped

(* A step of one thread while the other holds what it has read is an        *)
(* overlap; a sole thread finds the other done with the files.              *)
LEMMA OverlapSeen ==
    ASSUME NEW u \in User, NEW task, Overlap(u, task), SoleThread(u)'
    PROVE  ~ Holds(task[u])
<1>1. Holds(task[u]) /\ ~ Overlapped(u) => Fault(u, u, "overlap") \in faults'
  BY DEF Overlap
<1>2. Overlapped(u) => Fault(u, u, "overlap") \in faults'
  BY DEF Overlap, Overlapped
<1>. QED  BY <1>1, <1>2 DEF SoleThread, Overlapped

(* The pump of a sole thread finds the app idle.                            *)
LEMMA AppIdle ==
    ASSUME StepInv, NEW u \in User, Overlap(u, app), SoleThread(u)'
    PROVE  app[u] = NoTask
<1>1. ~ Holds(app[u])
  BY OverlapSeen
<1>2. app[u].at # "loaded" /\ app[u].at # "read"
  BY <1>1 DEF Holds
<1>. QED  BY <1>2, AppTask

(* Events taken, or told, that say nothing of a delivery.                   *)
LEMMA EventsNoNews ==
    ASSUME StepInv
    PROVE  /\ \A u \in User : \A kind : Takes(u, kind) =>
                \A w \in User : NoNews(events[w], events'[w])
           /\ \A u \in User : \A ev : ev.kind # "delivered" /\ Enqueue(u, ev) =>
                \A w \in User : NoNews(events[w], events'[w])
           /\ \A p : \A kind : kind # "delivered" /\ Both(p, kind) =>
                \A w \in User : NoNews(events[w], events'[w])
           /\ UNCHANGED events => \A w \in User : NoNews(events[w], events'[w])
<1>1. events = [w \in User |-> events[w]] /\ \A w \in User : IsSeq(events[w])
  BY DEF StepInv, TypeInv, EventsOk, AllSeqs
<1>2. ASSUME NEW u \in User, NEW kind, Takes(u, kind), NEW w \in User
      PROVE  NoNews(events[w], events'[w])
  <2>1. events[u] # << >> /\ events' = [events EXCEPT ![u] = Tail(@)]
    BY <1>2 DEF Takes
  <2>2. events'[w] = IF w = u THEN Tail(events[w]) ELSE events[w]
    BY <1>1, <2>1
  <2>. QED  BY <1>1, <2>1, <2>2, NewsFacts
<1>3. ASSUME NEW u \in User, NEW ev, ev.kind # "delivered", Enqueue(u, ev),
             NEW w \in User
      PROVE  NoNews(events[w], events'[w])
  <2>1. events'[w] = IF w = u THEN Append(events[w], ev) ELSE events[w]
    BY <1>1, <1>3 DEF Enqueue
  <2>. QED  BY <1>1, <1>3, <2>1, NewsFacts
<1>4. ASSUME NEW p, NEW kind, kind # "delivered", Both(p, kind), NEW w \in User
      PROVE  NoNews(events[w], events'[w])
  <2> DEFINE ev == Event(kind, CHOOSE v \in p : v # w, NoData)
  <2>1. events'[w] = IF w \in p THEN Append(events[w], ev) ELSE events[w]
    BY <1>4 DEF Both
  <2>2. ev.kind = kind
    BY EventShape
  <2> HIDE DEF ev
  <2>. QED  BY <1>1, <1>4, <2>1, <2>2, NewsFacts
<1>5. ASSUME UNCHANGED events, NEW w \in User
      PROVE  NoNews(events[w], events'[w])
  BY <1>1, <1>5, NewsFacts
<1>. QED  BY <1>2, <1>3, <1>4, <1>5

(* What attemptSend sends, and whose states it changes.                     *)
LEMMA AttemptSends ==
    ASSUME StepInv, NEW u \in User, NEW v \in User, NEW st, NEW r,
           Attempt(u, v, st, r)
    PROVE  /\ \A e \in flying' :
                e \in flying \/ (e.from = u /\ e.to = v /\ e.message = r.item.id)
           /\ \A w \in User \ {u} : states'[w] = states[w]
<1>1. states = [w \in User |-> states[w]]
  BY DEF StepInv, TypeInv, SendingOk, AllStates
<1>2. \A row : \A w \in User \ {u} : [states EXCEPT ![u] = row][w] = states[w]
  BY <1>1
<1>3. \A w \in User \ {u} : states'[w] = states[w]
  <2>1. \E row : states' = [states EXCEPT ![u] = row]
    BY DEF Attempt
  <2>. QED  BY <1>2, <2>1
<1>4. flying' = flying
      \/ \E x : flying' = flying \cup {x} /\ x.from = u /\ x.to = v /\ x.message = r.item.id
  <2> DEFINE x == Envelope(u, v, "continuing", NoData, r.session, r.item)
  <2>1. x.from = u /\ x.to = v /\ x.message = r.item.id
    BY DEF Envelope
  <2>2. flying' = flying \/ flying' = flying \cup {x}
    BY DEF Attempt, Started
  <2> HIDE DEF x
  <2>. QED  BY <2>1, <2>2
<1>. QED  BY <1>3, <1>4

(* The pump's steps that leave the outbox and its threads alone.            *)
LEMMA PumpQuiet ==
    ASSUME StepInv, NEW u \in User,
           \/ OnPeerConnected(u) \/ OnPeerDisconnected(u) \/ OnDialFailed(u)
           \/ OnBlobFetchFailed(u) \/ OnBlobFetched(u) \/ OnEnvelopeReceived(u)
           \/ OnMailboxEnvelopeRetrieved(u) \/ OnEnvelopeDeliveryFailed(u),
           NEW w \in User
    PROVE  Quiet(w)
<1>1. PICK kind : Takes(u, kind)
  BY DEF OnPeerConnected, OnPeerDisconnected, OnDialFailed, OnFailed,
         OnBlobFetchFailed, OnBlobFetched, OnEnvelopeReceived, OnHandshake,
         OnContinuing, OnMailboxEnvelopeRetrieved, OnEnvelopeDeliveryFailed
<1>2. UNCHANGED <<outbox, app, acks, arrived>>
  BY DEF OnPeerConnected, OnPeerDisconnected, OnDialFailed, OnFailed,
         OnBlobFetchFailed, OnBlobFetched, OnEnvelopeReceived, OnHandshake,
         OnContinuing, OnMailboxEnvelopeRetrieved, OnEnvelopeDeliveryFailed, disk
<1>3. NoNews(events[w], events'[w])
  BY <1>1, EventsNoNews
<1>10. /\ \A a \in User \ {u} : pump'[a] = pump[a]
       /\ pump'[u].at # "delivered"
  <2>1. Opened(u, Head(events[u]).data) \/ UNCHANGED pump
    BY DEF OnPeerConnected, OnPeerDisconnected, OnDialFailed, OnFailed,
           OnBlobFetchFailed, OnBlobFetched, OnEnvelopeReceived, OnHandshake,
           OnContinuing, OnMailboxEnvelopeRetrieved, OnEnvelopeDeliveryFailed
  <2>2. pump[u] = NoTask
    BY <1>1 DEF Takes
  <2> DEFINE e == Head(events[u]).data
  <2> HIDE DEF e
  <2>3. Opened(u, e) \/ UNCHANGED pump
    BY <2>1 DEF e
  <2>4. /\ \A a \in User \ {u} : pump'[a] = pump[a]
        /\ pump'[u] = pump[u] \/ pump'[u] = [at |-> "opened", envelope |-> e]
    BY <2>3, PumpOpened
  <2>5. [at |-> "opened", envelope |-> e].at # "delivered" /\ NoTask.at # "delivered"
    BY DEF NoTask
  <2>. QED  BY <2>2, <2>4, <2>5
<1>4. PeerOf(u) \in User
  BY <1>1, TakesKeeps
<1>5. states = [a \in User |-> states[a]]
  BY DEF StepInv, TypeInv, SendingOk, AllStates
<1>6. IsBox(u, outbox[u])
  BY DEF StepInv, TypeInv, BoxesOk
<1> DEFINE Sends == \A e \in flying' :
             e \in flying \/ (e.from = u /\ Waits(outbox[u], e))
           Others == \A a \in User \ {u} : states'[a] = states[a]
<1>7. CASE OnPeerConnected(u)
  <2> DEFINE v == PeerOf(u)
             st == IF states[u][v] = "dialing" THEN Ended(u, v) ELSE states[u]
             r == [Reads(u, v, outbox[u]) EXCEPT !.conn = TRUE]
  <2>1. \/ HasItem(outbox[u], v) /\ Attempt(u, v, st, r)
        \/ states' = [states EXCEPT ![u] = st] /\ UNCHANGED flying
    BY <1>7 DEF OnPeerConnected
  <2>2. r.item = Item(outbox[u], v)
    BY DEF Reads
  <2> HIDE DEF st, r, v
  <2>3. ASSUME HasItem(outbox[u], v), Attempt(u, v, st, r)
        PROVE  Sends /\ Others
    <3>1. /\ \A e \in flying' :
               e \in flying \/ (e.from = u /\ e.to = v /\ e.message = r.item.id)
          /\ Others
      BY <1>4, <2>3, AttemptSends DEF v
    <3>. QED  BY <2>2, <2>3, <3>1 DEF Waits
  <2>4. ASSUME states' = [states EXCEPT ![u] = st], UNCHANGED flying
        PROVE  Sends /\ Others
    BY <1>5, <2>4
  <2>5. Sends /\ Others
    BY <2>1, <2>3, <2>4
  <2>. QED  BY <1>2, <1>3, <1>10, <2>5 DEF Quiet, QuietNet
<1>8. CASE OnBlobFetched(u)
  <2> DEFINE v == PeerOf(u)
             x == Envelope(u, v, "handshake",
                    X3dhInitiate(u, <<"EK", u, v, handshakes[u][v] + 1>>,
                                 Head(events[u]).data).initial,
                    NewRatchet(X3dhInitiate(u, <<"EK", u, v, handshakes[u][v] + 1>>,
                                            Head(events[u]).data).secret),
                    Item(outbox[u], v))
  <2>1. \/ HasItem(outbox[u], v) /\ flying' = flying \cup {x}
        \/ flying' = flying
    BY <1>8 DEF OnBlobFetched, Started
  <2>2. x.from = u /\ x.to = v /\ x.message = Item(outbox[u], v).id
    BY DEF Envelope
  <2> HIDE DEF x, v
  <2>3. Sends
    BY <2>1, <2>2 DEF Waits
  <2>4. Others
    <3>1. \/ states' = states \/ states' = [states EXCEPT ![u][PeerOf(u)] = "sendingEnvelope"]
          \/ states' = [states EXCEPT ![u] = Ended(u, PeerOf(u))]
      BY <1>8 DEF OnBlobFetched
    <3>. QED  BY <1>5, <3>1
  <2>. QED  BY <1>2, <1>3, <1>10, <2>3, <2>4 DEF Quiet, QuietNet
<1>9. CASE \/ OnPeerDisconnected(u) \/ OnDialFailed(u) \/ OnBlobFetchFailed(u)
           \/ OnEnvelopeReceived(u) \/ OnMailboxEnvelopeRetrieved(u)
           \/ OnEnvelopeDeliveryFailed(u)
  <2>1. flying' = flying
    BY <1>9 DEF OnPeerDisconnected, OnDialFailed, OnFailed, OnBlobFetchFailed,
         OnEnvelopeReceived, OnHandshake, OnContinuing,
         OnMailboxEnvelopeRetrieved, OnEnvelopeDeliveryFailed
  <2>2. states' = states \/ states' = [states EXCEPT ![u] = Ended(u, PeerOf(u))]
    BY <1>9 DEF OnPeerDisconnected, OnDialFailed, OnFailed, OnBlobFetchFailed,
         OnEnvelopeReceived, OnHandshake, OnContinuing,
         OnMailboxEnvelopeRetrieved, OnEnvelopeDeliveryFailed
  <2>3. Sends /\ Others
    BY <1>5, <2>1, <2>2
  <2>. QED  BY <1>2, <1>3, <1>10, <2>3 DEF Quiet, QuietNet
<1>. QED  BY <1>7, <1>8, <1>9

(* The pump that shows what it opened leaves the outboxes alone.            *)
LEMMA ShowQuiet ==
    ASSUME StepInv, NEW u \in User, ShowOpened(u), NEW w \in User
    PROVE  Quiet(w)
<1>1. /\ pump' = [pump EXCEPT ![u] = NoTask]
      /\ UNCHANGED <<outbox, app, states, flying, acks, events, arrived>>
  BY DEF ShowOpened, disk, net
<1>2. pump'[w] = IF w = u THEN NoTask ELSE pump[w]
  BY <1>1 DEF StepInv, TypeInv, PumpsOk
<1>3. NoNews(events[w], events'[w])
  BY <1>1, EventsNoNews
<1>. QED  BY <1>1, <1>2, <1>3 DEF Quiet, QuietNet, NoTask

(* The network's steps that deliver nothing.                                *)
LEMMA NetworkQuiet ==
    ASSUME StepInv, NEW w \in User,
           \/ \E u, v \in User :
                \/ DialConnects(u, v) \/ DialFails(u, v)
                \/ CardFetched(u, v) \/ CardFetchFails(u, v)
           \/ \E p \in DOMAIN links : NodesConnect(p) \/ Disconnect(p)
           \/ \E e \in flying : EnvelopeLost(e)
           \/ \E u, v \in User, e \in mailbox : MailboxReturns(u, v, e)
    PROVE  Quiet(w)
<1>1. /\ UNCHANGED <<outbox, app, pump, states, acks, arrived>>
      /\ flying' \subseteq flying
  BY DEF DialConnects, DialFails, CardFetched, CardFetchFails, NodesConnect,
         Disconnect, EnvelopeLost, MailboxReturns, disk, memory, history
<1>2. \/ \E u \in User : \E ev : ev.kind # "delivered" /\ Enqueue(u, ev)
      \/ \E p : \E kind : kind # "delivered" /\ Both(p, kind)
  <2>1. CASE \E u, v \in User : DialFails(u, v) \/ CardFetched(u, v) \/ CardFetchFails(u, v)
    BY <2>1, EventShape DEF DialFails, CardFetched, CardFetchFails
  <2>2. CASE \/ \E u, v \in User : DialConnects(u, v)
             \/ \E p \in DOMAIN links : NodesConnect(p) \/ Disconnect(p)
    BY <2>2 DEF DialConnects, NodesConnect, Disconnect
  <2>3. CASE \E e \in flying : EnvelopeLost(e)
    <3>1. PICK e \in flying : EnvelopeLost(e)
      BY <2>3
    <3>2. e.from \in User
      BY DEF StepInv, TypeInv, SendingOk, IsEnvelope, Pairs
    <3>3. Enqueue(e.from, Event("failed", e.to, NoData))
      BY <3>1 DEF EnvelopeLost
    <3>4. Event("failed", e.to, NoData).kind # "delivered"
      BY EventShape
    <3>. QED  BY <3>2, <3>3, <3>4
  <2>4. CASE \E u, v \in User, e \in mailbox : MailboxReturns(u, v, e)
    BY <2>4, EventShape DEF MailboxReturns
  <2>. QED  BY <2>1, <2>2, <2>3, <2>4
<1>3. NoNews(events[w], events'[w])
  BY <1>2, EventsNoNews
<1>. QED  BY <1>1, <1>3 DEF Quiet, QuietNet

(* The first item for v is in the box still, and is the first still.        *)
SameFront(box, box2, v) ==
    HasItem(box, v) => HasItem(box2, v) /\ Item(box2, v) = Item(box, v)

(* An item appended is in the box, behind those that were there.            *)
LEMMA FrontAppend ==
    ASSUME NEW box, IsSeq(box), NEW x, NEW v
    PROVE  /\ SameFront(box, Append(box, x), v)
           /\ HasItem(Append(box, x), x.to)
           /\ Len(box) + 1 \in DOMAIN Append(box, x)
           /\ Append(box, x)[Len(box) + 1] = x
           /\ \A i \in DOMAIN box :
                i \in DOMAIN Append(box, x) /\ Append(box, x)[i] = box[i]
<1> DEFINE n == Len(box)
           box2 == Append(box, x)
<1>1. /\ IsSeq(box2) /\ DOMAIN box = 1..n /\ n \in Nat /\ DOMAIN box2 = 1..(n + 1)
      /\ \A i \in DOMAIN box : box2[i] = box[i]
      /\ box2[n + 1] = x
  BY AppendItems
<1> HIDE DEF n, box2
<1>2. n + 1 \in DOMAIN box2 /\ \A i \in DOMAIN box : i \in DOMAIN box2
  BY <1>1
<1>3. HasItem(box2, x.to)
  BY <1>1, <1>2 DEF HasItem, ItemsFor
<1>4. ASSUME HasItem(box, v)
      PROVE  HasItem(box2, v) /\ Item(box2, v) = Item(box, v)
  <2> DEFINE i == First(box, v)
  <2>1. /\ i \in DOMAIN box /\ box[i].to = v /\ Item(box, v) = box[i]
        /\ \A j \in DOMAIN box : box[j].to = v => i <= j
    BY <1>4, FirstItem
  <2> HIDE DEF i
  <2>2. \A j \in DOMAIN box2 : j \in DOMAIN box \/ j = n + 1
    BY <1>1
  <2>3. i <= n + 1
    BY <1>1, <2>1
  <2>4. \A j \in DOMAIN box2 : box2[j].to = v => i <= j
    BY <1>1, <2>1, <2>2, <2>3
  <2>5. i \in DOMAIN box2 /\ box2[i] = box[i]
    BY <1>1, <1>2, <2>1
  <2>6. HasItem(box2, v) /\ Item(box2, v) = box2[i]
    BY <1>1, <2>1, <2>4, <2>5, ItIsFirst
  <2>. QED  BY <2>1, <2>5, <2>6
<1>. QED  BY <1>1, <1>2, <1>3, <1>4 DEF SameFront, n, box2

(* Removing the first item for v leaves the other peers' first items, and   *)
(* every other item.                                                        *)
LEMMA FrontWithout ==
    ASSUME NEW box, IsSeq(box), NEW v, HasItem(box, v)
    PROVE  /\ \A w : w # v => SameFront(box, Without(box, First(box, v)), w)
           /\ \A j \in DOMAIN box : j # First(box, v) =>
                \E k \in DOMAIN Without(box, First(box, v)) :
                    Without(box, First(box, v))[k] = box[j]
<1> DEFINE i == First(box, v)
           box2 == Without(box, i)
           n == Len(box)
<1>1. i \in DOMAIN box /\ box[i].to = v
  BY FirstItem
<1>2. /\ IsSeq(box2) /\ DOMAIN box = 1..n /\ n \in Nat
      /\ DOMAIN box2 = 1..(n - 1)
      /\ \A k \in DOMAIN box2 : box2[k] = IF k < i THEN box[k] ELSE box[k + 1]
  <2> HIDE DEF i
  <2>. QED  BY <1>1, BoxWithout
<1> HIDE DEF i, box2, n
<1>3. ASSUME NEW j \in DOMAIN box, j # i
      PROVE  \E k \in DOMAIN box2 : box2[k] = box[j] /\ k = IF j < i THEN j ELSE j - 1
  <2>1. CASE j < i
    <3>1. j \in DOMAIN box2
      BY <1>1, <1>2, <2>1
    <3>. QED  BY <1>2, <2>1, <3>1
  <2>2. CASE ~ (j < i)
    <3>1. j - 1 \in DOMAIN box2 /\ ~ (j - 1 < i) /\ (j - 1) + 1 = j
      BY <1>1, <1>2, <1>3, <2>2
    <3>2. box2[j - 1] = box[j]
      BY <1>2, <3>1
    <3>. QED  BY <2>2, <3>1, <3>2
  <2>. QED  BY <2>1, <2>2
<1>4. ASSUME NEW w, w # v, HasItem(box, w)
      PROVE  HasItem(box2, w) /\ Item(box2, w) = Item(box, w)
  <2> DEFINE j == First(box, w)
  <2>1. /\ j \in DOMAIN box /\ box[j].to = w /\ Item(box, w) = box[j]
        /\ \A m \in DOMAIN box : box[m].to = w => j <= m
    BY <1>4, FirstItem
  <2> HIDE DEF j
  <2>2. j # i
    BY <1>1, <1>4, <2>1
  <2>3. PICK k \in DOMAIN box2 : box2[k] = box[j] /\ k = IF j < i THEN j ELSE j - 1
    BY <1>3, <2>1, <2>2
  <2>4. ASSUME NEW m \in DOMAIN box2, box2[m].to = w
        PROVE  k <= m
    <3>1. m \in Int /\ i \in Int /\ j \in Int /\ m + 1 \in DOMAIN box /\ m \in DOMAIN box
      BY <1>1, <1>2, <2>1
    <3>2. CASE m < i
      <4>1. j <= m
        BY <1>2, <2>1, <2>4, <3>1, <3>2
      <4>. QED  BY <2>3, <3>1, <4>1
    <3>3. CASE ~ (m < i)
      <4>1. j <= m + 1
        BY <1>2, <2>1, <2>4, <3>1, <3>3
      <4>. QED  BY <2>2, <2>3, <3>1, <3>3, <4>1
    <3>. QED  BY <3>2, <3>3
  <2>5. HasItem(box2, w) /\ Item(box2, w) = box2[k]
    BY <1>2, <2>1, <2>3, <2>4, ItIsFirst
  <2>. QED  BY <2>1, <2>3, <2>5
<1>5. \A j \in DOMAIN box : j # i => \E k \in DOMAIN box2 : box2[k] = box[j]
  BY <1>3
<1>6. \A w : w # v => SameFront(box, box2, w)
  BY <1>4 DEF SameFront
<1>. QED  BY <1>5, <1>6 DEF i, box2

(* What the net says of a box is true of another with the same fronts.      *)
LEMMA QueueNetBox ==
    ASSUME NEW u, NEW box, NEW F, NEW A, NEW es, NEW arr,
           QueueNet(u, box, F, A, es, arr), NEW box2,
           \A e \in F : e.from = u => SameFront(box, box2, e.to),
           \A v \in User : <<u, v>> \in A => SameFront(box, box2, v),
           \A i \in DOMAIN es : es[i].kind = "delivered" =>
               SameFront(box, box2, es[i].peer)
    PROVE  QueueNet(u, box2, F, A, es, arr)
<1>1. \A v : SameFront(box, box2, v) /\ FrontIn(box, v, arr) => FrontIn(box2, v, arr)
  BY DEF SameFront, FrontIn
<1>2. \A e : SameFront(box, box2, e.to) /\ Waits(box, e) => Waits(box2, e)
  BY DEF SameFront, Waits
<1>3. \A e \in F : e.from = u => Waits(box2, e)
  BY <1>2 DEF QueueNet
<1>4. \A v \in User : <<u, v>> \in A => FrontIn(box2, v, arr)
  BY <1>1 DEF QueueNet
<1>5. \A i \in DOMAIN es : es[i].kind = "delivered" => FrontIn(box2, es[i].peer, arr)
  BY <1>1 DEF QueueNet
<1>. QED  BY <1>3, <1>4, <1>5 DEF QueueNet

(* The app's three steps.                                                   *)
LEMMA SendLoadQueue ==
    ASSUME StepInv, NEW u \in User, NEW v \in User, SendLoad(u, v),
           NEW w \in User, QueueInv(w)
    PROVE  QueueInv(w)'
<1>1. UNCHANGED <<outbox, pump, states, flying, acks, events, arrived>>
  BY DEF SendLoad, disk, net
<1>2. \A a \in User : app'[a] = IF a = u
         THEN [at |-> "loaded", to |-> v, box |-> outbox[u], id |-> sent + 1]
         ELSE app[a]
  BY DEF SendLoad, StepInv, TypeInv, AppsOk
<1>3. QueueApp(app'[w], outbox[w])
  BY <1>2 DEF QueueApp, QueueInv
<1>. QED  BY <1>1, <1>3 DEF QueueInv

(* sendMessage's saving appends to the box: what is under way is still      *)
(* first.                                                                   *)
LEMMA SendSaveQueue ==
    ASSUME StepInv, NEW u \in User, SendSave(u),
           NEW w \in User, QueueInv(w), SoleThread(w)'
    PROVE  QueueInv(w)'
<1> DEFINE x == [id |-> app[u].id, to |-> app[u].to]
           box == Append(app[u].box, x)
           r == Reads(u, app[u].to, box)
           t == [at |-> "read", to |-> app[u].to, r |-> r]
<1>1. /\ app[u].at = "loaded" /\ outbox' = [outbox EXCEPT ![u] = box]
      /\ app' = [app EXCEPT ![u] = t] /\ Overlap(u, pump)
      /\ UNCHANGED <<pump, states, flying, acks, events, arrived>>
  BY DEF SendSave, net
<1>2. /\ \A a \in User : outbox'[a] = IF a = u THEN box ELSE outbox[a]
      /\ \A a \in User : app'[a] = IF a = u THEN t ELSE app[a]
  <2>1. /\ outbox = [a \in User |-> outbox[a]]
        /\ app = [a \in User |-> app[a]]
    BY DEF StepInv, TypeInv, BoxesOk, AppsOk
  <2> HIDE DEF box, t
  <2>. QED  BY <1>1, <2>1
<1>3. CASE w # u
  BY <1>1, <1>2, <1>3 DEF QueueInv
<1>4. CASE w = u
  <2>1. pump[u].at # "delivered"
    BY <1>1, <1>4, OverlapSeen DEF Holds
  <2>2. app[u].box = outbox[u]
    BY <1>1, <1>4 DEF QueueInv, QueueApp
  <2>3. IsSeq(outbox[u])
    BY DEF StepInv, TypeInv, BoxesOk, IsBox
  <2>4. (\A a : SameFront(outbox[u], box, a)) /\ HasItem(box, x.to)
    <3> HIDE DEF x
    <3>. QED  BY <2>2, <2>3, FrontAppend
  <2>5. t.at = "read" /\ t.to = x.to /\ t.r.item = Item(box, t.to)
    <3> HIDE DEF box
    <3>. QED  BY DEF Reads
  <2> HIDE DEF box, t, x
  <2>6. QueueNet(u, box, flying, acks, events[u], arrived)
    <3>1. QueueNet(u, outbox[u], flying, acks, events[u], arrived)
      BY <1>4 DEF QueueInv
    <3>. QED  BY <2>4, <3>1, QueueNetBox
  <2>7. QueueApp(t, box)
    BY <2>4, <2>5 DEF QueueApp
  <2>8. QueuePump(pump[u], box, states[u], arrived)
    BY <2>1 DEF QueuePump
  <2>. QED  BY <1>1, <1>2, <1>4, <2>6, <2>7, <2>8 DEF QueueInv
<1>. QED  BY <1>3, <1>4

(* sendMessage's attempt sends the first item for its peer.                 *)
LEMMA SendAttemptQueue ==
    ASSUME StepInv, NEW u \in User, SendAttempt(u),
           NEW w \in User, QueueInv(w), SoleThread(w)'
    PROVE  QueueInv(w)'
<1> DEFINE v == app[u].to
           r == app[u].r
<1>1. /\ app[u].at = "read" /\ Attempt(u, v, states[u], r)
      /\ app' = [app EXCEPT ![u] = NoTask] /\ Overlap(u, pump)
      /\ UNCHANGED <<outbox, pump, acks, events, arrived>>
  BY DEF SendAttempt
<1>2. v \in User
  BY <1>1, AppTask
<1> HIDE DEF v, r
<1>3. /\ \A e \in flying' :
           e \in flying \/ (e.from = u /\ e.to = v /\ e.message = r.item.id)
      /\ \A a \in User \ {u} : states'[a] = states[a]
  BY <1>1, <1>2, AttemptSends
<1>4. \A a \in User : app'[a] = IF a = u THEN NoTask ELSE app[a]
  BY <1>1 DEF StepInv, TypeInv, AppsOk
<1>5. NoNews(events[w], events'[w])
  BY <1>1, EventsNoNews
<1>6. CASE w # u
  <2>1. Quiet(w)
    BY <1>1, <1>3, <1>4, <1>5, <1>6 DEF Quiet, QuietNet
  <2>. QED  BY <2>1, QuietKeeps
<1>7. CASE w = u
  <2>1. pump[u].at # "delivered"
    BY <1>1, <1>7, OverlapSeen DEF Holds
  <2>2. HasItem(outbox[u], v) /\ r.item = Item(outbox[u], v)
    BY <1>1, <1>7 DEF QueueInv, QueueApp, v, r
  <2>3. QuietNet(u)
    BY <1>1, <1>3, <1>5, <1>7, <2>2 DEF QuietNet, Waits
  <2>4. QueueNet(u, outbox[u], flying', acks', events'[u], arrived')
    BY <1>7, <2>3, QuietKeeps
  <2>5. QueueApp(app'[u], outbox[u])
    BY <1>4 DEF QueueApp, NoTask
  <2>6. QueuePump(pump[u], outbox[u], states'[u], arrived')
    BY <2>1 DEF QueuePump
  <2>. QED  BY <1>1, <1>7, <2>4, <2>5, <2>6 DEF QueueInv
<1>. QED  BY <1>6, <1>7

(* The envelope's message is what its sender's outbox has in front; from    *)
(* then on it has arrived, and the outcome says so.                         *)
LEMMA ArrivesQueue ==
    ASSUME StepInv, NEW e \in flying, EnvelopeArrives(e),
           NEW w \in User, QueueInv(w)
    PROVE  QueueInv(w)'
<1>1. /\ flying' = flying \ {e} /\ acks' = acks \cup {<<e.from, e.to>>}
      /\ arrived' = arrived \cup {e.message}
      /\ Enqueue(e.to, Event("envelope", e.from, e))
      /\ UNCHANGED <<outbox, states, app, pump>>
  BY DEF EnvelopeArrives, disk, memory
<1>2. e.to \in User /\ e.from \in User
  BY DEF StepInv, TypeInv, SendingOk, IsEnvelope, Pairs
<1>3. NoNews(events[w], events'[w])
  <2>1. Event("envelope", e.from, e).kind # "delivered"
    BY EventShape
  <2>. QED  BY <1>1, <1>2, <2>1, EventsNoNews
<1>4. QueueNet(w, outbox[w], flying', acks, events'[w], arrived')
  <2>1. QueueNet(w, outbox[w], flying, acks, events[w], arrived)
    BY DEF QueueInv
  <2>2. \A d \in flying' : d \in flying
    BY <1>1
  <2>3. arrived \subseteq arrived'
    BY <1>1
  <2>. QED  BY <1>3, <2>1, <2>2, <2>3, QueueNetKept
<1>5. e.from = w => FrontIn(outbox[w], e.to, arrived')
  BY <1>1 DEF QueueInv, QueueNet, Waits, FrontIn
<1>6. QueueNet(w, outbox[w], flying', acks', events'[w], arrived')
  BY <1>1, <1>4, <1>5 DEF QueueNet
<1>7. QueuePump(pump[w], outbox[w], states[w], arrived')
  BY <1>1 DEF QueueInv, QueuePump, FrontIn
<1>. QED  BY <1>1, <1>6, <1>7 DEF QueueInv

(* What is acknowledged is the first item for the peer.                     *)
LEMMA AckQueue ==
    ASSUME StepInv, NEW u \in User, NEW v \in User, AckArrives(u, v),
           NEW w \in User, QueueInv(w)
    PROVE  QueueInv(w)'
<1>1. /\ <<u, v>> \in acks /\ acks' \subseteq acks
      /\ UNCHANGED <<outbox, states, app, pump, flying, arrived>>
      /\ \/ Enqueue(u, Event("delivered", v, NoData))
         \/ Enqueue(u, Event("failed", v, NoData))
  BY DEF AckArrives, disk, memory, history
<1>2. PICK kind \in {"delivered", "failed"} : Enqueue(u, Event(kind, v, NoData))
  BY <1>1
<1> DEFINE ev == Event(kind, v, NoData)
<1>3. ev.peer = v /\ ev.kind = kind
  BY EventShape
<1>4. events = [a \in User |-> events[a]] /\ \A a \in User : IsSeq(events[a])
  BY DEF StepInv, TypeInv, EventsOk, AllSeqs
<1>5. events'[w] = IF w = u THEN Append(events[w], ev) ELSE events[w]
  BY <1>2, <1>4 DEF Enqueue
<1> HIDE DEF ev
<1>6. CASE w # u
  <2>1. NoNews(events[w], events'[w])
    BY <1>4, <1>5, <1>6, NewsFacts
  <2>2. Quiet(w)
    BY <1>1, <2>1 DEF Quiet, QuietNet
  <2>. QED  BY <2>2, QuietKeeps
<1>7. CASE w = u
  <2>1. FrontIn(outbox[u], v, arrived)
    BY <1>1, <1>7 DEF QueueInv, QueueNet
  <2>2. \A i \in DOMAIN events'[u] : events'[u][i].kind = "delivered" =>
           FrontIn(outbox[u], events'[u][i].peer, arrived)
    <3> DEFINE n == Len(events[u])
    <3>1. /\ DOMAIN events[u] = 1..n /\ n \in Nat
          /\ DOMAIN Append(events[u], ev) = 1..(n + 1)
          /\ \A i \in DOMAIN events[u] : Append(events[u], ev)[i] = events[u][i]
          /\ Append(events[u], ev)[n + 1] = ev
      BY <1>4, AppendItems
    <3> HIDE DEF n
    <3>2. \A i \in DOMAIN Append(events[u], ev) : i \in DOMAIN events[u] \/ i = n + 1
      BY <3>1
    <3>3. \A i \in DOMAIN events[u] : events[u][i].kind = "delivered" =>
             FrontIn(outbox[u], events[u][i].peer, arrived)
      BY <1>7 DEF QueueInv, QueueNet
    <3>. QED  BY <1>3, <1>5, <1>7, <2>1, <3>1, <3>2, <3>3
  <2>3. QueueNet(u, outbox[u], flying, acks', events'[u], arrived)
    BY <1>1, <1>7, <2>2 DEF QueueInv, QueueNet
  <2>. QED  BY <1>1, <1>7, <2>3 DEF QueueInv
<1>. QED  BY <1>6, <1>7

(* The pump that takes a delivery removes the first item for the peer.      *)
LEMMA DeliveredQueue ==
    ASSUME StepInv, NEW u \in User, OnEnvelopeDelivered(u),
           NEW w \in User, QueueInv(w)
    PROVE  QueueInv(w)'
<1> DEFINE v == PeerOf(u)
           t == [at |-> "delivered", to |-> v, box |-> outbox[u]]
<1>1. /\ Takes(u, "delivered")
      /\ UNCHANGED <<outbox, app, flying, acks, arrived>>
  BY DEF OnEnvelopeDelivered, disk
<1>2. v \in User /\ states[u][v] = "sendingEnvelope" /\ pump[u] = NoTask
  <2>1. "delivered" \in EndKinds
    BY DEF EndKinds
  <2>. QED  BY <1>1, <2>1, TakesKeeps
<1>3. states' = [states EXCEPT ![u] = Ended(u, v)] /\ pump' = [pump EXCEPT ![u] = t]
  BY <1>2 DEF OnEnvelopeDelivered
<1>4. /\ \A a \in User \ {u} : states'[a] = states[a] /\ pump'[a] = pump[a]
      /\ states'[u][v] = "none" /\ pump'[u] = t
  <2>1. states \in [User -> [User -> States]] /\ pump = [a \in User |-> pump[a]]
    BY DEF StepInv, TypeInv, SendingOk, AllStates, PumpsOk
  <2> HIDE DEF v, t
  <2>. QED  BY <1>2, <1>3, <2>1 DEF Ended
<1>5. NoNews(events[w], events'[w])
  BY <1>1, EventsNoNews
<1>6. CASE w # u
  <2>1. Quiet(w)
    BY <1>1, <1>4, <1>5, <1>6 DEF Quiet, QuietNet
  <2>. QED  BY <2>1, QuietKeeps
<1>7. CASE w = u
  <2>1. QuietNet(u)
    BY <1>1, <1>5, <1>7 DEF QuietNet
  <2>2. QueueNet(u, outbox[u], flying', acks', events'[u], arrived')
    BY <1>7, <2>1, QuietKeeps
  <2>3. FrontIn(outbox[u], v, arrived)
    <3>1. /\ events[u] # << >> /\ Head(events[u]).kind = "delivered"
          /\ Head(events[u]).peer = v
      BY <1>1 DEF Takes, PeerOf
    <3>2. IsSeq(events[u])
      BY DEF StepInv, TypeInv, EventsOk, AllSeqs
    <3>3. Head(events[u]) = events[u][1] /\ 1 \in DOMAIN events[u]
      BY <3>1, <3>2, TailItems
    <3>. QED  BY <1>7, <3>1, <3>3 DEF QueueInv, QueueNet
  <2>4. t.to = v /\ t.box = outbox[u]
    OBVIOUS
  <2> HIDE DEF t, v
  <2>5. QueuePump(pump'[u], outbox[u], states'[u], arrived)
    BY <1>4, <2>3, <2>4 DEF QueuePump
  <2>. QED  BY <1>1, <1>7, <2>2, <2>5 DEF QueueInv
<1>. QED  BY <1>6, <1>7

(* The item that leaves is one that arrived; nothing under way is about it. *)
LEMMA RemoveQueue ==
    ASSUME StepInv, NEW u \in User, RemoveAndContinue(u),
           NEW w \in User, QueueInv(w), SoleThread(w)'
    PROVE  /\ QueueInv(w)'
           /\ w = u => \A i \in DOMAIN outbox[u] :
                \/ outbox[u][i].id \in arrived
                \/ \E k \in DOMAIN outbox'[u] : outbox'[u][k] = outbox[u][i]
<1> DEFINE v == pump[u].to
           box == pump[u].box
           rest == IF HasItem(box, v) THEN Without(box, Delivered(box, v))
                   ELSE outbox[u]
           r == Reads(u, v, rest)
<1>1. /\ pump[u].at = "delivered" /\ Overlap(u, app)
      /\ outbox' = [outbox EXCEPT ![u] = rest]
      /\ pump' = [pump EXCEPT ![u] = NoTask]
      /\ \/ HasItem(rest, v) /\ Attempt(u, v, states[u], r)
         \/ states' = [states EXCEPT ![u] = states[u]] /\ UNCHANGED flying
      /\ UNCHANGED <<app, acks, events, arrived>>
  BY DEF RemoveAndContinue, AttemptIfQueued
<1>2. v \in User
  <2>1. IsPump(u, pump[u])
    BY DEF StepInv, TypeInv, PumpsOk
  <2>. QED  BY <1>1, <2>1 DEF IsPump, NoTask
<1>3. r.item = Item(rest, v)
  <2> HIDE DEF rest, v
  <2>. QED  BY DEF Reads
<1> HIDE DEF v, box, rest, r
<1>4. \A a \in User : /\ outbox'[a] = IF a = u THEN rest ELSE outbox[a]
                      /\ pump'[a] = IF a = u THEN NoTask ELSE pump[a]
  BY <1>1 DEF StepInv, TypeInv, BoxesOk, PumpsOk
<1>5. /\ \A e \in flying' :
           e \in flying \/ (e.from = u /\ Waits(rest, e))
      /\ \A a \in User \ {u} : states'[a] = states[a]
  <2>1. ASSUME HasItem(rest, v), Attempt(u, v, states[u], r)
        PROVE  /\ \A e \in flying' : e \in flying \/ (e.from = u /\ Waits(rest, e))
               /\ \A a \in User \ {u} : states'[a] = states[a]
    <3>1. /\ \A e \in flying' :
               e \in flying \/ (e.from = u /\ e.to = v /\ e.message = r.item.id)
          /\ \A a \in User \ {u} : states'[a] = states[a]
      BY <1>2, <2>1, AttemptSends
    <3>. QED  BY <1>3, <2>1, <3>1 DEF Waits
  <2>2. ASSUME states' = [states EXCEPT ![u] = states[u]], UNCHANGED flying
        PROVE  /\ \A e \in flying' : e \in flying \/ (e.from = u /\ Waits(rest, e))
               /\ \A a \in User \ {u} : states'[a] = states[a]
    BY <2>2 DEF StepInv, TypeInv, SendingOk, AllStates
  <2>. QED  BY <1>1, <2>1, <2>2
<1>6. NoNews(events[w], events'[w])
  BY <1>1, EventsNoNews
<1>7. ASSUME w # u
      PROVE  QueueInv(w)'
  <2>1. Quiet(w)
    BY <1>1, <1>4, <1>5, <1>6, <1>7 DEF Quiet, QuietNet
  <2>. QED  BY <2>1, QuietKeeps
<1>8. ASSUME w = u
      PROVE  /\ QueueInv(u)'
             /\ \A i \in DOMAIN outbox[u] :
                  \/ outbox[u][i].id \in arrived
                  \/ \E k \in DOMAIN rest : rest[k] = outbox[u][i]
  <2>1. /\ box = outbox[u] /\ FrontIn(outbox[u], v, arrived)
        /\ states[u][v] = "none"
    BY <1>1, <1>8 DEF QueueInv, QueuePump, box, v
  <2>2. HasItem(box, v) /\ IsSeq(box)
    BY <2>1 DEF FrontIn, StepInv, TypeInv, BoxesOk, IsBox
  <2>3. rest = Without(box, First(box, v))
    BY <2>2 DEF rest, Delivered
  <2>4. /\ \A a : a # v => SameFront(box, Without(box, First(box, v)), a)
        /\ \A j \in DOMAIN box : j # First(box, v) =>
             \E k \in DOMAIN Without(box, First(box, v)) :
                 Without(box, First(box, v))[k] = box[j]
    BY <2>2, FrontWithout
  <2>5. Item(box, v) = box[First(box, v)]
    BY <2>2, FirstItem
  <2>6. \A i \in DOMAIN outbox[u] :
           \/ outbox[u][i].id \in arrived
           \/ \E k \in DOMAIN rest : rest[k] = outbox[u][i]
    BY <2>1, <2>3, <2>4, <2>5 DEF FrontIn
  <2>7. Fly(flying, u, v) = {} /\ <<u, v>> \notin acks /\ Count(events[u], v, EndKinds) = 0
    <3>1. /\ IsFiniteSet(flying) /\ AllSeqs(events)
          /\ Steps(states, flying, acks, events, fetches, dials)
      BY DEF StepInv, TypeInv, SendingOk, EventsOk
    <3>2. /\ Cardinality(Fly(flying, u, v)) = 0 /\ Fly(flying, u, v) = {}
          /\ <<u, v>> \notin acks /\ Count(events[u], v, EndKinds) = 0
      <4>1. states[u][v] # "sendingEnvelope"
        BY <2>1
      <4>. QED  BY <1>2, <3>1, <4>1, StepsOwed
    <3>. QED  BY <3>2
  <2>8. \A i \in DOMAIN events[u] : events[u][i].kind = "delivered" => events[u][i].peer # v
    <3>1. Places(events[u], v, EndKinds) = {}
      BY <2>7, PlacesFinite DEF StepInv, TypeInv, EventsOk, AllSeqs
    <3>. QED  BY <3>1 DEF Places, EndKinds
  <2>9. QueueNet(u, rest, flying, acks, events[u], arrived)
    <3>1. QueueNet(u, box, flying, acks, events[u], arrived)
      BY <1>8, <2>1 DEF QueueInv
    <3>2. \A e \in flying : e.from = u => e.to # v
      BY <2>7 DEF Fly
    <3>3. \A a : a # v => SameFront(box, rest, a)
      BY <2>3, <2>4
    <3>4. \A e \in flying : e.from = u => SameFront(box, rest, e.to)
      BY <3>2, <3>3
    <3>5. \A a \in User : <<u, a>> \in acks => SameFront(box, rest, a)
      BY <2>7, <3>3
    <3>6. \A i \in DOMAIN events[u] : events[u][i].kind = "delivered" =>
             SameFront(box, rest, events[u][i].peer)
      BY <2>8, <3>3
    <3>. QED  BY <3>1, <3>4, <3>5, <3>6, QueueNetBox
  <2>10. QueueNet(u, rest, flying', acks, events[u], arrived)
    <3>1. \A e \in flying' : e.from = u => e \in flying \/ Waits(rest, e)
      BY <1>5
    <3>2. NoNews(events[u], events[u])
      BY NewsFacts DEF StepInv, TypeInv, EventsOk, AllSeqs
    <3>. QED  BY <2>9, <3>1, <3>2, QueueNetKept
  <2>11. app[u] = NoTask
    BY <1>1, <1>8, AppIdle
  <2>12. QueueApp(app[u], rest) /\ QueuePump(NoTask, rest, states'[u], arrived)
    BY <2>11 DEF QueueApp, QueuePump, NoTask
  <2>13. QueueInv(u)'
    BY <1>1, <1>4, <2>10, <2>12 DEF QueueInv
  <2>. QED  BY <2>6, <2>13
<1>. QED  BY <1>4, <1>7, <1>8

(* A restart forgets what was under way; the box is the one on disk.        *)
LEMMA RestartQueue ==
    ASSUME StepInv, NEW u \in User, Restart(u), NEW w \in User, QueueInv(w)
    PROVE  QueueInv(w)'
<1> DEFINE off == Event("disconnected", u, NoData)
<1>1. /\ app' = [app EXCEPT ![u] = NoTask] /\ pump' = [pump EXCEPT ![u] = NoTask]
      /\ \E row : states' = [states EXCEPT ![u] = row]
      /\ flying' = {e \in flying : e.from # u}
      /\ acks' = {a \in acks : a[1] # u}
      /\ UNCHANGED <<outbox, arrived>>
  BY DEF Restart, disk
<1>2. events' = [v \in User |->
                   IF v = u THEN << >>
                   ELSE IF {u, v} \in DOMAIN links /\ links[{u, v}] > 0
                        THEN Append(events[v], off) ELSE events[v]]
  BY DEF Restart
<1>3. events'[w] = << >> \/ events'[w] = events[w] \/ events'[w] = Append(events[w], off)
  BY <1>2
<1>4. off.kind # "delivered"
  BY EventShape
<1> HIDE DEF off
<1>5. NoNews(events[w], events'[w])
  <2>1. IsSeq(events[w])
    BY DEF StepInv, TypeInv, EventsOk, AllSeqs
  <2>. QED  BY <1>3, <1>4, <2>1, NewsFacts
<1>6. QuietNet(w)
  BY <1>1, <1>5 DEF QuietNet
<1>7. \A a \in User : /\ app'[a] = IF a = u THEN NoTask ELSE app[a]
                      /\ pump'[a] = IF a = u THEN NoTask ELSE pump[a]
                      /\ a # u => states'[a] = states[a]
  <2>1. states = [a \in User |-> states[a]]
    BY DEF StepInv, TypeInv, SendingOk, AllStates
  <2>2. \A a \in User : a # u => states'[a] = states[a]
    BY <1>1, <2>1
  <2>. QED  BY <1>1, <2>2 DEF StepInv, TypeInv, AppsOk, PumpsOk
<1>8. CASE w # u
  <2>1. Quiet(w)
    BY <1>1, <1>6, <1>7, <1>8 DEF Quiet
  <2>. QED  BY <2>1, QuietKeeps
<1>9. CASE w = u
  <2>1. QueueNet(u, outbox[u], flying', acks', events'[u], arrived')
    BY <1>6, <1>9, QuietKeeps
  <2>2. QueueApp(NoTask, outbox[u]) /\ QueuePump(NoTask, outbox[u], states'[u], arrived')
    BY DEF QueueApp, QueuePump, NoTask
  <2>. QED  BY <1>1, <1>7, <1>9, <2>1, <2>2 DEF QueueInv
<1>. QED  BY <1>8, <1>9

(* QueueInv for every user whose two threads have not overlapped.            *)
Queues == \A w \in User : SoleThread(w) => QueueInv(w)

(* Queues is inductive, with StepInv.                                       *)
LEMMA QueuesNext == StepInv /\ Queues /\ [Next]_vars => Queues'
<1> SUFFICES ASSUME StepInv, Queues, [Next]_vars, NEW w \in User, SoleThread(w)'
             PROVE  QueueInv(w)'
  BY DEF Queues
<1>1. QueueInv(w)
  BY FaultsStay DEF Queues
<1>2. Quiet(w) => QueueInv(w)'
  BY <1>1, QuietKeeps
<1>3. CASE UNCHANGED vars
  BY <1>1, <1>3 DEF vars, disk, memory, net, history, QueueInv
<1>4. ASSUME NEW u \in User, NEW v \in User, SendLoad(u, v)
      PROVE  QueueInv(w)'
  BY <1>1, <1>4, SendLoadQueue
<1>5. ASSUME NEW u \in User, SendMessage(u)
      PROVE  QueueInv(w)'
  BY <1>1, <1>5, SendSaveQueue, SendAttemptQueue DEF SendMessage
<1>6. ASSUME NEW u \in User, Pump(u)
      PROVE  QueueInv(w)'
  <2>1. CASE OnEnvelopeDelivered(u)
    BY <1>1, <2>1, DeliveredQueue
  <2>2. CASE RemoveAndContinue(u)
    BY <1>1, <2>2, RemoveQueue
  <2>3. CASE \/ OnPeerConnected(u) \/ OnPeerDisconnected(u) \/ OnDialFailed(u)
             \/ OnBlobFetchFailed(u) \/ OnBlobFetched(u) \/ OnEnvelopeReceived(u)
             \/ OnMailboxEnvelopeRetrieved(u) \/ OnEnvelopeDeliveryFailed(u)
    <3>1. Quiet(w)
      BY <2>3, PumpQuiet
    <3>. QED  BY <1>2, <3>1
  <2>4. CASE ShowOpened(u)
    <3>1. Quiet(w)
      BY <2>4, ShowQuiet
    <3>. QED  BY <1>2, <3>1
  <2>. QED  BY <1>6, <2>1, <2>2, <2>3, <2>4 DEF Pump
<1>7. ASSUME NEW u \in User, Restart(u)
      PROVE  QueueInv(w)'
  BY <1>1, <1>7, RestartQueue
<1>8. CASE Network
  <2>1. ASSUME NEW u \in User, NEW v \in User, AckArrives(u, v)
        PROVE  QueueInv(w)'
    BY <1>1, <2>1, AckQueue
  <2>2. ASSUME NEW e \in flying, EnvelopeArrives(e)
        PROVE  QueueInv(w)'
    BY <1>1, <2>2, ArrivesQueue
  <2>3. CASE \/ \E u, v \in User :
                  \/ DialConnects(u, v) \/ DialFails(u, v)
                  \/ CardFetched(u, v) \/ CardFetchFails(u, v)
             \/ \E p \in DOMAIN links : NodesConnect(p) \/ Disconnect(p)
             \/ \E e \in flying : EnvelopeLost(e)
             \/ \E u, v \in User, e \in mailbox : MailboxReturns(u, v, e)
    <3>1. Quiet(w)
      BY <2>3, NetworkQuiet
    <3>. QED  BY <1>2, <3>1
  <2>. QED  BY <1>8, <2>1, <2>2, <2>3 DEF Network
<1>. QED  BY <1>3, <1>4, <1>5, <1>6, <1>7, <1>8 DEF Next

(* Queues is true of the initial states.                                    *)
LEMMA QueuesInit == Init => Queues /\ QueuedUntilDelivered
<1> SUFFICES ASSUME Init PROVE Queues /\ QueuedUntilDelivered
  OBVIOUS
<1>1. QueuedUntilDelivered
  BY DEF Init, QueuedUntilDelivered
<1>2. ASSUME NEW u \in User
      PROVE  QueueInv(u)
  <2>1. QueueNet(u, outbox[u], flying, acks, events[u], arrived)
    BY <1>2 DEF Init, QueueNet
  <2>2. QueuePump(pump[u], outbox[u], states[u], arrived)
    BY <1>2 DEF Init, QueuePump, NoTask
  <2>3. QueueApp(app[u], outbox[u])
    BY <1>2 DEF Init, QueueApp, NoTask
  <2>. QED  BY <2>1, <2>2, <2>3 DEF QueueInv
<1>. QED  BY <1>1, <1>2 DEF Queues

(* Which steps change the outboxes, what is queued and what has arrived.    *)
LEMMA QueuedChanges ==
    ASSUME [Next]_vars
    PROVE  \/ UNCHANGED <<outbox, queued>> /\ arrived \subseteq arrived'
           \/ \E u \in User : SendSave(u)
           \/ \E u \in User : RemoveAndContinue(u) /\ UNCHANGED <<queued, arrived>>
<1> DEFINE Same == UNCHANGED <<outbox, queued>> /\ arrived \subseteq arrived'
<1>1. ASSUME UNCHANGED vars
      PROVE  Same
  <2>1. UNCHANGED <<outbox, queued, arrived>>
    BY <1>1 DEF vars, disk, history
  <2>. QED  BY <2>1
<1>2. ASSUME NEW u \in User, NEW v \in User, SendLoad(u, v)
      PROVE  Same
  BY <1>2 DEF SendLoad, disk
<1>3. ASSUME NEW u \in User, SendMessage(u)
      PROVE  Same \/ SendSave(u)
  BY <1>3 DEF SendMessage, SendAttempt
<1>4. ASSUME NEW u \in User, Pump(u)
      PROVE  Same \/ (RemoveAndContinue(u) /\ UNCHANGED <<queued, arrived>>)
  <2>1. CASE RemoveAndContinue(u)
    BY <2>1 DEF RemoveAndContinue
  <2>2. CASE ~ RemoveAndContinue(u)
    <3>1. UNCHANGED <<outbox, queued, arrived>>
      BY <1>4, <2>2 DEF Pump, OnPeerConnected, OnPeerDisconnected, OnDialFailed,
           OnFailed, OnBlobFetched, OnBlobFetchFailed, OnEnvelopeReceived,
           OnHandshake, OnContinuing, OnMailboxEnvelopeRetrieved, ShowOpened,
           OnEnvelopeDelivered, OnEnvelopeDeliveryFailed, disk
    <3>. QED  BY <3>1
  <2>. QED  BY <2>1, <2>2
<1>5. ASSUME NEW u \in User, Restart(u)
      PROVE  Same
  BY <1>5 DEF Restart, disk
<1>6. ASSUME Network
      PROVE  Same
  <2>1. ASSUME NEW e \in flying, EnvelopeArrives(e)
        PROVE  Same
    BY <2>1 DEF EnvelopeArrives, disk
  <2>2. CASE ~ \E e \in flying : EnvelopeArrives(e)
    <3>1. CASE \E u, v \in User :
                 \/ DialConnects(u, v) \/ DialFails(u, v)
                 \/ CardFetched(u, v) \/ CardFetchFails(u, v) \/ AckArrives(u, v)
      BY <3>1 DEF DialConnects, DialFails, CardFetched, CardFetchFails, AckArrives,
                  disk, history
    <3>2. CASE \E p \in DOMAIN links : NodesConnect(p) \/ Disconnect(p)
      BY <3>2 DEF NodesConnect, Disconnect, disk, history
    <3>3. CASE \/ \E e \in flying : EnvelopeLost(e)
               \/ \E u, v \in User, e \in mailbox : MailboxReturns(u, v, e)
      BY <3>3 DEF EnvelopeLost, MailboxReturns, disk, history
    <3>. QED  BY <1>6, <2>2, <3>1, <3>2, <3>3 DEF Network
  <2>. QED  BY <2>1, <2>2
<1> HIDE DEF Same
<1>7. \/ Same \/ \E u \in User : SendSave(u)
      \/ \E u \in User : RemoveAndContinue(u) /\ UNCHANGED <<queued, arrived>>
  BY <1>1, <1>2, <1>3, <1>4, <1>5, <1>6 DEF Next
<1>. QED  BY <1>7 DEF Same

(* QueuedUntilDelivered is inductive, with StepInv and Queues.              *)
LEMMA QueuedNext ==
    StepInv /\ Queues /\ QueuedUntilDelivered /\ [Next]_vars => QueuedUntilDelivered'
<1> SUFFICES ASSUME StepInv, Queues, QueuedUntilDelivered, [Next]_vars,
                    \A u \in User : ~ Overlapped(u)',
                    NEW id \in queued'
             PROVE  InOutbox(id)' \/ id \in arrived'
  BY DEF QueuedUntilDelivered
<1>1. /\ \A u \in User : SoleThread(u) /\ SoleThread(u)' /\ QueueInv(u)
      /\ \A n \in queued : InOutbox(n) \/ n \in arrived
  BY FaultsStay DEF SoleThread, Queues, QueuedUntilDelivered
<1>2. CASE UNCHANGED <<outbox, queued>> /\ arrived \subseteq arrived'
  BY <1>1, <1>2 DEF InOutbox
<1>3. ASSUME NEW u \in User, SendSave(u)
      PROVE  InOutbox(id)' \/ id \in arrived'
  <2> DEFINE x == [id |-> app[u].id, to |-> app[u].to]
             box == Append(app[u].box, x)
  <2>1. /\ app[u].at = "loaded" /\ outbox' = [outbox EXCEPT ![u] = box]
        /\ queued' = queued \cup {x.id} /\ arrived' = arrived
    BY <1>3 DEF SendSave
  <2>2. app[u].box = outbox[u]
    BY <1>1, <2>1 DEF QueueInv, QueueApp
  <2>3. IsSeq(outbox[u]) /\ outbox = [a \in User |-> outbox[a]]
    BY DEF StepInv, TypeInv, BoxesOk, IsBox
  <2>4. /\ Len(outbox[u]) + 1 \in DOMAIN box /\ box[Len(outbox[u]) + 1] = x
        /\ \A i \in DOMAIN outbox[u] : i \in DOMAIN box /\ box[i] = outbox[u][i]
    <3> HIDE DEF x
    <3>. QED  BY <2>2, <2>3, FrontAppend
  <2> HIDE DEF x, box
  <2>5. \A a \in User : outbox'[a] = IF a = u THEN box ELSE outbox[a]
    BY <2>1, <2>3
  <2>6. CASE id = x.id
    BY <2>4, <2>5, <2>6 DEF InOutbox
  <2>7. CASE id # x.id
    <3>1. InOutbox(id) \/ id \in arrived
      BY <1>1, <2>1, <2>7
    <3>2. ASSUME InOutbox(id)
          PROVE  InOutbox(id)'
      <4>1. PICK a \in User : \E i \in DOMAIN outbox[a] : outbox[a][i].id = id
        BY <3>2 DEF InOutbox
      <4>2. \E i \in DOMAIN outbox'[a] : outbox'[a][i].id = id
        BY <2>4, <2>5, <4>1
      <4>. QED  BY <4>2 DEF InOutbox
    <3>. QED  BY <2>1, <3>1, <3>2
  <2>. QED  BY <2>6, <2>7
<1>4. ASSUME NEW u \in User, RemoveAndContinue(u), UNCHANGED <<queued, arrived>>
      PROVE  InOutbox(id)' \/ id \in arrived'
  <2>1. \A i \in DOMAIN outbox[u] :
           \/ outbox[u][i].id \in arrived
           \/ \E k \in DOMAIN outbox'[u] : outbox'[u][k] = outbox[u][i]
    BY <1>1, <1>4, RemoveQueue
  <2>2. \A a \in User \ {u} : outbox'[a] = outbox[a]
    BY <1>4 DEF RemoveAndContinue, StepInv, TypeInv, BoxesOk
  <2>3. ASSUME InOutbox(id), id \notin arrived
        PROVE  InOutbox(id)'
    <3>1. PICK a \in User : \E i \in DOMAIN outbox[a] : outbox[a][i].id = id
      BY <2>3 DEF InOutbox
    <3>2. PICK i \in DOMAIN outbox[a] : outbox[a][i].id = id
      BY <3>1
    <3>3. CASE a = u
      <4>1. PICK k \in DOMAIN outbox'[u] : outbox'[u][k] = outbox[u][i]
        BY <2>1, <2>3, <3>2, <3>3
      <4>. QED  BY <3>2, <3>3, <4>1 DEF InOutbox
    <3>4. CASE a # u
      BY <2>2, <3>2, <3>4 DEF InOutbox
    <3>. QED  BY <3>3, <3>4
  <2>. QED  BY <1>1, <1>4, <2>3
<1>. QED  BY <1>2, <1>3, <1>4, QueuedChanges

(***************************************************************************)
(* A message sendMessage saved is in the outbox until an envelope with it  *)
(* reached the peer's node: removeOutboxItem takes the first item for the  *)
(* peer when an envelope is reported delivered, and that is the item the   *)
(* one envelope under way for the peer was made from.                      *)
(***************************************************************************)
THEOREM QueuedUntilItArrives == Spec => []QueuedUntilDelivered
<1> DEFINE IInv == StepInv /\ Queues /\ QueuedUntilDelivered
<1>1. Init => IInv
  BY StepInvInit, QueuesInit
<1>2. IInv /\ [Next]_vars => IInv'
  BY StepInvNext, QueuesNext, QueuedNext
<1>3. IInv => QueuedUntilDelivered
  OBVIOUS
<1>. QED  BY <1>1, <1>2, <1>3, PTL DEF Spec

-----------------------------------------------------------------------------
(* An envelope is shown once: the secrets of the handshakes                 *)

(* A secret of u's n-th handshake with v: its second result is that of the  *)
(* ephemeral key and v's agreement key.                                     *)
MadeWith(x, u, v, n) == x # << >> /\ x[2] = {<<"EK", u, v, n>>, <<"IK", v>>}

(* A secret of one of the H[u][v] handshakes u has started with v.          *)
Made(H, x, u, v) == \E n \in 1..H[u][v] : MadeWith(x, u, v, n)

(* A session of u with v, if there is one, has the secret of a handshake of *)
(* theirs.                                                                  *)
Shared(H, s, u, v) == s = NoSession \/ Made(H, s.secret, u, v) \/ Made(H, s.secret, v, u)

IsHandshake(e) == e.kind = "handshake"
Comes(ev) == ev.kind = "envelope" /\ IsHandshake(ev.data)

(* The secrets of the sessions, kept and read; of the handshakes on their   *)
(* way and in the queues; and of what was seen.                             *)
Held(H, s, tasks) ==
    /\ \A u, v \in User : Shared(H, s[u][v], u, v)
    /\ \A u \in User : tasks[u].at = "read" =>
          Shared(H, tasks[u].r.session, u, tasks[u].to)

Coming(H, F, E) ==
    /\ \A e \in F : IsHandshake(e) => Made(H, e.secret, e.from, e.to)
    /\ \A u \in User : \A i \in DOMAIN E[u] : Comes(E[u][i]) =>
          Made(H, E[u][i].data.secret, E[u][i].peer, u)

SeenMade(H, S) ==
    \A e \in S : e.to \in User /\ \E a, b \in User : Made(H, e.secret, a, b)

(* What was seen: it was shown, or is opened and about to be.               *)
Opening == {u \in User : pump[u].at = "opened"}
Seen == BagToSet(shown) \cup {pump[u].envelope : u \in Opening}

Secrets ==
    /\ handshakes \in [User -> [User -> Nat]]
    /\ Held(handshakes, session, app) /\ Coming(handshakes, flying, events)
    /\ IsABag(shown) /\ SeenMade(handshakes, Seen)
    /\ \A u \in Opening : pump[u].envelope.to = u

(* No two handshakes on their way to u have the same secret.                *)
Unlike(es) ==
    \A i, j \in DOMAIN es :
        Comes(es[i]) /\ Comes(es[j]) /\ es[i].data.secret = es[j].data.secret => i = j

Differ(u, F, es) ==
    /\ Unlike(es)
    /\ \A e \in F : IsHandshake(e) /\ e.to = u =>
          /\ \A d \in F : IsHandshake(d) /\ d.to = u /\ d.secret = e.secret => d = e
          /\ \A i \in DOMAIN es : Comes(es[i]) => es[i].data.secret # e.secret

(* u, with its sessions in row and S seen so far, has not seen a secret.    *)
Unseen(u, row, S, x) ==
    /\ \A v \in User : row[v].secret # x
    /\ \A e \in S : e.to = u => e.secret # x

Fresh(u, row, S, F, es) ==
    /\ \A e \in F : IsHandshake(e) /\ e.to = u => Unseen(u, row, S, e.secret)
    /\ \A i \in DOMAIN es : Comes(es[i]) => Unseen(u, row, S, es[i].data.secret)

(* No session of u's would open what u has seen.                            *)
Once(u, row, S) ==
    \A e \in S : e.to = u =>
        \A v \in User : row[v].secret = e.secret => e.number \in row[v].got

(* What was shown to u was shown once, and what it has opened was not.      *)
Single(u) ==
    /\ \A e \in BagToSet(shown) : e.to = u => shown[e] = 1
    /\ u \in Opening => pump[u].envelope \notin BagToSet(shown)

ShownInv(u) ==
    /\ app[u].at = "read" => app[u].r.session = session[u][app[u].to]
    /\ Once(u, session[u], Seen)
    /\ Fresh(u, session[u], Seen, flying, events[u])
    /\ Single(u)

AllDiffer == \A u \in User : Differ(u, flying, events[u])

Showing == \A u \in User : SoleThread(u) => ShownInv(u)

OnceInv == StepInv /\ Secrets /\ AllDiffer /\ Showing

(* A secret is that of one handshake.                                       *)
LEMMA OneMaker ==
    ASSUME NEW x, NEW u, NEW v, NEW n, NEW a, NEW b, NEW m,
           MadeWith(x, u, v, n), MadeWith(x, a, b, m)
    PROVE  u = a /\ v = b /\ n = m
<1>1. {<<"EK", u, v, n>>, <<"IK", v>>} = {<<"EK", a, b, m>>, <<"IK", b>>}
  BY DEF MadeWith
<1>2. <<"EK", u, v, n>>[1] # <<"IK", b>>[1]
  OBVIOUS
<1>3. <<"EK", u, v, n>> = <<"EK", a, b, m>>
  BY <1>1, <1>2
<1>. QED  BY <1>3

(* A secret made is no empty one, and that of one pair of users.            *)
LEMMA MakerFacts ==
    ASSUME NEW H, H \in [User -> [User -> Nat]]
    PROVE  /\ \A x : \A u, v \in User : Made(H, x, u, v) => x # << >>
           /\ \A x : \A u, v, a, b \in User :
                Made(H, x, u, v) /\ Made(H, x, a, b) => u = a /\ v = b
<1>1. ASSUME NEW x, NEW u \in User, NEW v \in User, Made(H, x, u, v)
      PROVE  x # << >>
  BY <1>1 DEF Made, MadeWith
<1>2. ASSUME NEW x, NEW u \in User, NEW v \in User, NEW a \in User, NEW b \in User,
             Made(H, x, u, v), Made(H, x, a, b)
      PROVE  u = a /\ v = b
  <2>1. PICK n \in 1..H[u][v] : MadeWith(x, u, v, n)
    BY <1>2 DEF Made
  <2>2. PICK m \in 1..H[a][b] : MadeWith(x, a, b, m)
    BY <1>2 DEF Made
  <2>. QED  BY <2>1, <2>2, OneMaker
<1>. QED  BY <1>1, <1>2

(* G counts one handshake of u with v more than H: what was made was, and   *)
(* the secret of the new one is new.                                        *)
OneHigher(H, G, u, v) ==
    /\ H \in [User -> [User -> Nat]] /\ G \in [User -> [User -> Nat]]
    /\ \A a, b \in User : G[a][b] = IF a = u /\ b = v THEN H[a][b] + 1 ELSE H[a][b]

NewlyMade(H, G, u, v, new) ==
    /\ \A x : \A a, b \in User : Made(H, x, a, b) => Made(G, x, a, b)
    /\ Made(G, new, u, v)
    /\ \A a, b \in User : ~ Made(H, new, a, b)

(* The secret of a handshake just started is none of those made before.     *)
LEMMA OneMore ==
    ASSUME NEW H, NEW G, NEW u \in User, NEW v \in User, OneHigher(H, G, u, v),
           NEW new, MadeWith(new, u, v, H[u][v] + 1)
    PROVE  NewlyMade(H, G, u, v, new)
<1> DEFINE n == H[u][v]
<1>1. n \in Nat /\ \A a, b \in User : H[a][b] \in Nat
  BY DEF OneHigher
<1>2. \A a, b \in User : G[a][b] = IF a = u /\ b = v THEN n + 1 ELSE H[a][b]
  BY DEF OneHigher
<1>3. MadeWith(new, u, v, n + 1)
  OBVIOUS
<1> HIDE DEF n
<1>4. ASSUME NEW a \in User, NEW b \in User
      PROVE  \A k \in 1..H[a][b] : k \in 1..G[a][b]
  <2>1. G[a][b] = H[a][b] \/ (G[a][b] = n + 1 /\ H[a][b] = n)
    BY <1>2 DEF n
  <2>2. H[a][b] \in Nat
    BY <1>1
  <2>. QED  BY <1>1, <2>1, <2>2
<1>5. \A x : \A a, b \in User : Made(H, x, a, b) => Made(G, x, a, b)
  BY <1>4 DEF Made
<1>6. Made(G, new, u, v)
  <2>1. n + 1 \in 1..G[u][v]
    BY <1>1, <1>2
  <2>. QED  BY <1>3, <2>1 DEF Made
<1>7. ASSUME NEW a \in User, NEW b \in User, Made(H, new, a, b)
      PROVE  FALSE
  <2>1. PICK k \in 1..H[a][b] : MadeWith(new, a, b, k)
    BY <1>7 DEF Made
  <2>2. a = u /\ b = v /\ k = n + 1
    BY <1>3, <2>1, OneMaker
  <2>3. k \in 1..n
    BY <2>1, <2>2 DEF n
  <2>. QED  BY <1>1, <2>2, <2>3
<1>. QED  BY <1>5, <1>6, <1>7 DEF NewlyMade

(* What x3dh_initiate makes of v's contact card.                            *)
LEMMA CardSecret ==
    ASSUME NEW u, NEW v, NEW n
    PROVE  MadeWith(X3dhInitiate(u, <<"EK", u, v, n>>, ContactCard(v)).secret, u, v, n)
<1> DEFINE ephemeral == <<"EK", u, v, n>>
           store == StoreFromBytes(SavedPrekeys(v))
           tail == Optional(Offered(store), NoKey)
           bytes == <<v, <<"IK", v>>, store.signed>> \o tail
           bundle == BundleFromBytes(ContactCard(v))
<1>1. ContactCard(v) = bytes
  <2> HIDE DEF store
  <2>1. ContactCard(v) = BundleToBytes(PublicBundle(v, store))
    BY DEF ContactCard, store
  <2>. QED  BY <2>1 DEF BundleToBytes, PublicBundle
<1>2. IsSeq(tail)
  <2> HIDE DEF store
  <2>1. tail = <<0>> \/ \E y : tail = <<1, y>>
    BY DEF Optional
  <2>2. \A y : IsSeq(<<1, y>>)
    BY DEF IsSeq, Items
  <2>. QED  BY <2>1, <2>2, ShortSeqs
<1>3. bytes[2] = <<"IK", v>>
  <2> DEFINE k == <<"IK", v>>
             y == store.signed
             head == <<v, k, y>>
  <2>1. IsSeq(head) /\ 2 \in 1..Len(head) /\ head[2] = k
    <3> HIDE DEF k, y
    <3>. QED  BY DEF IsSeq, Items
  <2> HIDE DEF head, tail
  <2>2. (head \o tail)[2] = head[2]
    BY <1>2, <2>1, ConcatFront
  <2>. QED  BY <2>1, <2>2 DEF head
<1>4. bundle.agreement = <<"IK", v>>
  <2> HIDE DEF bytes
  <2>. QED  BY <1>1, <1>3 DEF BundleFromBytes
<1>5. X3dhInitiate(u, ephemeral, ContactCard(v)).secret
        = InitiatorSecret(u, ephemeral, bundle)
  <2> HIDE DEF ephemeral
  <2>. QED  BY DEF X3dhInitiate
<1>6. \A a, b, c, d : <<a, b, c, d>> # << >> /\ <<a, b, c, d>>[2] = b
  OBVIOUS
<1>7. /\ InitiatorSecret(u, ephemeral, bundle) # << >>
      /\ InitiatorSecret(u, ephemeral, bundle)[2] = {ephemeral, bundle.agreement}
  <2> HIDE DEF ephemeral, bundle
  <2>. QED  BY <1>6 DEF InitiatorSecret, SharedSecret, DH
<1>. QED  BY <1>4, <1>5, <1>7 DEF MadeWith

(* Queues of which every handshake was in es.                               *)
NoHandshake(es, fs) ==
    /\ \A i \in DOMAIN fs : Comes(fs[i]) => \E j \in DOMAIN es : es[j] = fs[i]
    /\ Unlike(es) => Unlike(fs)

(* What keeps the handshakes of a queue.                                    *)
LEMMA HandshakeFacts ==
    ASSUME NEW es, IsSeq(es)
    PROVE  /\ NoHandshake(es, es) /\ NoHandshake(es, << >>)
           /\ \A ev : ~ Comes(ev) => NoHandshake(es, Append(es, ev))
           /\ es # << >> => NoHandshake(es, Tail(es))
<1>1. ASSUME NEW ev, ~ Comes(ev)
      PROVE  NoHandshake(es, Append(es, ev))
  <2> DEFINE n == Len(es)
             fs == Append(es, ev)
  <2>1. /\ DOMAIN es = 1..n /\ n \in Nat /\ DOMAIN fs = 1..(n + 1)
        /\ \A i \in DOMAIN es : fs[i] = es[i]
        /\ fs[n + 1] = ev
    BY AppendItems
  <2> HIDE DEF n, fs
  <2>2. \A i \in DOMAIN fs : i \in DOMAIN es \/ i = n + 1
    BY <2>1
  <2>3. \A i \in DOMAIN fs : Comes(fs[i]) => i \in DOMAIN es /\ fs[i] = es[i]
    BY <1>1, <2>1, <2>2
  <2>4. Unlike(es) => Unlike(fs)
    BY <2>3 DEF Unlike
  <2>5. NoHandshake(es, fs)
    BY <2>3, <2>4 DEF NoHandshake
  <2>. QED  BY <2>5 DEF fs
<1>2. ASSUME es # << >>
      PROVE  NoHandshake(es, Tail(es))
  <2> DEFINE fs == Tail(es)
  <2>1. /\ \A i \in DOMAIN fs : i + 1 \in DOMAIN es /\ fs[i] = es[i + 1]
        /\ \A i \in DOMAIN fs : i \in Int
    BY <1>2, TailItems
  <2> HIDE DEF fs
  <2>2. ASSUME Unlike(es), NEW i \in DOMAIN fs, NEW j \in DOMAIN fs,
               Comes(fs[i]), Comes(fs[j]), fs[i].data.secret = fs[j].data.secret
        PROVE  i = j
    <3>1. i + 1 = j + 1
      BY <2>1, <2>2 DEF Unlike
    <3>. QED  BY <2>1, <3>1
  <2>3. NoHandshake(es, fs)
    BY <2>1, <2>2 DEF NoHandshake, Unlike
  <2>. QED  BY <2>3 DEF fs
<1>3. NoHandshake(es, es)
  BY DEF NoHandshake
<1>4. NoHandshake(es, << >>)
  <2>1. DOMAIN << >> = {}
    OBVIOUS
  <2>. QED  BY <2>1 DEF NoHandshake, Unlike
<1>. QED  BY <1>1, <1>2, <1>3, <1>4

(* Taking an event, or telling one that brings no handshake, brings none.   *)
LEMMA EventsNoHandshake ==
    ASSUME StepInv
    PROVE  /\ \A u \in User : \A kind : Takes(u, kind) =>
                \A w \in User : NoHandshake(events[w], events'[w])
           /\ \A u \in User : \A ev : ~ Comes(ev) /\ Enqueue(u, ev) =>
                \A w \in User : NoHandshake(events[w], events'[w])
           /\ \A p : \A kind : kind # "envelope" /\ Both(p, kind) =>
                \A w \in User : NoHandshake(events[w], events'[w])
           /\ UNCHANGED events => \A w \in User : NoHandshake(events[w], events'[w])
<1>1. events = [w \in User |-> events[w]] /\ \A w \in User : IsSeq(events[w])
  BY DEF StepInv, TypeInv, EventsOk, AllSeqs
<1>2. ASSUME NEW u \in User, NEW kind, Takes(u, kind), NEW w \in User
      PROVE  NoHandshake(events[w], events'[w])
  <2>1. events[u] # << >> /\ events' = [events EXCEPT ![u] = Tail(@)]
    BY <1>2 DEF Takes
  <2>2. events'[w] = IF w = u THEN Tail(events[w]) ELSE events[w]
    BY <1>1, <2>1
  <2>. QED  BY <1>1, <2>1, <2>2, HandshakeFacts
<1>3. ASSUME NEW u \in User, NEW ev, ~ Comes(ev), Enqueue(u, ev), NEW w \in User
      PROVE  NoHandshake(events[w], events'[w])
  <2>1. events'[w] = IF w = u THEN Append(events[w], ev) ELSE events[w]
    BY <1>1, <1>3 DEF Enqueue
  <2>. QED  BY <1>1, <1>3, <2>1, HandshakeFacts
<1>4. ASSUME NEW p, NEW kind, kind # "envelope", Both(p, kind), NEW w \in User
      PROVE  NoHandshake(events[w], events'[w])
  <2> DEFINE ev == Event(kind, CHOOSE v \in p : v # w, NoData)
  <2>1. events'[w] = IF w \in p THEN Append(events[w], ev) ELSE events[w]
    BY <1>4 DEF Both
  <2>2. ev.kind = kind
    BY EventShape
  <2> HIDE DEF ev
  <2>3. ~ Comes(ev)
    BY <1>4, <2>2 DEF Comes
  <2>. QED  BY <1>1, <2>1, <2>3, HandshakeFacts
<1>5. ASSUME UNCHANGED events, NEW w \in User
      PROVE  NoHandshake(events[w], events'[w])
  BY <1>1, <1>5, HandshakeFacts
<1>. QED  BY <1>2, <1>3, <1>4, <1>5

-----------------------------------------------------------------------------
(* Steps that start no handshake and show nothing                           *)

(* A session is encrypted with: the one kept, or the one sendMessage read.  *)
Reencrypted(u, v) ==
    \E s : /\ \/ s = session[u][v]
              \/ app[u].at = "read" /\ v = app[u].to /\ s = app[u].r.session
           /\ s # NoSession /\ session'[u][v] = Encrypted(s)

(* Nothing is shown, and no envelope opened.                                *)
OpensNothing ==
    /\ UNCHANGED shown
    /\ \A u \in User : pump'[u].at = "opened" => pump'[u] = pump[u]

Tame ==
    /\ UNCHANGED handshakes /\ OpensNothing
    /\ \A e \in flying' : IsHandshake(e) => e \in flying
    /\ \A u \in User : NoHandshake(events[u], events'[u])
    /\ \A u, v \in User : session'[u][v] = session[u][v] \/ Reencrypted(u, v)
    /\ \A u \in User : app'[u].at = "read" =>
          \/ app'[u] = app[u]
          \/ /\ app'[u].to \in User
             /\ app'[u].r.session = session[u][app'[u].to]

(* What the ratchet's steps do to a session's secret.                       *)
LEMMA SessionKeys ==
    /\ \A s, e : IsSession(s) =>
          /\ Encrypted(s).secret = s.secret /\ Encrypted(s).got = s.got
          /\ Decrypted(s, e).secret = s.secret
          /\ Decrypted(s, e).got = s.got \cup {e.number}
    /\ \A x : NewRatchet(x).secret = x /\ NewRatchet(x).got = {}
    /\ NoSession.secret = << >>
<1>1. ASSUME NEW s, NEW e, IsSession(s)
      PROVE  /\ Encrypted(s).secret = s.secret /\ Encrypted(s).got = s.got
             /\ Decrypted(s, e).secret = s.secret
             /\ Decrypted(s, e).got = s.got \cup {e.number}
  <2>1. s = [secret |-> s.secret, sent |-> s.sent, got |-> s.got]
    BY <1>1 DEF IsSession
  <2>. QED  BY <2>1 DEF Encrypted, Decrypted
<1>2. NoSession.secret = << >>
  BY DEF NoSession
<1>3. ASSUME NEW x
      PROVE  NewRatchet(x).secret = x /\ NewRatchet(x).got = {}
  BY DEF NewRatchet, NoSession
<1>. QED  BY <1>1, <1>2, <1>3

(* A step that opens nothing has no more to be seen.                        *)
LEMMA NoMoreSeen ==
    ASSUME OpensNothing
    PROVE  /\ Opening' \subseteq Opening /\ Seen' \subseteq Seen
           /\ shown' = shown /\ \A u \in Opening' : pump'[u] = pump[u]
           /\ \A u \in User : Single(u) => Single(u)'
<1>1. \A u \in Opening' : u \in Opening /\ pump'[u] = pump[u]
  BY DEF OpensNothing, Opening
<1>2. shown' = shown
  BY DEF OpensNothing
<1>3. Seen' \subseteq Seen
  BY <1>1, <1>2 DEF Seen
<1>4. \A u \in User : Single(u) => Single(u)'
  BY <1>1, <1>2 DEF Single
<1>. QED  BY <1>1, <1>2, <1>3, <1>4

(* A pump that is given another task than to show opens nothing.            *)
LEMMA GivenTask ==
    ASSUME StepInv, NEW u \in User, NEW t, t.at # "opened",
           pump' = [pump EXCEPT ![u] = t], shown' = shown
    PROVE  OpensNothing
<1>1. pump = [a \in User |-> pump[a]]
  BY DEF StepInv, TypeInv, PumpsOk
<1>2. \A a \in User : pump'[a] = IF a = u THEN t ELSE pump[a]
  BY <1>1
<1>. QED  BY <1>2 DEF OpensNothing

(* Seeing less, u has still not seen what it had not.                       *)
LEMMA SeesLess ==
    ASSUME NEW u, NEW row, NEW S, NEW R, R \subseteq S
    PROVE  /\ Once(u, row, S) => Once(u, row, R)
           /\ \A F, es : Fresh(u, row, S, F, es) => Fresh(u, row, R, F, es)
<1>1. \A x : Unseen(u, row, S, x) => Unseen(u, row, R, x)
  BY DEF Unseen
<1>. QED  BY <1>1 DEF Once, Fresh

(* A tame step keeps Secrets.                                               *)
LEMMA TameSecrets ==
    ASSUME StepInv, Secrets, Tame
    PROVE  Secrets'
<1> DEFINE H == handshakes
<1>1. /\ H \in [User -> [User -> Nat]] /\ Held(H, session, app)
      /\ Coming(H, flying, events) /\ IsABag(shown) /\ SeenMade(H, Seen)
      /\ handshakes' = H /\ \A u \in Opening : pump[u].envelope.to = u
  BY DEF Secrets, Tame
<1>2. \A u, v \in User : IsSession(session[u][v])
  BY DEF StepInv, TypeInv, SendingOk, SessionsOk
<1> HIDE DEF H
<1>3. ASSUME NEW u \in User, NEW v \in User
      PROVE  Shared(H, session'[u][v], u, v)
  <2>1. CASE session'[u][v] = session[u][v]
    BY <1>1, <2>1 DEF Held
  <2>2. CASE Reencrypted(u, v)
    <3>1. PICK s : /\ \/ s = session[u][v]
                      \/ app[u].at = "read" /\ v = app[u].to /\ s = app[u].r.session
                   /\ s # NoSession /\ session'[u][v] = Encrypted(s)
      BY <2>2 DEF Reencrypted
    <3>2. Shared(H, s, u, v)
      BY <1>1, <3>1 DEF Held
    <3>3. IsSession(s)
      <4>1. app[u].at = "read" => IsSession(app[u].r.session)
        BY AppTask
      <4>. QED  BY <1>2, <3>1, <4>1
    <3>4. session'[u][v].secret = s.secret
      BY <3>1, <3>3, SessionKeys
    <3>. QED  BY <3>1, <3>2, <3>4 DEF Shared
  <2>. QED  BY <2>1, <2>2 DEF Tame
<1>4. ASSUME NEW u \in User, app'[u].at = "read"
      PROVE  Shared(H, app'[u].r.session, u, app'[u].to)
  <2>1. CASE app'[u] = app[u]
    BY <1>1, <1>4, <2>1 DEF Held
  <2>2. CASE app'[u].to \in User /\ app'[u].r.session = session[u][app'[u].to]
    BY <1>1, <2>2 DEF Held
  <2>. QED  BY <1>4, <2>1, <2>2 DEF Tame
<1>5. Held(H, session', app')
  BY <1>3, <1>4 DEF Held
<1>6. Coming(H, flying', events')
  <2>1. \A e \in flying' : IsHandshake(e) => Made(H, e.secret, e.from, e.to)
    BY <1>1 DEF Coming, Tame
  <2>2. ASSUME NEW u \in User, NEW i \in DOMAIN events'[u], Comes(events'[u][i])
        PROVE  Made(H, events'[u][i].data.secret, events'[u][i].peer, u)
    <3>1. PICK j \in DOMAIN events[u] : events[u][j] = events'[u][i]
      BY <2>2 DEF Tame, NoHandshake
    <3>. QED  BY <1>1, <2>2, <3>1 DEF Coming
  <2>. QED  BY <2>1, <2>2 DEF Coming
<1>7. IsABag(shown)' /\ SeenMade(H, Seen') /\ \A u \in Opening' : pump'[u].envelope.to = u
  <2>1. /\ Opening' \subseteq Opening /\ Seen' \subseteq Seen
        /\ shown' = shown /\ \A u \in Opening' : pump'[u] = pump[u]
    BY NoMoreSeen DEF Tame
  <2>. QED  BY <1>1, <2>1 DEF SeenMade
<1>. QED  BY <1>1, <1>5, <1>6, <1>7 DEF Secrets

(* With no handshake more, those on their way differ still.                 *)
LEMMA DifferKept ==
    ASSUME NEW u, NEW F, NEW es, Differ(u, F, es), NEW F2,
           \A e \in F2 : IsHandshake(e) /\ e.to = u => e \in F,
           NEW fs, NoHandshake(es, fs)
    PROVE  Differ(u, F2, fs)
<1>1. Unlike(fs)
  BY DEF Differ, NoHandshake
<1>2. ASSUME NEW e \in F2, IsHandshake(e), e.to = u
      PROVE  /\ \A d \in F2 : IsHandshake(d) /\ d.to = u /\ d.secret = e.secret => d = e
             /\ \A i \in DOMAIN fs : Comes(fs[i]) => fs[i].data.secret # e.secret
  <2>1. e \in F
    BY <1>2
  <2>2. \A d \in F2 : IsHandshake(d) /\ d.to = u /\ d.secret = e.secret => d = e
    BY <1>2, <2>1 DEF Differ
  <2>3. ASSUME NEW i \in DOMAIN fs, Comes(fs[i])
        PROVE  fs[i].data.secret # e.secret
    <3>1. PICK j \in DOMAIN es : es[j] = fs[i]
      BY <2>3 DEF NoHandshake
    <3>. QED  BY <1>2, <2>1, <2>3, <3>1 DEF Differ
  <2>. QED  BY <2>2, <2>3
<1>. QED  BY <1>1, <1>2 DEF Differ

(* Seeing no more, in no new session, what was fresh is.                    *)
LEMMA FreshKept ==
    ASSUME NEW u, NEW row, NEW S, NEW F, NEW es, Fresh(u, row, S, F, es),
           NEW row2, \A v \in User : row2[v].secret = row[v].secret,
           NEW F2, \A e \in F2 : IsHandshake(e) /\ e.to = u => e \in F,
           NEW fs, NoHandshake(es, fs)
    PROVE  Fresh(u, row2, S, F2, fs)
<1>1. \A x : Unseen(u, row, S, x) => Unseen(u, row2, S, x)
  BY DEF Unseen
<1>2. \A e \in F2 : IsHandshake(e) /\ e.to = u => Unseen(u, row, S, e.secret)
  BY DEF Fresh
<1>3. ASSUME NEW i \in DOMAIN fs, Comes(fs[i])
      PROVE  Unseen(u, row, S, fs[i].data.secret)
  <2>1. PICK j \in DOMAIN es : es[j] = fs[i]
    BY <1>3 DEF NoHandshake
  <2>. QED  BY <1>3, <2>1 DEF Fresh
<1>. QED  BY <1>1, <1>2, <1>3 DEF Fresh

(* A tame step keeps AllDiffer.                                             *)
LEMMA TameDiffers ==
    ASSUME AllDiffer, Tame
    PROVE  AllDiffer'
<1>1. \A u \in User : Differ(u, flying', events'[u])
  <2> SUFFICES ASSUME NEW u \in User PROVE Differ(u, flying', events'[u])
    OBVIOUS
  <2>1. Differ(u, flying, events[u])
    BY DEF AllDiffer
  <2>2. /\ \A e \in flying' : IsHandshake(e) /\ e.to = u => e \in flying
        /\ NoHandshake(events[u], events'[u])
    BY DEF Tame
  <2>. QED  BY <2>1, <2>2, DifferKept
<1>. QED  BY <1>1 DEF AllDiffer

(* A sole thread that holds a session read sees it unchanged.               *)
StillRead(u) == app'[u].at = "read" => session'[u] = session[u]

(* A tame step keeps ShownInv, if what the app read is still the session.   *)
LEMMA TameShown ==
    ASSUME StepInv, Tame, NEW u \in User, ShownInv(u), StillRead(u)
    PROVE  ShownInv(u)'
<1>1. ASSUME NEW v \in User
      PROVE  /\ session'[u][v].secret = session[u][v].secret
             /\ session'[u][v].got = session[u][v].got
  <2>1. IsSession(session[u][v])
    BY DEF StepInv, TypeInv, SendingOk, SessionsOk
  <2>2. session'[u][v] = session[u][v] \/ session'[u][v] = Encrypted(session[u][v])
    BY DEF Tame, Reencrypted, ShownInv
  <2>. QED  BY <2>1, <2>2, SessionKeys
<1>2. /\ \A e \in flying' : IsHandshake(e) /\ e.to = u => e \in flying
      /\ NoHandshake(events[u], events'[u]) /\ Seen' \subseteq Seen /\ Single(u)'
  BY NoMoreSeen DEF Tame, ShownInv
<1>3. Fresh(u, session'[u], Seen', flying', events'[u])
  <2>1. Fresh(u, session[u], Seen, flying, events[u])
    BY DEF ShownInv
  <2>2. Fresh(u, session'[u], Seen, flying', events'[u])
    BY <1>1, <1>2, <2>1, FreshKept
  <2>. QED  BY <1>2, <2>2, SeesLess
<1>4. Once(u, session'[u], Seen')
  <2>1. Once(u, session[u], Seen)
    BY DEF ShownInv
  <2>2. Once(u, session'[u], Seen)
    BY <1>1, <2>1 DEF Once
  <2>. QED  BY <1>2, <2>2, SeesLess
<1>5. app'[u].at = "read" => app'[u].r.session = session'[u][app'[u].to]
  BY DEF Tame, StillRead, ShownInv
<1>. QED  BY <1>2, <1>3, <1>4, <1>5 DEF ShownInv

(* What attemptSend does to the sessions, and what it sends.                *)
LEMMA AttemptEncrypts ==
    ASSUME NEW u \in User, NEW v \in User, NEW st, NEW r, Attempt(u, v, st, r),
           SessionsOk(session), NEW s, s = r.session
    PROVE  /\ \A e \in flying' : IsHandshake(e) => e \in flying
           /\ \/ session' = session
              \/ /\ s # NoSession /\ session'[u][v] = Encrypted(s)
                 /\ \A a, b \in User : ~ (a = u /\ b = v) => session'[a][b] = session[a][b]
<1> DEFINE x == Envelope(u, v, "continuing", NoData, r.session, r.item)
<1>1. ~ IsHandshake(x)
  BY DEF Envelope, IsHandshake
<1>2. flying' = flying \/ flying' = flying \cup {x}
  BY DEF Attempt, Started
<1>3. \/ session' = session
      \/ s # NoSession /\ session' = [session EXCEPT ![u][v] = Encrypted(s)]
  BY DEF Attempt
<1>4. session = [a \in User |-> [b \in User |-> session[a][b]]]
  BY DEF SessionsOk
<1> HIDE DEF x
<1>5. \A e \in flying' : IsHandshake(e) => e \in flying
  BY <1>1, <1>2
<1>6. ASSUME NEW new, session' = [session EXCEPT ![u][v] = new]
      PROVE  /\ session'[u][v] = new
             /\ \A a, b \in User : ~ (a = u /\ b = v) => session'[a][b] = session[a][b]
  BY <1>4, <1>6
<1>. QED  BY <1>3, <1>5, <1>6

(* sendMessage's reading is tame.                                           *)
LEMMA SendLoadTame ==
    ASSUME StepInv, NEW u \in User, NEW v \in User, SendLoad(u, v)
    PROVE  Tame /\ \A w \in User : StillRead(w)
<1>1. /\ UNCHANGED <<session, flying, events, handshakes, shown, pump>>
      /\ app' = [app EXCEPT ![u] = [at |-> "loaded", to |-> v, box |-> outbox[u],
                                    id |-> sent + 1]]
  BY DEF SendLoad, disk, net
<1>2. \A w \in User : app'[w].at = "read" => app'[w] = app[w]
  <2>1. app = [w \in User |-> app[w]]
    BY DEF StepInv, TypeInv, AppsOk
  <2>. QED  BY <1>1, <2>1
<1>9. OpensNothing
  BY <1>1 DEF OpensNothing
<1>3. \A w \in User : NoHandshake(events[w], events'[w])
  BY <1>1, EventsNoHandshake
<1>. QED  BY <1>9, <1>1, <1>2, <1>3 DEF Tame, StillRead

(* sendMessage's saving is tame: it encrypts what it read.                  *)
LEMMA SendSaveTame ==
    ASSUME StepInv, NEW u \in User, SendSave(u)
    PROVE  Tame /\ \A w \in User : StillRead(w)
<1> DEFINE v == app[u].to
           r == Reads(u, v, Append(app[u].box, [id |-> app[u].id, to |-> app[u].to]))
<1>1. /\ UNCHANGED <<session, flying, events, handshakes, shown, pump>>
      /\ app' = [app EXCEPT ![u] = [at |-> "read", to |-> v, r |-> r]]
      /\ v \in User
  BY AppTask DEF SendSave, net
<1>2. r.session = session[u][v]
  BY DEF Reads
<1> HIDE DEF r, v
<1>3. ASSUME NEW w \in User, app'[w].at = "read"
      PROVE  \/ app'[w] = app[w]
             \/ app'[w].to \in User /\ app'[w].r.session = session[w][app'[w].to]
  <2>1. app = [a \in User |-> app[a]]
    BY DEF StepInv, TypeInv, AppsOk
  <2>2. CASE w = u
    <3>1. app'[u] = [at |-> "read", to |-> v, r |-> r]
      BY <1>1, <2>1
    <3>. QED  BY <1>1, <1>2, <2>2, <3>1
  <2>3. CASE w # u
    BY <1>1, <2>1, <2>3
  <2>. QED  BY <2>2, <2>3
<1>9. OpensNothing
  BY <1>1 DEF OpensNothing
<1>4. \A w \in User : NoHandshake(events[w], events'[w])
  BY <1>1, EventsNoHandshake
<1>. QED  BY <1>9, <1>1, <1>3, <1>4 DEF Tame, StillRead

(* sendMessage's attempt is tame.                                           *)
LEMMA SendAttemptTame ==
    ASSUME StepInv, NEW u \in User, SendAttempt(u)
    PROVE  Tame /\ \A w \in User : StillRead(w)
<1> DEFINE v == app[u].to
           s == app[u].r.session
<1>1. /\ app[u].at = "read" /\ Attempt(u, v, states[u], app[u].r)
      /\ UNCHANGED <<events, handshakes, shown, pump>>
      /\ app' = [app EXCEPT ![u] = NoTask]
      /\ v \in User
  BY AppTask DEF SendAttempt
<1>2. \A w \in User : app'[w].at = "read" => w # u /\ app'[w] = app[w]
  <2>1. app = [w \in User |-> app[w]]
    BY DEF StepInv, TypeInv, AppsOk
  <2>. QED  BY <1>1, <2>1 DEF NoTask
<1>3. SessionsOk(session) /\ SessionsOk(session')
  <2>1. StepInv'
    BY SendAttemptStep
  <2>. QED  BY <2>1 DEF StepInv, TypeInv, SendingOk
<1>4. /\ \A e \in flying' : IsHandshake(e) => e \in flying
      /\ \/ session' = session
         \/ /\ s # NoSession /\ session'[u][v] = Encrypted(s)
            /\ \A a, b \in User : ~ (a = u /\ b = v) => session'[a][b] = session[a][b]
  BY <1>1, <1>3, AttemptEncrypts
<1>5. \A w \in User : NoHandshake(events[w], events'[w])
  BY <1>1, EventsNoHandshake
<1>6. \A a, b \in User : session'[a][b] = session[a][b] \/ Reencrypted(a, b)
  <2> HIDE DEF s, v
  <2>1. session' # session => Reencrypted(u, v)
    <3>1. app[u].at = "read" /\ v = app[u].to /\ s = app[u].r.session
      BY <1>1 DEF s, v
    <3>. QED  BY <1>4, <3>1 DEF Reencrypted
  <2>. QED  BY <1>4, <2>1
<1>7. \A w \in User : StillRead(w)
  <2> SUFFICES ASSUME NEW w \in User, w # u PROVE session'[w] = session[w]
    BY <1>2 DEF StillRead
  <2>1. session' = session \/ \A b \in User : session'[w][b] = session[w][b]
    BY <1>4
  <2>2. /\ session[w] = [b \in User |-> session[w][b]]
        /\ session'[w] = [b \in User |-> session'[w][b]]
    BY <1>3 DEF SessionsOk
  <2>3. (\A b \in User : session'[w][b] = session[w][b])
          => [b \in User |-> session'[w][b]] = [b \in User |-> session[w][b]]
    OBVIOUS
  <2>. QED  BY <2>1, <2>2, <2>3
<1>8. OpensNothing
  BY <1>1 DEF OpensNothing
<1>. QED  BY <1>1, <1>2, <1>4, <1>5, <1>6, <1>7, <1>8 DEF Tame

(* What a step keeps, for the users whose two threads did not overlap.      *)
StaysOnce ==
    /\ Secrets' /\ AllDiffer'
    /\ \A w \in User : SoleThread(w)' /\ ShownInv(w) => ShownInv(w)'

(* A tame step keeps all of OnceInv.                                        *)
LEMMA TameStays ==
    ASSUME StepInv, Secrets, AllDiffer, Tame,
           \A w \in User : SoleThread(w)' => StillRead(w)
    PROVE  StaysOnce
<1>1. Secrets' /\ AllDiffer'
  BY TameSecrets, TameDiffers
<1>2. ASSUME NEW w \in User, SoleThread(w)', ShownInv(w)
      PROVE  ShownInv(w)'
  BY <1>2, TameShown
<1>. QED  BY <1>1, <1>2 DEF StaysOnce

(* A step of the pump that encrypts at most once, in the session it has.    *)
Encrypts(u, v) ==
    \/ session' = session
    \/ /\ session[u][v] # NoSession /\ session'[u][v] = Encrypted(session[u][v])
       /\ \A a, b \in User : ~ (a = u /\ b = v) => session'[a][b] = session[a][b]

(* The rows of the sessions of everybody else are as they were.             *)
LEMMA OtherRows ==
    ASSUME SessionsOk(session), SessionsOk(session'), NEW u \in User, NEW v \in User,
           \A a, b \in User : ~ (a = u /\ b = v) => session'[a][b] = session[a][b]
    PROVE  \A w \in User : w # u => session'[w] = session[w]
<1> SUFFICES ASSUME NEW w \in User, w # u PROVE session'[w] = session[w]
  OBVIOUS
<1>1. \A b \in User : session'[w][b] = session[w][b]
  OBVIOUS
<1>2. /\ session[w] = [b \in User |-> session[w][b]]
      /\ session'[w] = [b \in User |-> session'[w][b]]
  BY DEF SessionsOk
<1>3. (\A b \in User : session'[w][b] = session[w][b])
        => [b \in User |-> session'[w][b]] = [b \in User |-> session[w][b]]
  OBVIOUS
<1>. QED  BY <1>1, <1>2, <1>3

(* A step of the pump that at most encrypts is tame, and if the app has     *)
(* read a session meanwhile the threads overlap.                            *)
LEMMA PumpTame ==
    ASSUME StepInv, StepInv', NEW u \in User, NEW v \in User,
           UNCHANGED <<handshakes, app>>, OpensNothing, Overlap(u, app),
           \A e \in flying' : IsHandshake(e) => e \in flying,
           \A w \in User : NoHandshake(events[w], events'[w]),
           Encrypts(u, v)
    PROVE  Tame /\ \A w \in User : SoleThread(w)' => StillRead(w)
<1>1. \A a, b \in User : session'[a][b] = session[a][b] \/ Reencrypted(a, b)
  BY DEF Encrypts, Reencrypted
<1>2. Tame
  BY <1>1 DEF Tame
<1>3. SessionsOk(session) /\ SessionsOk(session')
  BY DEF StepInv, TypeInv, SendingOk
<1>4. ASSUME NEW w \in User, SoleThread(w)'
      PROVE  StillRead(w)
  <2>1. CASE w = u
    <3>1. app[u] = NoTask
      BY <1>4, <2>1, AppIdle
    <3>. QED  BY <2>1, <3>1 DEF StillRead, NoTask
  <2>2. CASE w # u
    <3>1. session'[w] = session[w]
      BY <1>3, <2>2, OtherRows DEF Encrypts
    <3>. QED  BY <3>1 DEF StillRead
  <2>. QED  BY <2>1, <2>2
<1>. QED  BY <1>2, <1>4

(* The pump that handles .connected may encrypt the first item.             *)
LEMMA ConnectedOnce ==
    ASSUME StepInv, StepInv', Secrets, AllDiffer, NEW u \in User, OnPeerConnected(u)
    PROVE  StaysOnce
<1> DEFINE v == PeerOf(u)
           st == IF states[u][v] = "dialing" THEN Ended(u, v) ELSE states[u]
           r == [Reads(u, v, outbox[u]) EXCEPT !.conn = TRUE]
<1>1. /\ Takes(u, "connected") /\ UNCHANGED <<handshakes, shown, pump, app>>
      /\ Attempt(u, v, st, r) \/ UNCHANGED <<session, flying>>
  BY DEF OnPeerConnected
<1>2. v \in User /\ Overlap(u, app)
  BY <1>1, TakesKeeps DEF Takes
<1>3. r.session = session[u][v]
  BY DEF Reads
<1>4. SessionsOk(session)
  BY DEF StepInv, TypeInv, SendingOk
<1> HIDE DEF v, st, r
<1>5. (\A e \in flying' : IsHandshake(e) => e \in flying) /\ Encrypts(u, v)
  <2>1. CASE Attempt(u, v, st, r)
    BY <1>2, <1>3, <1>4, <2>1, AttemptEncrypts DEF Encrypts
  <2>2. CASE UNCHANGED <<session, flying>>
    BY <2>2 DEF Encrypts
  <2>. QED  BY <1>1, <2>1, <2>2
<1>6. \A w \in User : NoHandshake(events[w], events'[w])
  BY <1>1, EventsNoHandshake
<1>7. Tame /\ \A w \in User : SoleThread(w)' => StillRead(w)
  <2>1. OpensNothing
    BY <1>1 DEF OpensNothing
  <2>. QED  BY <2>1, <1>1, <1>2, <1>5, <1>6, PumpTame
<1>. QED  BY <1>7, TameStays

(* The pump that removes an item may encrypt the next.                      *)
LEMMA RemoveOnce ==
    ASSUME StepInv, StepInv', Secrets, AllDiffer, NEW u \in User, RemoveAndContinue(u)
    PROVE  StaysOnce
<1> DEFINE v == pump[u].to
           rest == IF HasItem(pump[u].box, v)
                   THEN Without(pump[u].box, Delivered(pump[u].box, v)) ELSE outbox[u]
           r == Reads(u, v, rest)
<1>1. /\ UNCHANGED <<handshakes, shown, app, events>> /\ Overlap(u, app)
      /\ pump[u].at = "delivered" /\ pump' = [pump EXCEPT ![u] = NoTask] /\ AttemptIfQueued(u, v, states[u], rest)
  BY DEF RemoveAndContinue
<1>2. v \in User
  <2>1. IsPump(u, pump[u])
    BY DEF StepInv, TypeInv, PumpsOk
  <2>. QED  BY <1>1, <2>1 DEF IsPump, NoTask
<1>3. r.session = session[u][v]
  BY DEF Reads
<1>4. SessionsOk(session)
  BY DEF StepInv, TypeInv, SendingOk
<1>5. Attempt(u, v, states[u], r) \/ UNCHANGED <<session, flying>>
  BY <1>1 DEF AttemptIfQueued
<1> HIDE DEF v, rest, r
<1>6. (\A e \in flying' : IsHandshake(e) => e \in flying) /\ Encrypts(u, v)
  <2>1. CASE Attempt(u, v, states[u], r)
    BY <1>2, <1>3, <1>4, <2>1, AttemptEncrypts DEF Encrypts
  <2>2. CASE UNCHANGED <<session, flying>>
    BY <2>2 DEF Encrypts
  <2>. QED  BY <1>5, <2>1, <2>2
<1>7. \A w \in User : NoHandshake(events[w], events'[w])
  BY <1>1, EventsNoHandshake
<1>8. Tame /\ \A w \in User : SoleThread(w)' => StillRead(w)
  <2>1. OpensNothing
    <3>1. NoTask.at # "opened"
      BY DEF NoTask
    <3>. QED  BY <1>1, <3>1, GivenTask
  <2>. QED  BY <2>1, <1>1, <1>2, <1>6, <1>7, PumpTame
<1>. QED  BY <1>8, TameStays

(* The pump that falls back to the mailbox may encrypt the next item.       *)
LEMMA DeliveryFailedOnce ==
    ASSUME StepInv, StepInv', Secrets, AllDiffer, NEW u \in User,
           OnEnvelopeDeliveryFailed(u)
    PROVE  StaysOnce
<1> DEFINE v == PeerOf(u)
           s == session[u][v]
<1>1. /\ Takes(u, "failed") /\ UNCHANGED <<handshakes, shown, pump, app, flying>>
      /\ \/ session' = session
         \/ s # NoSession /\ session' = [session EXCEPT ![u][v] = Encrypted(s)]
  BY DEF OnEnvelopeDeliveryFailed
<1>2. v \in User /\ Overlap(u, app)
  BY <1>1, TakesKeeps DEF Takes
<1>3. SessionsOk(session)
  BY DEF StepInv, TypeInv, SendingOk
<1>4. Encrypts(u, v)
  <2>1. CASE session' = session
    BY <2>1 DEF Encrypts
  <2>2. CASE s # NoSession /\ session' = [session EXCEPT ![u][v] = Encrypted(s)]
    <3> DEFINE new == Encrypted(s)
    <3>1. IsSession(new)
      BY <1>2, <1>3, SessionShapes DEF SessionsOk
    <3>2. session' = [session EXCEPT ![u][v] = new]
      BY <2>2
    <3> HIDE DEF new, v
    <3>3. v \in User
      BY <1>2
    <3>4. /\ SessionsOk([session EXCEPT ![u][v] = new])
          /\ \A a, b \in User : [session EXCEPT ![u][v] = new][a][b]
                                  = IF a = u /\ b = v THEN new ELSE session[a][b]
      BY <1>3, <3>1, <3>3, SessionChanged
    <3>5. \A a, b \in User :
             session'[a][b] = IF a = u /\ b = v THEN new ELSE session[a][b]
      BY <3>2, <3>4
    <3>. QED  BY <2>2, <3>3, <3>5 DEF Encrypts, new
  <2>. QED  BY <1>1, <2>1, <2>2
<1>5. \A w \in User : NoHandshake(events[w], events'[w])
  BY <1>1, EventsNoHandshake
<1> HIDE DEF v
<1>6. \A e \in flying' : IsHandshake(e) => e \in flying
  BY <1>1
<1>7. Tame /\ \A w \in User : SoleThread(w)' => StillRead(w)
  <2>1. OpensNothing
    BY <1>1 DEF OpensNothing
  <2>. QED  BY <2>1, <1>1, <1>2, <1>4, <1>5, <1>6, PumpTame
<1>. QED  BY <1>7, TameStays

(* The pump's other steps touch no session.                                 *)
LEMMA PumpOnce ==
    ASSUME StepInv, StepInv', Secrets, AllDiffer, NEW u \in User, NEW kind, Takes(u, kind),
           UNCHANGED <<handshakes, app, flying, session>>, OpensNothing
    PROVE  StaysOnce
<1>1. Overlap(u, app) /\ Encrypts(u, u)
  BY DEF Takes, Encrypts
<1>2. \A w \in User : NoHandshake(events[w], events'[w])
  BY EventsNoHandshake
<1>3. \A e \in flying' : IsHandshake(e) => e \in flying
  OBVIOUS
<1>4. Tame /\ \A w \in User : SoleThread(w)' => StillRead(w)
  BY <1>1, <1>2, <1>3, PumpTame
<1>. QED  BY <1>4, TameStays

(* The events whose handlers touch no session.                              *)
LEMMA PlainPumpOnce ==
    ASSUME StepInv, StepInv', Secrets, AllDiffer, NEW u \in User,
           \/ OnPeerDisconnected(u) \/ OnDialFailed(u) \/ OnBlobFetchFailed(u)
           \/ OnEnvelopeDelivered(u)
    PROVE  StaysOnce
<1>1. PICK kind : Takes(u, kind)
  BY DEF OnPeerDisconnected, OnDialFailed, OnBlobFetchFailed, OnFailed,
         OnEnvelopeDelivered
<1>2. UNCHANGED <<handshakes, shown, app, flying, session>>
  BY DEF OnPeerDisconnected, OnDialFailed, OnBlobFetchFailed, OnFailed,
         OnEnvelopeDelivered, disk
<1>3. OpensNothing
  <2>1. CASE UNCHANGED pump
    BY <1>2, <2>1 DEF OpensNothing
  <2>2. CASE OnEnvelopeDelivered(u) /\ pump' # pump
    <3> DEFINE t == [at |-> "delivered", to |-> PeerOf(u), box |-> outbox[u]]
    <3>1. pump' = [pump EXCEPT ![u] = t]
      BY <2>2 DEF OnEnvelopeDelivered
    <3>2. t.at # "opened"
      OBVIOUS
    <3> HIDE DEF t
    <3>. QED  BY <1>2, <3>1, <3>2, GivenTask
  <2>3. UNCHANGED pump \/ OnEnvelopeDelivered(u)
    BY DEF OnPeerDisconnected, OnDialFailed, OnBlobFetchFailed, OnFailed
  <2>. QED  BY <2>1, <2>2, <2>3
<1>. QED  BY <1>1, <1>2, <1>3, PumpOnce

(* The network's steps but the arrival of a handshake, and a restart.       *)
LEMMA NetworkOnce ==
    ASSUME StepInv, Secrets, AllDiffer,
           UNCHANGED <<handshakes, session>>, OpensNothing,
           \A w \in User : app'[w] = app[w] \/ app'[w] = NoTask,
           \A e \in flying' : IsHandshake(e) => e \in flying,
           \A w \in User : NoHandshake(events[w], events'[w])
    PROVE  StaysOnce
<1>1. Tame /\ \A w \in User : StillRead(w)
  BY DEF Tame, StillRead, NoTask
<1>. QED  BY <1>1, TameStays

(* The network's steps that bring no handshake.                             *)
LEMMA PlainNetworkOnce ==
    ASSUME StepInv, Secrets, AllDiffer,
           \/ \E u, v \in User :
                \/ DialConnects(u, v) \/ DialFails(u, v)
                \/ CardFetched(u, v) \/ CardFetchFails(u, v) \/ AckArrives(u, v)
           \/ \E p \in DOMAIN links : NodesConnect(p) \/ Disconnect(p)
           \/ \E e \in flying : EnvelopeLost(e)
           \/ \E u, v \in User, e \in mailbox : MailboxReturns(u, v, e)
    PROVE  StaysOnce
<1>1. /\ UNCHANGED <<handshakes, shown, session, app, pump>>
      /\ flying' \subseteq flying
  BY DEF DialConnects, DialFails, CardFetched, CardFetchFails, NodesConnect,
         Disconnect, EnvelopeLost, AckArrives, MailboxReturns, disk, memory, history
<1>2. \/ \E u \in User : \E ev : ev.kind # "envelope" /\ Enqueue(u, ev)
      \/ \E p : \E kind : kind # "envelope" /\ Both(p, kind)
  <2>1. CASE \E u, v \in User : \/ DialFails(u, v) \/ CardFetched(u, v)
                                \/ CardFetchFails(u, v) \/ AckArrives(u, v)
    BY <2>1, EventShape DEF DialFails, CardFetched, CardFetchFails, AckArrives
  <2>2. CASE \/ \E u, v \in User : DialConnects(u, v)
             \/ \E p \in DOMAIN links : NodesConnect(p) \/ Disconnect(p)
    BY <2>2 DEF DialConnects, NodesConnect, Disconnect
  <2>3. CASE \E e \in flying : EnvelopeLost(e)
    <3>1. PICK e \in flying : EnvelopeLost(e)
      BY <2>3
    <3>2. e.from \in User
      BY DEF StepInv, TypeInv, SendingOk, IsEnvelope, Pairs
    <3>3. Enqueue(e.from, Event("failed", e.to, NoData))
      BY <3>1 DEF EnvelopeLost
    <3>4. Event("failed", e.to, NoData).kind # "envelope"
      BY EventShape
    <3>. QED  BY <3>2, <3>3, <3>4
  <2>4. CASE \E u, v \in User, e \in mailbox : MailboxReturns(u, v, e)
    BY <2>4, EventShape DEF MailboxReturns
  <2>. QED  BY <2>1, <2>2, <2>3, <2>4
<1>3. \A w \in User : NoHandshake(events[w], events'[w])
  <2>1. \A ev : ev.kind # "envelope" => ~ Comes(ev)
    BY DEF Comes
  <2>. QED  BY <1>2, <2>1, EventsNoHandshake
<1>4. OpensNothing
  BY <1>1 DEF OpensNothing
<1>. QED  BY <1>1, <1>3, <1>4, NetworkOnce

(* A restart keeps the sessions, which are on disk.                         *)
LEMMA RestartOnce ==
    ASSUME StepInv, Secrets, AllDiffer, NEW u \in User, Restart(u)
    PROVE  StaysOnce
<1> DEFINE off == Event("disconnected", u, NoData)
<1>1. /\ UNCHANGED <<handshakes, shown, session>>
      /\ app' = [app EXCEPT ![u] = NoTask] /\ pump' = [pump EXCEPT ![u] = NoTask]
      /\ flying' = {e \in flying : e.from # u}
  BY DEF Restart, disk
<1>2. events' = [v \in User |->
                   IF v = u THEN << >>
                   ELSE IF {u, v} \in DOMAIN links /\ links[{u, v}] > 0
                        THEN Append(events[v], off) ELSE events[v]]
  BY DEF Restart
<1>3. ~ Comes(off)
  <2>1. off.kind = "disconnected"
    BY EventShape
  <2> HIDE DEF off
  <2>. QED  BY <2>1 DEF Comes
<1> HIDE DEF off
<1>4. ASSUME NEW w \in User
      PROVE  NoHandshake(events[w], events'[w])
  <2>1. IsSeq(events[w])
    BY DEF StepInv, TypeInv, EventsOk, AllSeqs
  <2>2. events'[w] = << >> \/ events'[w] = events[w] \/ events'[w] = Append(events[w], off)
    BY <1>2
  <2>. QED  BY <1>3, <2>1, <2>2, HandshakeFacts
<1>5. \A w \in User : app'[w] = app[w] \/ app'[w] = NoTask
  <2>1. app = [w \in User |-> app[w]]
    BY DEF StepInv, TypeInv, AppsOk
  <2>. QED  BY <1>1, <2>1
<1>6. OpensNothing
  <2>1. NoTask.at # "opened"
    BY DEF NoTask
  <2>. QED  BY <1>1, <2>1, GivenTask
<1>. QED  BY <1>1, <1>4, <1>5, <1>6, NetworkOnce

-----------------------------------------------------------------------------
(* A handshake starts, arrives, and is shown                                *)

(* A handshake arrives: what flew is queued.                                *)
LEMMA ArrivesOnce ==
    ASSUME StepInv, Secrets, AllDiffer, NEW e \in flying, EnvelopeArrives(e)
    PROVE  StaysOnce
<1> DEFINE ev == Event("envelope", e.from, e)
           v == e.to
           n == Len(events[v])
<1>1. /\ flying' = flying \ {e} /\ Enqueue(v, ev)
      /\ UNCHANGED <<handshakes, shown, session, app, pump>>
  BY DEF EnvelopeArrives, disk, memory
<1>2. e.from \in User /\ v \in User
  BY DEF StepInv, TypeInv, SendingOk, IsEnvelope, Pairs
<1>3. ev.kind = "envelope" /\ ev.peer = e.from /\ ev.data = e
  BY EventShape
<1>4. /\ IsSeq(events[v])
      /\ \A w \in User : events'[w] = IF w = v THEN Append(events[v], ev) ELSE events[w]
  BY <1>1, <1>2 DEF StepInv, TypeInv, EventsOk, AllSeqs, Enqueue
<1> HIDE DEF ev
<1>5. /\ DOMAIN events[v] = 1..n /\ n \in Nat /\ DOMAIN events'[v] = 1..(n + 1)
      /\ \A i \in DOMAIN events[v] : events'[v][i] = events[v][i]
      /\ events'[v][n + 1] = ev
  <2> DEFINE es == events[v]
             fs == Append(es, ev)
  <2>1. /\ DOMAIN es = 1..Len(es) /\ Len(es) \in Nat
        /\ DOMAIN fs = 1..(Len(es) + 1)
        /\ \A i \in DOMAIN es : fs[i] = es[i]
        /\ fs[Len(es) + 1] = ev
    <3> HIDE DEF es
    <3>1. IsSeq(es)
      BY <1>4 DEF es
    <3>. QED  BY <3>1, AppendItems
  <2>2. events'[v] = fs
    BY <1>2, <1>4
  <2> HIDE DEF fs
  <2>. QED  BY <2>1, <2>2
<1> HIDE DEF n
<1>6. \A i \in DOMAIN events'[v] : i \in DOMAIN events[v] \/ i = n + 1
  BY <1>5
<1> HIDE DEF v
<1>9. OpensNothing
  BY <1>1 DEF OpensNothing
<1>7. CASE ~ IsHandshake(e)
  <2>1. ~ Comes(ev)
    BY <1>3, <1>7 DEF Comes
  <2>2. \A w \in User : NoHandshake(events[w], events'[w])
    BY <1>1, <1>2, <2>1, EventsNoHandshake
  <2>3. \A d \in flying' : IsHandshake(d) => d \in flying
    BY <1>1
  <2>. QED  BY <1>1, <1>9, <2>2, <2>3, NetworkOnce
<1>8. CASE IsHandshake(e)
  <2>1. Secrets'
    <3>1. Coming(handshakes, flying, events)
      BY DEF Secrets
    <3>2. Made(handshakes, e.secret, e.from, v)
      BY <1>8, <3>1 DEF Coming, v
    <3>3. \A d \in flying' : IsHandshake(d) => Made(handshakes, d.secret, d.from, d.to)
      BY <1>1, <3>1 DEF Coming
    <3>4. ASSUME NEW w \in User, NEW i \in DOMAIN events'[w], Comes(events'[w][i])
          PROVE  Made(handshakes, events'[w][i].data.secret, events'[w][i].peer, w)
      <4>1. CASE w # v
        BY <1>4, <3>1, <3>4, <4>1 DEF Coming
      <4>2. CASE w = v /\ i \in DOMAIN events[v]
        BY <1>2, <1>5, <3>1, <3>4, <4>2 DEF Coming
      <4>3. CASE w = v /\ i = n + 1
        BY <1>3, <1>5, <3>2, <4>3
      <4>. QED  BY <1>6, <3>4, <4>1, <4>2, <4>3
    <3>5. Coming(handshakes, flying', events')
      BY <3>3, <3>4 DEF Coming
    <3>6. Seen' = Seen /\ Opening' = Opening
      BY <1>1 DEF Seen, Opening
    <3>. QED  BY <1>1, <3>5, <3>6 DEF Secrets
  <2>2. Differ(v, flying, events[v])
    BY <1>2 DEF AllDiffer
  <2>3. Differ(v, flying', events'[v])
    <3>1. \A i \in DOMAIN events[v] : Comes(events[v][i]) =>
             events[v][i].data.secret # e.secret
      BY <1>8, <2>2 DEF Differ, v
    <3>2. Unlike(events'[v])
      <4> SUFFICES ASSUME NEW i \in DOMAIN events'[v], NEW j \in DOMAIN events'[v],
                          Comes(events'[v][i]), Comes(events'[v][j]),
                          events'[v][i].data.secret = events'[v][j].data.secret
                   PROVE  i = j
        BY DEF Unlike
      <4>1. CASE i \in DOMAIN events[v] /\ j \in DOMAIN events[v]
        BY <1>5, <2>2, <4>1 DEF Differ, Unlike
      <4>2. CASE i = n + 1 /\ j \in DOMAIN events[v]
        BY <1>3, <1>5, <3>1, <4>2
      <4>3. CASE i \in DOMAIN events[v] /\ j = n + 1
        BY <1>3, <1>5, <3>1, <4>3
      <4>. QED  BY <1>6, <4>1, <4>2, <4>3
    <3>3. ASSUME NEW d \in flying', IsHandshake(d), d.to = v
          PROVE  /\ \A c \in flying' :
                       IsHandshake(c) /\ c.to = v /\ c.secret = d.secret => c = d
                 /\ \A i \in DOMAIN events'[v] : Comes(events'[v][i]) =>
                       events'[v][i].data.secret # d.secret
      <4>1. d \in flying /\ d # e
        BY <1>1, <3>3
      <4>2. \A c \in flying' : IsHandshake(c) /\ c.to = v /\ c.secret = d.secret => c = d
        BY <1>1, <2>2, <3>3, <4>1 DEF Differ
      <4>3. d.secret # e.secret
        BY <1>8, <2>2, <3>3, <4>1 DEF Differ, v
      <4>4. \A i \in DOMAIN events[v] : Comes(events[v][i]) =>
               events[v][i].data.secret # d.secret
        BY <2>2, <3>3, <4>1 DEF Differ
      <4>5. ASSUME NEW i \in DOMAIN events'[v], Comes(events'[v][i])
            PROVE  events'[v][i].data.secret # d.secret
        BY <1>3, <1>5, <1>6, <4>3, <4>4, <4>5
      <4>. QED  BY <4>2, <4>5
    <3>. QED  BY <3>2, <3>3 DEF Differ
  <2>4. \A w \in User : w # v => NoHandshake(events[w], events'[w])
    <3>1. \A w \in User : IsSeq(events[w])
      BY DEF StepInv, TypeInv, EventsOk, AllSeqs
    <3>. QED  BY <1>4, <3>1, HandshakeFacts
  <2>5. \A w : \A d \in flying' : IsHandshake(d) /\ d.to = w => d \in flying
    BY <1>1
  <2>6. AllDiffer'
    <3>1. \A w \in User : w # v => Differ(w, flying', events'[w])
      <4> SUFFICES ASSUME NEW w \in User, w # v PROVE Differ(w, flying', events'[w])
        OBVIOUS
      <4>1. Differ(w, flying, events[w]) /\ NoHandshake(events[w], events'[w])
        BY <2>4 DEF AllDiffer
      <4>. QED  BY <2>5, <4>1, DifferKept
    <3>2. \A w \in User : Differ(w, flying', events'[w])
      BY <2>3, <3>1
    <3>. QED  BY <3>2 DEF AllDiffer
  <2>7. ASSUME NEW w \in User, ShownInv(w)
        PROVE  ShownInv(w)'
    <3>1. Fresh(w, session[w], Seen, flying, events[w])
      BY <2>7 DEF ShownInv
    <3>2. Fresh(w, session[w], Seen, flying', events'[w])
      <4>1. CASE w # v
        BY <2>4, <2>5, <3>1, <4>1, FreshKept
      <4>2. CASE w = v
        <5>1. Unseen(v, session[v], Seen, e.secret)
          BY <1>8, <3>1, <4>2 DEF Fresh, v
        <5>2. \A d \in flying' : IsHandshake(d) /\ d.to = v =>
                 Unseen(v, session[v], Seen, d.secret)
          BY <2>5, <3>1, <4>2 DEF Fresh
        <5>3. \A i \in DOMAIN events'[v] : Comes(events'[v][i]) =>
                 Unseen(v, session[v], Seen, events'[v][i].data.secret)
          BY <1>3, <1>5, <1>6, <3>1, <4>2, <5>1 DEF Fresh
        <5>. QED  BY <4>2, <5>2, <5>3 DEF Fresh
      <4>. QED  BY <4>1, <4>2
    <3>3. Seen' = Seen /\ Single(w)'
      BY <1>1, <2>7 DEF Seen, Opening, Single, ShownInv
    <3>. QED  BY <1>1, <2>7, <3>2, <3>3 DEF ShownInv
  <2>. QED  BY <2>1, <2>6, <2>7 DEF StaysOnce
<1>. QED  BY <1>7, <1>8

(* One more copy of what was not shown.                                     *)
OneIn(B, C, e) ==
    /\ IsABag(C) /\ BagToSet(C) = BagToSet(B) \cup {e}
    /\ e \notin BagToSet(B) => C[e] = 1 /\ \A d \in BagToSet(B) : C[d] = B[d]
    /\ \A d \in BagToSet(B) : d # e => C[d] = B[d]

(* A bag with one copy more of an element.                                  *)
LEMMA BagWith ==
    ASSUME NEW B, IsABag(B), NEW e, NEW C, C = B (+) SetToBag({e})
    PROVE  OneIn(B, C, e)
<1> DEFINE D == DOMAIN B
<1>1. \A d \in D : B[d] \in Nat /\ B[d] > 0
  BY DEF IsABag
<1>2. C = [d \in D \cup {e} |-> (IF d \in D THEN B[d] ELSE 0)
                                 + (IF d \in {e} THEN 1 ELSE 0)]
  BY DEF (+), SetToBag
<1>3. /\ DOMAIN C = D \cup {e}
      /\ \A d \in D \cup {e} : C[d] = (IF d \in D THEN B[d] ELSE 0)
                                         + (IF d \in {e} THEN 1 ELSE 0)
  BY <1>2
<1> HIDE DEF D
<1>4. ASSUME NEW d \in D \cup {e}
      PROVE  C[d] \in Nat /\ C[d] > 0
  <2>1. CASE d \in D
    <3>1. C[d] = B[d] + 1 \/ C[d] = B[d] + 0
      BY <1>3, <2>1
    <3>2. B[d] \in Nat /\ B[d] > 0
      BY <1>1, <2>1
    <3>. QED  BY <3>1, <3>2
  <2>2. CASE d \notin D
    BY <1>3, <2>2
  <2>. QED  BY <2>1, <2>2
<1>5. IsABag(C)
  <2>1. C = [d \in DOMAIN C |-> C[d]]
    BY <1>2
  <2>. QED  BY <1>3, <1>4, <2>1 DEF IsABag
<1>6. BagToSet(C) = BagToSet(B) \cup {e}
  BY <1>3 DEF BagToSet, D
<1>7. \A d \in D : d # e => C[d] = B[d]
  BY <1>1, <1>3
<1>8. e \notin D => C[e] = 1 /\ \A d \in D : C[d] = B[d]
  BY <1>1, <1>3
<1>. QED  BY <1>5, <1>6, <1>7, <1>8 DEF OneIn, BagToSet, D

(* A handshake started has a secret that no session, envelope or queue      *)
(* holds.                                                                   *)
LEMMA BlobFetchedOnce ==
    ASSUME StepInv, StepInv', Secrets, AllDiffer, NEW u \in User, OnBlobFetched(u)
    PROVE  StaysOnce
<1> DEFINE v == PeerOf(u)
           H == handshakes
           result == X3dhInitiate(u, <<"EK", u, v, H[u][v] + 1>>, Head(events[u]).data)
           x == result.secret
           s == NewRatchet(x)
           new == Encrypted(s)
           e == Envelope(u, v, "handshake", result.initial, s, Item(outbox[u], v))
           G == [H EXCEPT ![u][v] = @ + 1]
<1>1. /\ Takes(u, "blobFetched") /\ UNCHANGED <<shown, app, pump>>
      /\ \/ /\ session' = [session EXCEPT ![u][v] = new]
            /\ flying' = flying \cup {e} /\ handshakes' = G
         \/ UNCHANGED <<session, flying, handshakes>>
  BY DEF OnBlobFetched, Started
<1>2. CASE UNCHANGED <<session, flying, handshakes>>
  <2>1. OpensNothing
    BY <1>1 DEF OpensNothing
  <2>. QED  BY <1>1, <1>2, <2>1, PumpOnce
<1>3. CASE /\ session' = [session EXCEPT ![u][v] = new]
           /\ flying' = flying \cup {e} /\ handshakes' = G
  <2>1. v \in User \ {u} /\ Overlap(u, app) /\ Head(events[u]).data = ContactCard(v)
    <3>1. /\ IsEvent(u, Head(events[u])) /\ Head(events[u]).kind = "blobFetched"
          /\ v \in User \ {u}
      BY <1>1, TakesKeeps
    <3>. QED  BY <1>1, <3>1 DEF Takes, IsEvent, PeerOf
  <2>2. MadeWith(x, u, v, H[u][v] + 1)
    <3> HIDE DEF v
    <3>1. MadeWith(X3dhInitiate(u, <<"EK", u, v, H[u][v] + 1>>, ContactCard(v)).secret,
                   u, v, H[u][v] + 1)
      BY CardSecret
    <3>. QED  BY <2>1, <3>1
  <2>3. /\ new.secret = x /\ IsSession(new)
    BY SessionShapes, SessionKeys
  <2>4. e.secret = x /\ e.from = u /\ e.to = v /\ IsHandshake(e)
    <3>1. s.secret = x
      BY SessionKeys
    <3> HIDE DEF s
    <3>. QED  BY <3>1 DEF Envelope, IsHandshake
  <2>5. x # << >>
    BY <2>2 DEF MadeWith
  <2>6. /\ H \in [User -> [User -> Nat]] /\ Held(H, session, app)
        /\ Coming(H, flying, events) /\ SeenMade(H, Seen)
        /\ IsABag(shown) /\ \A a \in Opening : pump[a].envelope.to = a
    BY DEF Secrets
  <2> HIDE DEF v, x, s, new, e, H
  <2>7. /\ G \in [User -> [User -> Nat]]
        /\ \A y : \A a, b \in User : Made(H, y, a, b) => Made(G, y, a, b)
        /\ Made(G, x, u, v)
        /\ \A a, b \in User : ~ Made(H, x, a, b)
    <3>1. v \in User /\ H \in [User -> [User -> Nat]]
      BY <2>1, <2>6
    <3>2. /\ G \in [User -> [User -> Nat]]
          /\ \A a, b \in User :
               G[a][b] = IF a = u /\ b = v THEN H[a][b] + 1 ELSE H[a][b]
      BY <3>1
    <3> HIDE DEF G
    <3>3. OneHigher(H, G, u, v)
      BY <3>1, <3>2 DEF OneHigher
    <3>4. NewlyMade(H, G, u, v, x)
      BY <2>2, <3>1, <3>3, OneMore
    <3>. QED  BY <3>2, <3>4 DEF NewlyMade
  <2> HIDE DEF G
  <2>8. /\ handshakes' = G /\ shown' = shown /\ app' = app /\ flying' = flying \cup {e}
        /\ pump' = pump /\ Seen' = Seen /\ Opening' = Opening
    BY <1>1, <1>3 DEF Seen, Opening
  <2>9. \A a, b \in User : session'[a][b] = IF a = u /\ b = v THEN new ELSE session[a][b]
    <3>1. SessionsOk(session) /\ v \in User
      BY <2>1 DEF StepInv, TypeInv, SendingOk
    <3>2. /\ SessionsOk([session EXCEPT ![u][v] = new])
          /\ \A a, b \in User : [session EXCEPT ![u][v] = new][a][b]
                                  = IF a = u /\ b = v THEN new ELSE session[a][b]
      BY <2>3, <3>1, SessionChanged
    <3>. QED  BY <1>3, <3>2
  <2>10. \A w \in User : NoHandshake(events[w], events'[w])
    BY <1>1, EventsNoHandshake
  <2>11. /\ \A d \in flying : IsHandshake(d) => Made(H, d.secret, d.from, d.to) /\ d.secret # x
         /\ \A w \in User : \A i \in DOMAIN events'[w] : Comes(events'[w][i]) =>
              /\ Made(H, events'[w][i].data.secret, events'[w][i].peer, w)
              /\ events'[w][i].data.secret # x
         /\ \A d \in Seen : d.secret # x
    <3>1. ASSUME NEW d \in flying, IsHandshake(d)
          PROVE  Made(H, d.secret, d.from, d.to) /\ d.secret # x
      <4>1. d.from \in User /\ d.to \in User
        BY DEF StepInv, TypeInv, SendingOk, IsEnvelope, Pairs
      <4>. QED  BY <2>6, <2>7, <3>1, <4>1 DEF Coming
    <3>2. ASSUME NEW w \in User, NEW i \in DOMAIN events'[w], Comes(events'[w][i])
          PROVE  /\ Made(H, events'[w][i].data.secret, events'[w][i].peer, w)
                 /\ events'[w][i].data.secret # x
      <4>1. PICK j \in DOMAIN events[w] : events[w][j] = events'[w][i]
        BY <2>10, <3>2 DEF NoHandshake
      <4>2. events'[w][i].peer \in User
        BY <4>1 DEF StepInv, TypeInv, EventsOk, IsEvent
      <4>3. Made(H, events'[w][i].data.secret, events'[w][i].peer, w)
        BY <2>6, <3>2, <4>1 DEF Coming
      <4>. QED  BY <2>7, <4>2, <4>3
    <3>3. \A d \in Seen : d.secret # x
      BY <2>6, <2>7 DEF SeenMade
    <3>. QED  BY <3>1, <3>2, <3>3
  <2>12. Secrets'
    <3>1. ASSUME NEW a \in User, NEW b \in User
          PROVE  Shared(G, session'[a][b], a, b)
      <4>1. CASE a = u /\ b = v
        BY <2>3, <2>7, <2>9, <4>1 DEF Shared
      <4>2. CASE ~ (a = u /\ b = v)
        BY <2>6, <2>7, <2>9, <4>2 DEF Held, Shared
      <4>. QED  BY <4>1, <4>2
    <3>2. ASSUME NEW a \in User, app[a].at = "read"
          PROVE  Shared(G, app[a].r.session, a, app[a].to)
      <4>1. app[a].to \in User
        BY <3>2, AppTask
      <4>2. Shared(H, app[a].r.session, a, app[a].to)
        BY <2>6, <3>2 DEF Held
      <4>. QED  BY <2>7, <4>1, <4>2 DEF Shared
    <3>3. Held(G, session', app)
      BY <3>1, <3>2 DEF Held
    <3>4. Coming(G, flying', events')
      <4>1. ASSUME NEW d \in flying', IsHandshake(d)
            PROVE  Made(G, d.secret, d.from, d.to)
        <5>1. CASE d = e
          BY <2>4, <2>7, <5>1
        <5>2. CASE d \in flying
          <6>1. d.from \in User /\ d.to \in User
            BY <5>2 DEF StepInv, TypeInv, SendingOk, IsEnvelope, Pairs
          <6>. QED  BY <2>7, <2>11, <4>1, <5>2, <6>1
        <5>. QED  BY <2>8, <5>1, <5>2
      <4>2. ASSUME NEW w \in User, NEW i \in DOMAIN events'[w], Comes(events'[w][i])
            PROVE  Made(G, events'[w][i].data.secret, events'[w][i].peer, w)
        <5>1. events'[w][i].peer \in User
          BY DEF StepInv, TypeInv, EventsOk, IsEvent
        <5>. QED  BY <2>7, <2>11, <4>2, <5>1
      <4>. QED  BY <4>1, <4>2 DEF Coming
    <3>5. SeenMade(G, Seen)
      BY <2>6, <2>7 DEF SeenMade
    <3>. QED  BY <2>6, <2>7, <2>8, <3>3, <3>4, <3>5 DEF Secrets
  <2>13. AllDiffer'
    <3>1. ASSUME NEW w \in User
          PROVE  Differ(w, flying, events'[w])
      <4>1. Differ(w, flying, events[w])
        BY DEF AllDiffer
      <4>. QED  BY <2>10, <4>1, DifferKept
    <3>2. \A w \in User : Differ(w, flying', events'[w])
      BY <2>4, <2>8, <2>11, <3>1 DEF Differ
    <3>. QED  BY <3>2 DEF AllDiffer
  <2>14. ASSUME NEW w \in User, SoleThread(w)', ShownInv(w)
         PROVE  ShownInv(w)'
    <3>1. \A b \in User : session'[w][b] = session[w][b] \/ session'[w][b].secret = x
      BY <2>3, <2>9
    <3>2. \A y : Unseen(w, session[w], Seen, y) /\ y # x =>
             Unseen(w, session'[w], Seen, y)
      BY <3>1 DEF Unseen
    <3>3. Once(w, session'[w], Seen)
      <4>1. Once(w, session[w], Seen)
        BY <2>14 DEF ShownInv
      <4>. QED  BY <2>11, <3>1, <4>1 DEF Once
    <3>4. w = v => Unseen(w, session'[w], Seen, x)
      <4> SUFFICES ASSUME w = v PROVE Unseen(v, session'[v], Seen, x)
        OBVIOUS
      <4>1. ASSUME NEW b \in User
            PROVE  session'[v][b].secret # x
        <5>1. session'[v][b] = session[v][b]
          BY <2>1, <2>9
        <5>2. Shared(H, session[v][b], v, b)
          BY <2>1, <2>6 DEF Held
        <5>. QED  BY <2>1, <2>5, <2>7, <5>1, <5>2, SessionKeys DEF Shared
      <4>. QED  BY <2>11, <4>1 DEF Unseen
    <3>5. Fresh(w, session'[w], Seen, flying', events'[w])
      <4>1. Fresh(w, session[w], Seen, flying, events[w])
        BY <2>14 DEF ShownInv
      <4>2. Fresh(w, session[w], Seen, flying, events'[w])
        <5>1. NoHandshake(events[w], events'[w])
          BY <2>10
        <5>. QED  BY <4>1, <5>1, FreshKept
      <4>3. \A d \in flying' : IsHandshake(d) /\ d.to = w =>
               Unseen(w, session'[w], Seen, d.secret)
        BY <2>4, <2>8, <2>11, <3>2, <3>4, <4>2 DEF Fresh
      <4>4. \A i \in DOMAIN events'[w] : Comes(events'[w][i]) =>
               Unseen(w, session'[w], Seen, events'[w][i].data.secret)
        BY <2>11, <3>2, <4>2 DEF Fresh
      <4>. QED  BY <4>3, <4>4 DEF Fresh
    <3>6. app[w].at = "read" => app[w].r.session = session'[w][app[w].to]
      <4>1. CASE w = u
        <5>1. app[u] = NoTask
          BY <2>1, <2>14, <4>1, AppIdle
        <5>. QED  BY <4>1, <5>1 DEF NoTask
      <4>2. CASE w # u
        <5>1. app[w].at = "read" => app[w].to \in User
          BY AppTask
        <5>. QED  BY <2>9, <2>14, <4>2, <5>1 DEF ShownInv
      <4>. QED  BY <4>1, <4>2
    <3>7. Single(w)'
      BY <2>8, <2>14 DEF Single, ShownInv
    <3>. QED  BY <2>8, <3>3, <3>5, <3>6, <3>7 DEF ShownInv
  <2>. QED  BY <2>12, <2>13, <2>14 DEF StaysOnce
<1>. QED  BY <1>1, <1>2, <1>3

(* What u knows of the secret of an envelope e that it opens from v: it was *)
(* not seen, what was seen in a session with its secret is of a number      *)
(* kept, no other session has the secret, and no handshake to come has.     *)
NewTo(u, v, e, new) ==
    /\ e \notin Seen
    /\ \A d \in Seen : d.to = u /\ d.secret = e.secret => d.number \in new.got
    /\ \A b \in User : b # v => session[u][b].secret # e.secret
    /\ \A d \in flying : IsHandshake(d) /\ d.to = u => d.secret # e.secret
    /\ \A i \in DOMAIN events'[u] : Comes(events'[u][i]) =>
          events'[u][i].data.secret # e.secret

(* u opens e in the session it then keeps with v, and is to show it.        *)
OpensIn(u, v, e, new) ==
    /\ session' = [session EXCEPT ![u][v] = new] /\ IsSession(new) /\ Opened(u, e)
    /\ UNCHANGED <<handshakes, app, flying, shown>>
    /\ new.secret = e.secret /\ e.number \in new.got /\ e.to = u
    /\ Made(handshakes, e.secret, u, v) \/ Made(handshakes, e.secret, v, u)
    /\ SoleThread(u)' /\ ShownInv(u) => NewTo(u, v, e, new)

(* What u opens is one envelope more to be seen.                            *)
LEMMA OneMoreSeen ==
    ASSUME StepInv, NEW u \in User, pump[u] = NoTask, NEW e, Opened(u, e), shown' = shown
    PROVE  /\ Seen' = Seen \cup {e} /\ Opening' = Opening \cup {u} /\ u \notin Opening
           /\ pump'[u].envelope = e /\ \A w \in Opening : pump'[w] = pump[w]
<1> DEFINE t == [at |-> "opened", envelope |-> e]
<1>1. \A w \in User : pump'[w] = IF w = u THEN t ELSE pump[w]
  <2>1. pump = [w \in User |-> pump[w]]
    BY DEF StepInv, TypeInv, PumpsOk
  <2>. QED  BY <2>1 DEF Opened
<1>2. t.at = "opened" /\ t.envelope = e
  OBVIOUS
<1> HIDE DEF t
<1>3. u \notin Opening
  BY DEF Opening, NoTask
<1>4. Opening' = Opening \cup {u}
  BY <1>1, <1>2 DEF Opening
<1>5. \A w \in Opening : pump'[w] = pump[w]
  BY <1>1, <1>3 DEF Opening
<1>6. pump'[u].envelope = e
  BY <1>1, <1>2
<1>7. {pump'[w].envelope : w \in Opening'} = {pump[w].envelope : w \in Opening} \cup {e}
  BY <1>4, <1>5, <1>6
<1>8. Seen' = Seen \cup {e}
  BY <1>7 DEF Seen
<1>. QED  BY <1>3, <1>4, <1>5, <1>6, <1>8

(* An envelope that opens, alone: it was not seen before, and its number    *)
(* is kept in the session that opened it.                                   *)
LEMMA OpensStays ==
    ASSUME StepInv, Secrets, AllDiffer, NEW u \in User, NEW v \in User,
           NEW kind, Takes(u, kind), NEW new, NEW e, OpensIn(u, v, e, new)
    PROVE  StaysOnce
<1> DEFINE H == handshakes
           x == e.secret
           R == Seen'
<1>1. /\ H \in [User -> [User -> Nat]] /\ Held(H, session, app)
      /\ Coming(H, flying, events) /\ SeenMade(H, Seen) /\ IsABag(shown)
      /\ \A a \in Opening : pump[a].envelope.to = a
  BY DEF Secrets
<1>2. /\ shown' = shown /\ R = Seen \cup {e}
      /\ Opening' = Opening \cup {u} /\ u \notin Opening
      /\ pump'[u].envelope = e /\ \A w \in Opening : pump'[w] = pump[w]
  <2>1. pump[u] = NoTask /\ Opened(u, e) /\ shown' = shown
    BY DEF Takes, OpensIn
  <2>. QED  BY <2>1, OneMoreSeen
<1>3. \A a, b \in User : session'[a][b] = IF a = u /\ b = v THEN new ELSE session[a][b]
  <2>1. SessionsOk(session) /\ IsSession(new)
    BY DEF StepInv, TypeInv, SendingOk, OpensIn
  <2>2. /\ SessionsOk([session EXCEPT ![u][v] = new])
        /\ \A a, b \in User : [session EXCEPT ![u][v] = new][a][b]
                                = IF a = u /\ b = v THEN new ELSE session[a][b]
    BY <2>1, SessionChanged
  <2>. QED  BY <2>2 DEF OpensIn
<1>4. \A w \in User : NoHandshake(events[w], events'[w])
  BY EventsNoHandshake
<1>5. /\ Made(H, x, u, v) \/ Made(H, x, v, u)
      /\ new.secret = x /\ e.number \in new.got /\ e.to = u
  BY DEF OpensIn
<1>6. handshakes' = H /\ app' = app /\ flying' = flying /\ Overlap(u, app)
  BY DEF Takes, OpensIn
<1> HIDE DEF H, x, R
<1>7. Secrets'
  <2>1. \A a, b \in User : Shared(H, session'[a][b], a, b)
    BY <1>1, <1>3, <1>5 DEF Held, Shared
  <2>2. Held(H, session', app)
    BY <1>1, <2>1 DEF Held
  <2>3. Coming(H, flying, events')
    <3>1. ASSUME NEW w \in User, NEW i \in DOMAIN events'[w], Comes(events'[w][i])
          PROVE  Made(H, events'[w][i].data.secret, events'[w][i].peer, w)
      <4>1. PICK j \in DOMAIN events[w] : events[w][j] = events'[w][i]
        BY <1>4, <3>1 DEF NoHandshake
      <4>. QED  BY <1>1, <3>1, <4>1 DEF Coming
    <3>. QED  BY <1>1, <3>1 DEF Coming
  <2>4. SeenMade(H, R)
    BY <1>1, <1>2, <1>5 DEF SeenMade, x
  <2>5. \A a \in Opening' : pump'[a].envelope.to = a
    BY <1>1, <1>2, <1>5
  <2>. QED  BY <1>1, <1>2, <1>6, <2>2, <2>3, <2>4, <2>5 DEF Secrets, R
<1>8. AllDiffer'
  <2>1. ASSUME NEW w \in User
        PROVE  Differ(w, flying, events'[w])
    <3>1. Differ(w, flying, events[w])
      BY DEF AllDiffer
    <3>. QED  BY <1>4, <3>1, DifferKept
  <2>. QED  BY <1>6, <2>1 DEF AllDiffer
<1>9. ASSUME NEW w \in User, SoleThread(w)', ShownInv(w), w # u
      PROVE  ShownInv(w)'
  <2>1. \A b \in User : session'[w][b] = session[w][b]
    BY <1>3, <1>9
  <2>2. \A d \in R : d.to = w => d \in Seen
    BY <1>2, <1>5, <1>9
  <2>3. Once(w, session'[w], R)
    BY <1>9, <2>1, <2>2 DEF ShownInv, Once
  <2>4. Fresh(w, session'[w], R, flying, events'[w])
    <3>1. Fresh(w, session[w], Seen, flying, events[w])
      BY <1>9 DEF ShownInv
    <3>2. Fresh(w, session'[w], Seen, flying, events'[w])
      <4>1. /\ \A b \in User : session'[w][b].secret = session[w][b].secret
            /\ NoHandshake(events[w], events'[w])
        BY <1>4, <2>1
      <4>. QED  BY <3>1, <4>1, FreshKept
    <3>3. \A y : Unseen(w, session'[w], Seen, y) => Unseen(w, session'[w], R, y)
      BY <2>2 DEF Unseen
    <3>. QED  BY <3>2, <3>3 DEF Fresh
  <2>5. app[w].at = "read" => app[w].r.session = session'[w][app[w].to]
    <3>1. app[w].at = "read" => app[w].to \in User
      BY AppTask
    <3>. QED  BY <1>9, <2>1, <3>1 DEF ShownInv
  <2>6. Single(w)'
    BY <1>2, <1>9 DEF Single, ShownInv
  <2>. QED  BY <1>6, <2>3, <2>4, <2>5, <2>6 DEF ShownInv, R
<1>10. ASSUME SoleThread(u)', ShownInv(u)
       PROVE  ShownInv(u)'
  <2>1. NewTo(u, v, e, new)
    BY <1>10 DEF OpensIn
  <2>2. /\ \A b \in User : b # v => session'[u][b] = session[u][b]
        /\ session'[u][v] = new
    BY <1>3
  <2>3. Single(u)'
    BY <1>2, <1>10, <2>1 DEF NewTo, Single, ShownInv, Seen
  <2>4. Once(u, session'[u], R)
    <3> SUFFICES ASSUME NEW d \in R, d.to = u
                 PROVE  \A b \in User : session'[u][b].secret = d.secret =>
                           d.number \in session'[u][b].got
      BY DEF Once
    <3>1. Once(u, session[u], Seen)
      BY <1>10 DEF ShownInv
    <3>2. CASE d = e
      BY <1>5, <2>1, <2>2, <3>2 DEF NewTo, x
    <3>3. CASE d \in Seen
      <4> SUFFICES ASSUME NEW b \in User, session'[u][b].secret = d.secret
                   PROVE  d.number \in session'[u][b].got
        OBVIOUS
      <4>1. CASE b = v
        BY <1>5, <2>1, <2>2, <3>3, <4>1 DEF NewTo, x
      <4>2. CASE b # v
        BY <2>2, <3>1, <3>3, <4>2 DEF Once
      <4>. QED  BY <4>1, <4>2
    <3>. QED  BY <1>2, <3>2, <3>3
  <2>5. Fresh(u, session'[u], R, flying, events'[u])
    <3>1. Fresh(u, session[u], Seen, flying, events[u])
      BY <1>10 DEF ShownInv
    <3>2. Fresh(u, session[u], Seen, flying, events'[u])
      BY <1>4, <3>1, FreshKept
    <3>3. \A y : Unseen(u, session[u], Seen, y) /\ y # x => Unseen(u, session'[u], R, y)
      BY <1>2, <1>5, <2>2 DEF Unseen, x
    <3>. QED  BY <2>1, <3>2, <3>3 DEF Fresh, NewTo, x
  <2>6. app[u] = NoTask
    BY <1>6, <1>10, AppIdle
  <2>. QED  BY <1>6, <2>3, <2>4, <2>5, <2>6 DEF ShownInv, R, NoTask
<1>. QED  BY <1>7, <1>8, <1>9, <1>10 DEF StaysOnce

(* handleIncomingHandshake: the secret is one its receiver has not seen.    *)
LEMMA HandshakeOnce ==
    ASSUME StepInv, StepInv', Secrets, AllDiffer, NEW u \in User, OnHandshake(u)
    PROVE  StaysOnce
<1> DEFINE v == PeerOf(u)
           e == Head(events[u]).data
           x == X3dhRespond(u, prekeys[u], e.initial).secret
           new == Decrypted(NewRatchet(x), e)
<1>1. /\ Takes(u, "envelope") /\ IsHandshake(e)
      /\ UNCHANGED <<handshakes, app, flying, shown>>
      /\ \/ /\ Opens(u, NewRatchet(x), e)
            /\ session' = [session EXCEPT ![u][v] = new] /\ Opened(u, e)
         \/ UNCHANGED <<session, pump>>
  BY DEF OnHandshake, IsHandshake
<1>2. CASE UNCHANGED <<session, pump>>
  <2>1. OpensNothing
    BY <1>1, <1>2 DEF OpensNothing
  <2>. QED  BY <1>1, <1>2, <2>1, PumpOnce
<1>3. CASE /\ Opens(u, NewRatchet(x), e)
           /\ session' = [session EXCEPT ![u][v] = new] /\ Opened(u, e)
  <2>1. /\ IsEvent(u, Head(events[u])) /\ Head(events[u]).kind = "envelope"
        /\ v \in User /\ events[u] # << >> /\ events' = Taken(events, u)
    BY <1>1, TakesKeeps
  <2>2. e.to = u /\ Comes(Head(events[u])) /\ Head(events[u]).peer = v
    BY <1>1, <2>1 DEF IsEvent, Comes, PeerOf
  <2>3. IsSession(new) /\ new.secret = x /\ e.number \in new.got
    <3> DEFINE s == NewRatchet(x)
    <3>1. IsSession(s) /\ s.secret = x
      BY SessionShapes, SessionKeys
    <3> HIDE DEF s
    <3>2. /\ IsSession(Decrypted(s, e)) /\ Decrypted(s, e).secret = x
          /\ Decrypted(s, e).got = s.got \cup {e.number}
      BY <3>1, SessionShapes, SessionKeys
    <3>. QED  BY <3>2 DEF s
  <2>4. e.secret = x
    BY <1>3, SessionKeys DEF Opens
  <2>5. /\ 1 \in DOMAIN events[u] /\ events[u][1] = Head(events[u])
        /\ events'[u] = Tail(events[u])
        /\ \A i \in DOMAIN Tail(events[u]) :
             i + 1 \in DOMAIN events[u] /\ Tail(events[u])[i] = events[u][i + 1]
        /\ DOMAIN events'[u] \subseteq Nat \ {0}
    <3>1. IsSeq(events[u]) /\ events = [a \in User |-> events[a]]
      BY DEF StepInv, TypeInv, EventsOk, AllSeqs
    <3>2. events'[u] = Tail(events[u])
      BY <2>1, <3>1 DEF Taken
    <3>3. /\ Head(events[u]) = events[u][1] /\ 1 \in DOMAIN events[u]
          /\ Len(events[u]) \in Nat
          /\ DOMAIN Tail(events[u]) = 1..(Len(events[u]) - 1)
          /\ \A i \in DOMAIN Tail(events[u]) :
               i + 1 \in DOMAIN events[u] /\ Tail(events[u])[i] = events[u][i + 1]
      BY <2>1, <3>1, TailItems
    <3>. QED  BY <3>2, <3>3
  <2> HIDE DEF v, x, new, e
  <2>6. Made(handshakes, e.secret, v, u)
    BY <2>2, <2>5 DEF Secrets, Coming, e
  <2>7. ASSUME SoleThread(u)', ShownInv(u)
        PROVE  NewTo(u, v, e, new)
    <3>1. Unseen(u, session[u], Seen, e.secret)
      BY <2>2, <2>5, <2>7 DEF ShownInv, Fresh, e
    <3>2. Differ(u, flying, events[u])
      BY DEF AllDiffer
    <3>3. \A d \in flying : IsHandshake(d) /\ d.to = u => d.secret # e.secret
      BY <2>2, <2>5, <3>2 DEF Differ, e
    <3>4. ASSUME NEW i \in DOMAIN events'[u], Comes(events'[u][i]),
                 events'[u][i].data.secret = e.secret
          PROVE  FALSE
      <4>1. i + 1 \in DOMAIN events[u] /\ events'[u][i] = events[u][i + 1]
        BY <2>5
      <4>2. i + 1 = 1
        BY <2>2, <2>5, <3>2, <3>4, <4>1 DEF Differ, Unlike, e
      <4>. QED  BY <2>5, <4>2
    <3>. QED  BY <2>2, <3>1, <3>3, <3>4 DEF NewTo, Unseen
  <2>8. OpensIn(u, v, e, new)
    BY <1>1, <1>3, <2>2, <2>3, <2>4, <2>6, <2>7 DEF OpensIn
  <2>. QED  BY <1>1, <2>1, <2>8, OpensStays
<1>. QED  BY <1>1, <1>2, <1>3

(* handleIncomingContinuing, handleRetrievedContinuing: the session saved   *)
(* after an envelope opened in it does not open it again.                   *)
LEMMA ContinuingOnce ==
    ASSUME StepInv, Secrets, AllDiffer, StepInv', NEW u \in User,
           NEW kind \in {"envelope", "retrieved"}, OnContinuing(u, kind)
    PROVE  StaysOnce
<1> DEFINE e == Head(events[u]).data
<1>1. /\ Takes(u, kind) /\ UNCHANGED <<handshakes, app, flying, shown>>
      /\ PeerOf(u) \in User
  BY TakesKeeps DEF OnContinuing
<1>2. \/ \E v \in User : Opens(u, session[u][v], e) /\ Keeps(u, v, e) /\ Opened(u, e)
      \/ UNCHANGED <<session, pump>>
  BY <1>1 DEF OnContinuing
<1>3. CASE UNCHANGED <<session, pump>>
  <2>1. OpensNothing
    BY <1>1, <1>3 DEF OpensNothing
  <2>. QED  BY <1>1, <1>3, <2>1, PumpOnce
<1>4. ASSUME NEW v \in User, Opens(u, session[u][v], e), Keeps(u, v, e), Opened(u, e)
      PROVE  StaysOnce
  <2> DEFINE s == session[u][v]
             new == Decrypted(s, e)
  <2>1. e.to = u
    <3>1. IsEvent(u, Head(events[u])) /\ Head(events[u]).kind = kind
      BY <1>1, TakesKeeps
    <3>2. CASE kind = "envelope"
      BY <3>1, <3>2 DEF IsEvent
    <3>3. CASE kind = "retrieved"
      <4>1. IsEnvelope(e) /\ {e.from, e.to} = {u, Head(events[u]).peer}
        BY <3>1, <3>3 DEF IsEvent
      <4>2. e.from # u
        BY <1>4 DEF Opens
      <4>. QED  BY <4>1, <4>2
    <3>. QED  BY <3>2, <3>3
  <2> HIDE DEF e
  <2>2. s # NoSession /\ s.secret = e.secret /\ e.number \notin s.got
    BY <1>4 DEF Opens
  <2>3. session' = [session EXCEPT ![u][v] = new]
    BY <1>4 DEF Keeps
  <2>4. IsSession(s)
    BY DEF StepInv, TypeInv, SendingOk, SessionsOk
  <2>5. \A b \in User : Shared(handshakes, session[u][b], u, b)
    BY DEF Secrets, Held
  <2>6. Made(handshakes, e.secret, u, v) \/ Made(handshakes, e.secret, v, u)
    BY <2>2, <2>5 DEF Shared
  <2> HIDE DEF s
  <2>7. /\ IsSession(new) /\ new.secret = s.secret
        /\ new.got = s.got \cup {e.number}
    BY <2>4, SessionShapes, SessionKeys
  <2>8. ASSUME NEW b \in User, b # v
        PROVE  session[u][b].secret # e.secret
    <3> SUFFICES ASSUME session[u][b].secret = e.secret PROVE FALSE
      OBVIOUS
    <3>1. /\ handshakes \in [User -> [User -> Nat]]
          /\ Shared(handshakes, session[u][b], u, b)
      BY <2>5 DEF Secrets
    <3>2. e.secret # << >>
      BY <2>6, <3>1, MakerFacts
    <3>3. Made(handshakes, e.secret, u, b) \/ Made(handshakes, e.secret, b, u)
      BY <3>1, <3>2, SessionKeys DEF Shared
    <3>4. \A c, d, f, g \in User :
             Made(handshakes, e.secret, c, d) /\ Made(handshakes, e.secret, f, g)
               => c = f /\ d = g
      BY <3>1, MakerFacts
    <3>. QED  BY <2>6, <2>8, <3>3, <3>4
  <2>9. ASSUME SoleThread(u)', ShownInv(u)
        PROVE  NewTo(u, v, e, new)
    <3>1. Once(u, session[u], Seen) /\ Fresh(u, session[u], Seen, flying, events[u])
      BY <2>9 DEF ShownInv
    <3>2. e \notin Seen
      BY <2>1, <2>2, <3>1 DEF Once, s
    <3>3. \A d \in Seen :
             d.to = u /\ d.secret = e.secret => d.number \in new.got
      BY <2>2, <2>7, <3>1 DEF Once, s
    <3>4. \A x : Unseen(u, session[u], Seen, x) => x # e.secret
      BY <2>2 DEF Unseen, s
    <3>5. Fresh(u, session[u], Seen, flying, events'[u])
      <4>1. NoHandshake(events[u], events'[u])
        BY <1>1, EventsNoHandshake
      <4>. QED  BY <3>1, <4>1, FreshKept
    <3>. QED  BY <2>8, <3>2, <3>3, <3>4, <3>5 DEF NewTo, Fresh
  <2>10. OpensIn(u, v, e, new)
    <3> HIDE DEF new
    <3>. QED  BY <1>1, <1>4, <2>1, <2>2, <2>3, <2>6, <2>7, <2>9 DEF OpensIn
  <2>. QED  BY <1>1, <2>10, OpensStays
<1>. QED  BY <1>2, <1>3, <1>4

(* What was opened is shown: it was not before.                             *)
LEMMA ShowOnce ==
    ASSUME StepInv, Secrets, AllDiffer, NEW u \in User, ShowOpened(u)
    PROVE  StaysOnce
<1> DEFINE e == pump[u].envelope
           B == shown'
<1>1. /\ u \in Opening /\ B = shown (+) SetToBag({e})
      /\ UNCHANGED <<handshakes, session, app, flying, events>>
      /\ pump' = [pump EXCEPT ![u] = NoTask]
  BY DEF ShowOpened, Opening, disk, net
<1>2. /\ IsABag(shown) /\ SeenMade(handshakes, Seen) /\ e.to = u
      /\ \A w \in Opening : pump[w].envelope.to = w
  BY <1>1 DEF Secrets
<1>3. \A w \in User : pump'[w] = IF w = u THEN NoTask ELSE pump[w]
  <2>1. pump = [w \in User |-> pump[w]]
    BY DEF StepInv, TypeInv, PumpsOk
  <2>. QED  BY <1>1, <2>1
<1>4. Opening' = Opening \ {u} /\ \A w \in Opening' : pump'[w] = pump[w]
  BY <1>3 DEF Opening, NoTask
<1> HIDE DEF e
<1>5. OneIn(shown, B, e)
  <2> HIDE DEF B
  <2>. QED  BY <1>1, <1>2, BagWith
<1>6. Seen' = Seen
  <2>1. {pump[w].envelope : w \in Opening}
          = {pump[w].envelope : w \in Opening \ {u}} \cup {e}
    BY <1>1 DEF e
  <2>2. {pump'[w].envelope : w \in Opening'} = {pump[w].envelope : w \in Opening \ {u}}
    BY <1>4
  <2>3. BagToSet(shown') = BagToSet(shown) \cup {e}
    BY <1>5 DEF OneIn
  <2>. QED  BY <2>1, <2>2, <2>3 DEF Seen
<1>7. Secrets'
  <2>1. IsABag(shown')
    BY <1>5 DEF OneIn
  <2>2. \A w \in Opening' : pump'[w].envelope.to = w
    BY <1>2, <1>4
  <2>. QED  BY <1>1, <1>6, <2>1, <2>2 DEF Secrets
<1>8. AllDiffer'
  BY <1>1 DEF AllDiffer
<1>9. ASSUME NEW w \in User, ShownInv(w)
      PROVE  ShownInv(w)'
  <2>1. Single(w)
    BY <1>9 DEF ShownInv
  <2>2. \A d \in BagToSet(B) : d.to = w => B[d] = 1
    <3>1. w = u => e \notin BagToSet(shown)
      BY <1>1, <2>1 DEF Single, e
    <3>. QED  BY <1>2, <1>5, <2>1, <3>1 DEF OneIn, Single
  <2>3. w \in Opening' => pump'[w].envelope \notin BagToSet(B)
    <3> SUFFICES ASSUME w \in Opening' PROVE pump[w].envelope \notin BagToSet(B)
      BY <1>4
    <3>1. w # u /\ w \in Opening
      BY <1>4
    <3>2. pump[w].envelope # e /\ pump[w].envelope \notin BagToSet(shown)
      BY <1>2, <2>1, <3>1 DEF Single
    <3>. QED  BY <1>5, <3>2 DEF OneIn
  <2>4. Single(w)'
    BY <2>2, <2>3 DEF Single
  <2>. QED  BY <1>1, <1>6, <1>9, <2>4 DEF ShownInv
<1>. QED  BY <1>7, <1>8, <1>9 DEF StaysOnce

(* Every step keeps Secrets and AllDiffer, and ShownInv for a user whose    *)
(* threads do not overlap.                                                  *)
LEMMA StaysOnceNext ==
    ASSUME StepInv, StepInv', Secrets, AllDiffer, [Next]_vars
    PROVE  StaysOnce
<1>1. CASE UNCHANGED vars
  <2>1. UNCHANGED <<handshakes, shown, session, app, pump, flying, events>>
    BY <1>1 DEF vars, disk, memory, net, history
  <2>2. \A w \in User : NoHandshake(events[w], events'[w])
    BY <2>1, EventsNoHandshake
  <2>3. OpensNothing
    BY <2>1 DEF OpensNothing
  <2>. QED  BY <2>1, <2>2, <2>3, NetworkOnce
<1>2. ASSUME NEW u \in User, NEW v \in User, SendLoad(u, v)
      PROVE  StaysOnce
  BY <1>2, SendLoadTame, TameStays
<1>3. ASSUME NEW u \in User, SendMessage(u)
      PROVE  StaysOnce
  <2>1. Tame /\ \A w \in User : StillRead(w)
    BY <1>3, SendSaveTame, SendAttemptTame DEF SendMessage
  <2>. QED  BY <2>1, TameStays
<1>4. ASSUME NEW u \in User, Pump(u)
      PROVE  StaysOnce
  <2>1. CASE OnPeerConnected(u)
    BY <2>1, ConnectedOnce
  <2>2. CASE RemoveAndContinue(u)
    BY <2>2, RemoveOnce
  <2>3. CASE OnEnvelopeDeliveryFailed(u)
    BY <2>3, DeliveryFailedOnce
  <2>4. CASE \/ OnPeerDisconnected(u) \/ OnDialFailed(u) \/ OnBlobFetchFailed(u)
             \/ OnEnvelopeDelivered(u)
    BY <2>4, PlainPumpOnce
  <2>5. CASE OnBlobFetched(u)
    BY <2>5, BlobFetchedOnce
  <2>6. CASE OnHandshake(u)
    BY <2>6, HandshakeOnce
  <2>7. CASE OnContinuing(u, "envelope") \/ OnContinuing(u, "retrieved")
    BY <2>7, ContinuingOnce
  <2>8. CASE ShowOpened(u)
    BY <2>8, ShowOnce
  <2>. QED
    BY <1>4, <2>1, <2>2, <2>3, <2>4, <2>5, <2>6, <2>7, <2>8
    DEF Pump, OnEnvelopeReceived, OnMailboxEnvelopeRetrieved
<1>5. ASSUME NEW u \in User, Restart(u)
      PROVE  StaysOnce
  BY <1>5, RestartOnce
<1>6. CASE Network
  <2>1. ASSUME NEW e \in flying, EnvelopeArrives(e)
        PROVE  StaysOnce
    BY <2>1, ArrivesOnce
  <2>2. CASE \/ \E u, v \in User :
                  \/ DialConnects(u, v) \/ DialFails(u, v)
                  \/ CardFetched(u, v) \/ CardFetchFails(u, v) \/ AckArrives(u, v)
             \/ \E p \in DOMAIN links : NodesConnect(p) \/ Disconnect(p)
             \/ \E e \in flying : EnvelopeLost(e)
             \/ \E u, v \in User, e \in mailbox : MailboxReturns(u, v, e)
    BY <2>2, PlainNetworkOnce
  <2>. QED  BY <1>6, <2>1, <2>2 DEF Network
<1>. QED  BY <1>1, <1>2, <1>3, <1>4, <1>5, <1>6 DEF Next

(* OnceInv is inductive.                                                    *)
LEMMA OnceInvNext == OnceInv /\ [Next]_vars => OnceInv'
<1> SUFFICES ASSUME OnceInv, [Next]_vars PROVE OnceInv'
  OBVIOUS
<1>1. StepInv /\ Secrets /\ AllDiffer /\ Showing
  BY DEF OnceInv
<1>2. StepInv'
  BY <1>1, StepInvNext
<1>3. StaysOnce
  BY <1>1, <1>2, StaysOnceNext
<1>4. Showing'
  <2> SUFFICES ASSUME NEW w \in User, SoleThread(w)' PROVE ShownInv(w)'
    BY DEF Showing
  <2>1. SoleThread(w)
    BY FaultsStay
  <2>. QED  BY <1>1, <1>3, <2>1 DEF Showing, StaysOnce
<1>. QED  BY <1>2, <1>3, <1>4 DEF OnceInv, StaysOnce

(* OnceInv is true of the initial states.                                   *)
LEMMA OnceInvInit == Init => OnceInv
<1> SUFFICES ASSUME Init PROVE OnceInv
  OBVIOUS
<1>1. StepInv
  BY StepInvInit
<1>2. BagToSet(shown) = {} /\ IsABag(shown)
  BY DEF Init, EmptyBag, SetToBag, BagToSet, IsABag
<1>3. /\ handshakes \in [User -> [User -> Nat]] /\ flying = {}
      /\ \A u \in User : events[u] = << >> /\ app[u] = NoTask /\ pump[u] = NoTask
      /\ \A u, v \in User : session[u][v] = NoSession
  BY DEF Init
<1>4. \A u \in User : DOMAIN events[u] = {} /\ app[u].at # "read"
  BY <1>3 DEF NoTask
<1>8. Opening = {} /\ Seen = {}
  <2>1. Opening = {}
    BY <1>3 DEF Opening, NoTask
  <2>. QED  BY <1>2, <2>1 DEF Seen
<1>5. Secrets
  BY <1>2, <1>3, <1>4, <1>8 DEF Secrets, Held, Shared, Coming, SeenMade
<1>6. AllDiffer
  BY <1>3, <1>4 DEF AllDiffer, Differ, Unlike
<1>7. Showing
  BY <1>2, <1>3, <1>4, <1>8 DEF Showing, ShownInv, Once, Fresh, Single
<1>. QED  BY <1>1, <1>5, <1>6, <1>7 DEF OnceInv

(***************************************************************************)
(* A user whose app and pump do not save one session file at once is shown *)
(* an envelope once, however often the mailbox returns it: an envelope     *)
(* that opens has the secret of a session, of which its number is then     *)
(* kept; a new handshake brings a secret never seen, and any other ends    *)
(* the session it replaces.                                                *)
(***************************************************************************)
THEOREM ShownOnce == Spec => []EachEnvelopeShownOnce
<1>1. Init => OnceInv
  BY OnceInvInit
<1>2. OnceInv /\ [Next]_vars => OnceInv'
  BY OnceInvNext
<1>3. OnceInv => EachEnvelopeShownOnce
  <2> SUFFICES ASSUME OnceInv, NEW e \in BagToSet(shown), shown[e] > 1
               PROVE  Overlapped(e.to)
    BY DEF EachEnvelopeShownOnce
  <2> DEFINE u == e.to
  <2>1. u \in User
    BY DEF OnceInv, Secrets, SeenMade, Seen
  <2> HIDE DEF u
  <2>2. ASSUME SoleThread(u)
        PROVE  FALSE
    <3>1. Single(u)
      BY <2>1, <2>2 DEF OnceInv, Showing, ShownInv
    <3>. QED  BY <3>1 DEF Single, u
  <2>. QED  BY <2>2 DEF SoleThread, u
<1>. QED  BY <1>1, <1>2, <1>3, PTL DEF Spec
===============================================================================
