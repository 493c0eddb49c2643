----------------------------- MODULE MixNetwork -----------------------------
(***************************************************************************)
(* The mix network the nodes are for each other: which peers a node knows  *)
(* as relays, the paths it builds for mailbox deposits, retrieval queries  *)
(* (with their reply blocks) and dummy traffic, and how each hop peels,    *)
(* delays and forwards a packet (mix.rs, and node.rs's mix handlers).      *)
(*                                                                         *)
(* A Sphinx packet is the path still ahead of it; its layers hide the rest *)
(* of the record from a hop, and no action reads what its hop could not.   *)
(* A node's address on a path is a hash of its PeerId, here the node.  The *)
(* rules by which a relay keeps and gives up deposits are Mailbox's; here  *)
(* it keeps one or refuses it.                                             *)
(***************************************************************************)
EXTENDS Naturals, Sequences, FiniteSets

CONSTANTS
    Node,
    Depositors,            \* nodes whose app deposits for the other user
    Askers,                \* nodes whose app asks its mailbox
    Relayers,              \* nodes whose app announces them as relays
    Coverers,              \* nodes whose app turns dummy traffic on
    Pairs,                 \* bound: the pairs of nodes that may connect
    Distance(_, _),        \* Kademlia's distance of a tag and a node
    MixPathHops,           \* MIX_PATH_HOPS
    MaxPathLength,         \* MAX_PATH_LENGTH, the Sphinx header's limit
    MaxLinks,              \* bound: connections of one pair
    MaxPackets,            \* bound: packets built in a run
    MaxEpoch,              \* bound: epochs the tag goes through
    MaxOpened,             \* bound: connections opened in a run
    MaxUpsets              \* bound: connections closed, restarts,
                           \* turns of the epoch or of the dummy switch

Originators == Depositors \cup Askers \cup Coverers
Tag == 0..MaxEpoch         \* the two users' tag changes with the epoch only

ASSUME MixAssumption ==
    /\ IsFiniteSet(Node) /\ Originators \cup Relayers \subseteq Node
    /\ Pairs \subseteq {{n, m} : n, m \in Node} \ {{n} : n \in Node}
    /\ MixPathHops \in 2..MaxPathLength
    /\ MaxPathLength \in Nat /\ MaxLinks \in Nat /\ MaxPackets \in Nat
    /\ MaxEpoch \in Nat /\ MaxOpened \in Nat /\ MaxUpsets \in Nat
    /\ \A t \in Tag, n, m \in Node :
         /\ Distance(t, n) \in Nat
         /\ Distance(t, n) = Distance(t, m) => n = m

VARIABLES
    links,       \* by pair: connections open between them
    relays,      \* by node: known_mix_relays, as peers
    keys,        \* by node: peers in known_mix_routing_keys
    covering,    \* nodes with mix_dummy_traffic_active
    epoch,       \* the mailbox epoch on every clock
    stamping,    \* deposits whose proof of work is being mined
    wire,        \* packets sent and not yet received
    held,        \* packets whose delay at a relay has not elapsed
    store,       \* by node: the deposits its mailbox store keeps (on disk)
    misses,      \* queries that found nothing at their relay (history)
    spent        \* the bounds' counters: packets, opened, upsets

directory == <<links, relays, keys>>
vars == <<links, relays, keys, covering, epoch, stamping, wire,
          held, store, misses, spent>>

Linked(n, m) == {n, m} \in Pairs /\ links[{n, m}] > 0

Init ==
    /\ links = [p \in Pairs |-> 0]
    /\ relays = [n \in Node |-> {}]
    /\ keys = [n \in Node |-> {}]
    /\ covering = {}
    /\ epoch = 0
    /\ stamping = {} /\ wire = {} /\ held = {}
    /\ store = [n \in Node |-> {}]
    /\ misses = {}
    /\ spent = [packets |-> 0, opened |-> 0, upsets |-> 0]

-----------------------------------------------------------------------------
(* The relay directory.  A connection makes each end a relay the other     *)
(* knows; closing any of them makes it forget.                             *)

ConnectionEstablished(p) ==
    /\ links[p] < MaxLinks /\ spent.opened < MaxOpened
    /\ spent' = [spent EXCEPT !.opened = @ + 1]
    /\ links' = [links EXCEPT ![p] = @ + 1]
    /\ relays' = [n \in Node |->
                    IF n \in p THEN relays[n] \cup (p \ {n}) ELSE relays[n]]
    /\ UNCHANGED <<keys, covering, epoch, stamping, wire, held,
                   store, misses>>

(* Mutant: a peer is forgotten unless it was its last connection.          *)
ForgetsLate(n, p) ==
    IF n \in p /\ links[p] > 1 THEN relays[n] \ p ELSE relays[n]
Forgets(n, p) == IF n \in p THEN relays[n] \ p ELSE relays[n]

ConnectionClosed(p) ==
    /\ links[p] > 0 /\ spent.upsets < MaxUpsets
    /\ links' = [links EXCEPT ![p] = @ - 1]
    /\ relays' = [n \in Node |-> Forgets(n, p)]
    /\ spent' = [spent EXCEPT !.upsets = @ + 1]
    /\ UNCHANGED <<keys, covering, epoch, stamping, wire, held,
                   store, misses>>

(* AnnounceMixRelay publishes the node's routing key by gossip; a node it  *)
(* reaches records the key (and dials the relay: ConnectionEstablished).   *)
(* Only originators ever use a key: the others' learning is left out here. *)
AnnounceMixRelay(m, n) ==
    /\ n \in Originators
    /\ m \in Relayers \ (keys[n] \cup {n})
    /\ \E x, y \in Node : Linked(m, x) /\ Linked(n, y)
    /\ keys' = [keys EXCEPT ![n] = @ \cup {m}]
    /\ UNCHANGED <<links, relays, covering, epoch, stamping, wire, held,
                   store, misses, spent>>

-----------------------------------------------------------------------------
(* Paths.                                                                  *)

Usable(n) == relays[n] \cap keys[n]

Least(a, b) == IF a <= b THEN a ELSE b

(* The sequences choose_multiple may return: as many distinct members as   *)
(* asked for, or all of them when there are fewer, in some order.          *)
RelayPicks(S, k) ==
    {q \in [1..Least(k, Cardinality(S)) -> S] :
       \A i, j \in DOMAIN q : i # j => q[i] # q[j]}

ClosestToTag(t, S) ==
    CHOOSE n \in S : \A m \in S : Distance(t, n) <= Distance(t, m)

(* Mutant: the final hop is any usable relay.                             *)
PathsToTagRandom(t, S) ==
    UNION {{Append(q, final) : q \in RelayPicks(S \ {final}, MixPathHops - 1)} :
             final \in S}
(* Mutant: no hop before the final one.                                    *)
PathsToTagDirect(t, S) == {<<ClosestToTag(t, S)>>}
PathsToTag(t, S) ==
    LET final == ClosestToTag(t, S)
    IN  {Append(q, final) : q \in RelayPicks(S \ {final}, MixPathHops - 1)}

(* Mutant: the responder may be the first hop of the way back.             *)
ReturnPathsThroughResponder(n, S, r) ==
    {Append(q, n) : q \in RelayPicks(S, MixPathHops - 1)}

(* The way back to asker n of a query that responder r will answer.        *)
ReturnPaths(n, S, r) ==
    {Append(q, n) : q \in RelayPicks(S \ {r}, MixPathHops - 1)}
(* build_packet and build_surb refuse a path longer than the header holds. *)
Fits(path) == Len(path) \in 1..MaxPathLength

(* The reply blocks build_surb may give it: ways back, hidden in layers.   *)
Surbs(n, S, r) == {back \in ReturnPaths(n, S, r) : Fits(back)}

Packet(n, kind, tag, path, surb) ==
    [id |-> spent.packets, origin |-> n, kind |-> kind, tag |-> tag,
     view |-> Usable(n), from |-> n, to |-> Head(path), rest |-> Tail(path),
     surb |-> surb, what |-> 0]

(* use_surb: the responder makes a packet of the block and the reply, and  *)
(* learns the block's first hop.                                           *)
UseSurb(query, what) ==
    [query EXCEPT !.kind = "reply", !.from = query.to, !.what = what,
                  !.to = Head(query.surb), !.rest = Tail(query.surb)]

DummyPacket(n, path) == Packet(n, "dummy", epoch, path, <<>>)
IsDummy(p) == p.kind = "dummy"

(* What peel tells a hop: whether it is the last one, or else who is next. *)
IsFinal(p) == p.rest = <<>>
NextHop(p) == Head(p.rest)
NextHopPacket(p) == [p EXCEPT !.from = p.to, !.to = NextHop(p), !.rest = Tail(@)]

CountPacket ==
    /\ spent.packets < MaxPackets
    /\ spent' = [spent EXCEPT !.packets = @ + 1]

-----------------------------------------------------------------------------
(* Originating packets.                                                    *)

(* Command::DepositToMailbox: the tag is fixed when mining starts.         *)
DepositToMailbox(n) ==
    /\ n \in Depositors
    /\ CountPacket
    /\ stamping' = stamping \cup {[from |-> n, tag |-> epoch]}
    /\ UNCHANGED <<directory, covering, epoch, wire, held, store,
                   misses>>

(* The path is chosen when it is mined; without a relay the deposit is     *)
(* dropped and the app told only that some forward failed.                 *)
SendMailboxDeposit(d) ==
    /\ stamping' = stamping \ {d}
    /\ \/ Usable(d.from) = {} /\ UNCHANGED <<wire, spent>>
       \/ /\ Usable(d.from) # {}
          /\ \E path \in PathsToTag(d.tag, Usable(d.from)) :
               /\ Fits(path)
               /\ wire' = wire \cup
                    {[Packet(d.from, "deposit", d.tag, path, <<>>)
                        EXCEPT !.what = spent.packets]}
          /\ UNCHANGED spent
    /\ UNCHANGED <<directory, covering, epoch, held, store, misses>>

(* Command::RetrieveFromMailbox, with the reply block its answer takes.    *)
RetrieveFromMailbox(n) ==
    LET S == Usable(n)
        responder == ClosestToTag(epoch, S)
    IN
    /\ n \in Askers
    /\ CountPacket
    /\ S # {}
    /\ \E path \in PathsToTag(epoch, S), back \in Surbs(n, S, responder) :
         /\ Fits(path)
         /\ wire' = wire \cup {Packet(n, "query", epoch, path, back)}
    /\ UNCHANGED <<directory, covering, epoch, stamping, held, store,
                   misses>>

(* Command::SetMixDummyTrafficActive, and the interval's tick: a packet    *)
(* dropped by the relay it goes to, or one that comes back through it.     *)
SetMixDummyTrafficActive(n) ==
    /\ n \in Coverers /\ spent.upsets < MaxUpsets
    /\ spent' = [spent EXCEPT !.upsets = @ + 1]
    /\ covering' = (covering \ {n}) \cup ({n} \ covering)
    /\ UNCHANGED <<directory, epoch, stamping, wire, held, store,
                   misses>>

EmitDummyMixTraffic(n) ==
    /\ n \in covering
    /\ CountPacket
    /\ \E r \in Usable(n), back \in {<<>>, <<n>>} :
         wire' = wire \cup {DummyPacket(n, <<r>> \o back)}
    /\ UNCHANGED <<directory, covering, epoch, stamping, held, store,
                   misses>>

-----------------------------------------------------------------------------
(* A packet arrives: request_response delivers it over an open connection. *)
(* Whatever it carries, its sender's routing key is learnt.                *)

Arrives(p) ==
    /\ p \in wire
    /\ Linked(p.from, p.to)
    /\ keys' = [keys EXCEPT ![p.to] = @ \cup {p.from}]

(* A hop looks its successor up among the relays it knows now, holds the   *)
(* packet for its delay, and sends it then whatever has happened since.    *)
PeelForward(p) ==
    /\ Arrives(p)
    /\ ~ IsFinal(p)
    /\ wire' = wire \ {p}
    /\ \/ /\ NextHop(p) \in relays[p.to]
          /\ held' = held \cup {p}
       \/ NextHop(p) \notin relays[p.to] /\ UNCHANGED held
    /\ UNCHANGED <<links, relays, covering, epoch, stamping, store,
                   misses, spent>>

Forward(p) ==
    /\ p \in held
    /\ held' = held \ {p}
    /\ wire' = wire \cup {NextHopPacket(p)}
    /\ UNCHANGED <<directory, covering, epoch, stamping, store,
                   misses, spent>>

PeelDeposit(p) ==
    /\ Arrives(p)
    /\ IsFinal(p) /\ p.kind = "deposit"
    /\ wire' = wire \ {p}
    /\ \/ store' = [store EXCEPT ![p.to] = @ \cup
                      {[tag |-> p.tag, by |-> p.origin, view |-> p.view,
                        what |-> p.what]}]
       \/ UNCHANGED store
    /\ UNCHANGED <<links, relays, covering, epoch, stamping, held,
                   misses, spent>>

HeldFor(n, t) == {d \in store[n] : d.tag = t}
OldestOf(S) == CHOOSE d \in S : \A e \in S : d.what <= e.what

(* A relay that has something under the tag sends the oldest through the   *)
(* reply block, if it knows the block's first hop; else it stays silent.   *)
PeelQuery(p) ==
    LET found == HeldFor(p.to, p.tag) IN
    /\ Arrives(p)
    /\ IsFinal(p) /\ p.kind = "query"
    /\ \/ /\ found # {} /\ Head(p.surb) \in relays[p.to]
          /\ wire' = (wire \ {p}) \cup {UseSurb(p, OldestOf(found).what)}
       \/ /\ found = {} \/ Head(p.surb) \notin relays[p.to]
          /\ wire' = wire \ {p}
    /\ misses' = IF found = {}
                 THEN misses \cup {[at |-> p.to, tag |-> p.tag,
                                    view |-> p.view, by |-> p.origin]}
                 ELSE misses
    /\ UNCHANGED <<links, relays, covering, epoch, stamping, held,
                   store, spent>>

(* The envelope is the node's own answer: it goes to ChatManager.          *)
PeelReply(p) ==
    /\ Arrives(p)
    /\ IsFinal(p) /\ p.kind = "reply"
    /\ wire' = wire \ {p}
    /\ UNCHANGED <<links, relays, covering, epoch, stamping, held,
                   store, misses, spent>>

PeelDummy(p) ==
    /\ Arrives(p)
    /\ IsFinal(p) /\ IsDummy(p)
    /\ wire' = wire \ {p}
    /\ UNCHANGED <<links, relays, covering, epoch, stamping, held,
                   store, misses, spent>>

(* The request fails: its sender, not the packet's origin, is told.        *)
OutboundFailure(p) ==
    /\ p \in wire
    /\ wire' = wire \ {p}
    /\ UNCHANGED <<directory, covering, epoch, stamping, held, store,
                   misses, spent>>

-----------------------------------------------------------------------------
TurnEpoch ==
    /\ epoch < MaxEpoch /\ spent.upsets < MaxUpsets
    /\ spent' = [spent EXCEPT !.upsets = @ + 1]
    /\ epoch' = epoch + 1
    /\ UNCHANGED <<directory, covering, stamping, wire, held, store,
                   misses>>

(* A node's process ends and starts again: only its mailbox store is on    *)
(* disk.  Its peers see their connections to it close.                     *)
Restart(n) ==
    /\ spent.upsets < MaxUpsets
    /\ spent' = [spent EXCEPT !.upsets = @ + 1]
    /\ links' = [p \in Pairs |-> IF n \in p THEN 0 ELSE links[p]]
    /\ relays' = [m \in Node |-> IF m = n THEN {} ELSE relays[m] \ {n}]
    /\ keys' = [keys EXCEPT ![n] = {}]
    /\ covering' = covering \ {n}
    /\ stamping' = {d \in stamping : d.from # n}
    /\ held' = {p \in held : p.to # n}
    /\ UNCHANGED <<epoch, wire, store, misses>>

Next ==
    \/ \E p \in Pairs : ConnectionEstablished(p) \/ ConnectionClosed(p)
    \/ \E n \in Node :
         \/ DepositToMailbox(n)
         \/ RetrieveFromMailbox(n)
         \/ SetMixDummyTrafficActive(n)
         \/ EmitDummyMixTraffic(n)
         \/ Restart(n)
    \/ \E n, m \in Node : AnnounceMixRelay(m, n)
    \/ \E d \in stamping : SendMailboxDeposit(d)
    \/ \E p \in wire :
         \/ PeelForward(p) \/ PeelDeposit(p) \/ PeelQuery(p) \/ PeelReply(p)
         \/ PeelDummy(p) \/ OutboundFailure(p)
    \/ \E p \in held : Forward(p)
    \/ TurnEpoch

Spec == Init /\ [][Next]_vars

-----------------------------------------------------------------------------
(***************************************************************************)
(* A node only takes as a relay a peer it has a connection to, however     *)
(* connections to one peer overlap (handle_swarm_event's two arms).  The   *)
(* converse fails: with two connections, closing one makes the node forget *)
(* the relay it is still connected to.                                     *)
(***************************************************************************)
RelaysAreConnected ==
    \A n \in Node : \A m \in relays[n] : Linked(n, m)

(***************************************************************************)
(* No hop is ever asked to hand a packet to itself: not on a path, not at  *)
(* the end of one, and not from a responder to the first hop of the reply  *)
(* block it was given (build_mix_path_to_tag's and                         *)
(* send_mailbox_retrieval_query's exclusions).                             *)
(***************************************************************************)
Repeats(q) == \E i \in 1..(Len(q) - 1) : q[i] = q[i + 1]

NoHopToItself ==
    \A p \in wire \cup held :
      /\ ~Repeats(<<p.from, p.to>> \o p.rest)
      /\ p.kind = "query" =>
           ~Repeats(<<(<<p.to>> \o p.rest)[Len(p.rest) + 1]>> \o p.surb)

(***************************************************************************)
(* The hop that sees a tag never hears from the user who uses it: a        *)
(* deposit or query reaches its final hop straight from its origin, and a  *)
(* reply its asker straight from the relay that answers, only when the     *)
(* origin had no second relay to put between (node.rs:1338, 1380).         *)
(***************************************************************************)
SenderAndTagStayApart ==
    \A p \in wire :
      /\ p.kind \in {"deposit", "query"} /\ p.rest = <<>> /\ p.from = p.origin
           => Cardinality(p.view) = 1
      /\ p.kind = "reply" /\ p.to = p.origin
           /\ p.from = ClosestToTag(p.tag, p.view)
           => Cardinality(p.view) = 1

(***************************************************************************)
(* A query that finds nothing at its relay while another relay already     *)
(* keeps a deposit under the same tag was built from another set of usable *)
(* relays than the deposit: two users with the same relays always meet at  *)
(* the same one (closest_relay_to_tag), whatever the packets' order, the   *)
(* epoch that turns on the way, the restarts and the connections lost.     *)
(***************************************************************************)
MissesHaveDifferentViews ==
    \A m \in misses, n \in Node :
      \A d \in HeldFor(n, m.tag) : n # m.at => d.view # m.view

=============================================================================
