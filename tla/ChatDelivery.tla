---------------------------- MODULE ChatDelivery ----------------------------
(***************************************************************************)
(* How a chat message gets from one user to another: ChatManager's outbox, *)
(* its per-peer send state, the X3DH handshake on a contact card, the      *)
(* ratchet session kept on disk, the direct envelope with its              *)
(* acknowledgement and the mailbox deposit when that fails.                *)
(*                                                                         *)
(* ChatManager runs on two threads: the event pump, one event at a time,   *)
(* and the app's calls of sendMessage.  Only peerStates and connectedPeers *)
(* are under its lock; the files are read, changed and written back in     *)
(* separate steps, which the model keeps apart where the two can meet.     *)
(*                                                                         *)
(* The Double Ratchet is what DoubleRatchet shows it to be: an envelope    *)
(* opens in a session with its secret, at the other side, once.  The node  *)
(* below is NodeRequests, reduced to the events it reports.                *)
(***************************************************************************)
EXTENDS Prekeys

CONSTANTS
    User,
    Talks,           \* the pairs <<u, v>> such that u writes to v
    OneTimeCount,    \* one-time prekeys in a new account's store
    MaxLinks,        \* bound: connections of one pair
    Budgets          \* bounds: the budgets a run may start with

ASSUME ChatAssumption ==
    /\ Talks \subseteq (User \X User) \ {<<u, u>> : u \in User}
    /\ OneTimeCount \in Nat /\ MaxLinks \in Nat
    /\ Budgets \subseteq
         [writers  : SUBSET Talks,  \* the pairs that write
          messages : Nat,           \* messages written
          upsets   : Nat,           \* failures (Upset below)
          returns  : Nat]           \* envelopes brought back from the mailbox

States == {"none", "dialing", "fetchingCard", "sendingEnvelope"}
NoSession == [secret |-> <<>>, sent |-> 0, got |-> {}]
NoTask == [at |-> "idle"]

VARIABLES
    outbox,      \* by user, on disk: [id, to], oldest first
    session,     \* by user and peer, on disk
    prekeys,     \* by user, in memory; the store on disk never changes
    card,        \* by user: the contact card, as registered with the node
    states,      \* by user and peer: peerStates
    connected,   \* by user: connectedPeers
    app,         \* by user: where a sendMessage is
    pump,        \* by user: where the handling of a delivery is
    events,      \* by user: events the pump has not taken
    links,       \* by user pair: open connections
    dials, fetches, flying, acks,   \* what the nodes have under way
    mailbox,     \* envelopes the mailbox keeps for a pair
    sent,        \* messages so far; a message is its number
    queued,      \* messages saved in an outbox (sendMessage returns)
    shown,       \* envelopes shown to their receiver, a bag
    dropped,     \* by user: envelopes it could not open
    unshown,     \* envelopes opened by an app that died before it showed them
    handshakes,  \* by user and peer: handshakes started
    arrived,     \* messages an envelope of which reached the peer's node
    faults,      \* what went wrong (history)
    budget       \* bound: what is left of one of the Budgets

disk == <<outbox, session>>
memory == <<prekeys, card, states, connected, app, pump>>
net == <<events, links, dials, fetches, flying, acks, mailbox>>
history == <<sent, queued, shown, dropped, unshown, handshakes, arrived,
             faults>>
vars == <<disk, memory, net, history, budget>>

Fault(u, v, what) == [pair |-> {u, v}, what |-> what]

(* The account's prekeys, as they were saved when it was made.  Starting   *)
(* up reads them and makes one card, for everyone, of what they offer.     *)
SavedPrekeys(u) == StoreToBytes(Generate(u, OneTimeCount))
LoadedPrekeys(u) == AfterOffer(StoreFromBytes(SavedPrekeys(u)))
ContactCard(u) == BundleToBytes(PublicBundle(u, StoreFromBytes(SavedPrekeys(u))))

Init ==
    /\ outbox = [u \in User |-> <<>>]
    /\ session = [u \in User |-> [v \in User |-> NoSession]]
    /\ prekeys = [u \in User |-> LoadedPrekeys(u)]
    /\ card = [u \in User |-> ContactCard(u)]
    /\ states = [u \in User |-> [v \in User |-> "none"]]
    /\ connected = [u \in User |-> {}]
    /\ app = [u \in User |-> NoTask] /\ pump = [u \in User |-> NoTask]
    /\ events = [u \in User |-> <<>>]
    /\ links = [p \in {{t[1], t[2]} : t \in Talks} |-> 0]
    /\ dials = {} /\ fetches = {} /\ flying = {} /\ acks = {}
    /\ mailbox = {}
    /\ sent = 0 /\ queued = {} /\ shown = EmptyBag /\ dropped = [u \in User |-> {}]
    /\ handshakes = [u \in User |-> [v \in User |-> 0]]
    /\ unshown = {} /\ arrived = {} /\ faults = {}
    /\ budget \in Budgets

-----------------------------------------------------------------------------
Event(kind, v, data) == [kind |-> kind, peer |-> v, data |-> data]
NoData == <<>>
Enqueue(u, e) == events' = [events EXCEPT ![u] = Append(@, e)]

(* Where the items for v stand in an outbox, and the first of them.        *)
ItemsFor(box, v) == {i \in DOMAIN box : box[i].to = v}
HasItem(box, v) == ItemsFor(box, v) # {}
First(box, v) == CHOOSE i \in ItemsFor(box, v) : \A j \in ItemsFor(box, v) : i <= j
Item(box, v) == box[First(box, v)]

(* The one item with a local id leaves, the others close up.               *)
Without(box, i) == RemoveAt(box, i)

(* x3dh_initiate on a card's bytes, and x3dh_respond on those of an initial*)
(* message: the shared secret, and what goes to the other side.            *)
X3dhInitiate(u, ephemeral, bytes) ==
    LET bundle == BundleFromBytes(bytes) IN
    [secret  |-> InitiatorSecret(u, ephemeral, bundle),
     initial |-> InitialToBytes(InitialMessage(u, ephemeral, bundle))]

X3dhRespond(u, store, bytes) ==
    LET message == InitialFromBytes(bytes) IN
    [ok     |-> ~Exhausted(store, message),
     secret |-> ResponderSecret(u, message),
     store  |-> IF Exhausted(store, message) THEN store
                ELSE AfterRespond(store, message)]

NewRatchet(secret) == [NoSession EXCEPT !.secret = secret]

(* The ratchet: the next envelope of a session, and what opening one does. *)
Envelope(u, v, kind, initial, s, item) ==
    [from |-> u, to |-> v, kind |-> kind, initial |-> initial,
     secret |-> s.secret, number |-> s.sent + 1, message |-> item.id]
Encrypted(s) == [s EXCEPT !.sent = @ + 1]

Opens(u, s, e) ==
    /\ s # NoSession /\ s.secret = e.secret
    /\ e.from # u /\ e.number \notin s.got
Decrypted(s, e) == [s EXCEPT !.got = @ \cup {e.number}]

Started(e) == flying' = flying \cup {e}

(***************************************************************************)
(* attemptSend, on what it has read: the first item for v, whether v is    *)
(* connected, and the session with v.  beginState refuses when a step for  *)
(* v is already under way.                                                 *)
(***************************************************************************)
Reads(u, v, box) ==
    [item |-> Item(box, v), conn |-> v \in connected[u],
     session |-> session[u][v]]

(* Mutant: the state is set whatever it was.                               *)
BeginAnyway(st, v, new) == TRUE
Begins(st, v, new) == st[v] = "none" /\ new # "none"

Attempt(u, v, st, r) ==
    LET new == IF ~r.conn THEN "dialing"
               ELSE IF r.session = NoSession THEN "fetchingCard"
               ELSE "sendingEnvelope"
    IN
    \/ /\ ~Begins(st, v, new)
       /\ states' = [states EXCEPT ![u] = st]
       /\ UNCHANGED <<session, dials, fetches, flying>>
    \/ /\ Begins(st, v, new)
       /\ states' = [states EXCEPT ![u] = [st EXCEPT ![v] = new]]
       /\ dials' = IF new = "dialing" THEN dials \cup {<<u, v>>} ELSE dials
       /\ fetches' = IF new = "fetchingCard" THEN fetches \cup {<<u, v>>}
                     ELSE fetches
       /\ IF new = "sendingEnvelope"
          THEN /\ session' = [session EXCEPT ![u][v] = Encrypted(r.session)]
               /\ Started(Envelope(u, v, "continuing", NoData, r.session,
                                   r.item))
          ELSE UNCHANGED <<session, flying>>

AttemptIfQueued(u, v, st, box) ==
    \/ HasItem(box, v) /\ Attempt(u, v, st, Reads(u, v, box))
    \/ /\ ~HasItem(box, v)
       /\ states' = [states EXCEPT ![u] = st]
       /\ UNCHANGED <<session, dials, fetches, flying>>

Ended(u, v) == [states[u] EXCEPT ![v] = "none"]

Upset == /\ budget.upsets > 0
         /\ budget' = [budget EXCEPT !.upsets = @ - 1]

(* The user's other thread is between reading the files and writing them.  *)
(* One that has only an envelope left to show is done with them.           *)
Holds(task) == task.at \notin {"idle", "opened"}

Overlapped(u) == Fault(u, u, "overlap") \in faults

Overlap(u, task) ==
    \/ /\ ~Holds(task[u]) \/ Overlapped(u)
       /\ UNCHANGED <<faults, budget>>
    \/ /\ Holds(task[u]) /\ ~Overlapped(u) /\ Upset
       /\ faults' = faults \cup {Fault(u, u, "overlap")}

-----------------------------------------------------------------------------
(* The app's thread: sendMessage loads the outbox, saves it with the new   *)
(* item, and calls attemptSend, which reads before it begins a state.      *)

SendLoad(u, v) ==
    /\ <<u, v>> \in Talks \cap budget.writers
    /\ app[u] = NoTask /\ sent < budget.messages
    /\ sent' = sent + 1
    /\ app' = [app EXCEPT ![u] =
                 [at |-> "loaded", to |-> v, box |-> outbox[u],
                  id |-> sent + 1]]
    /\ Overlap(u, pump)
    /\ UNCHANGED <<disk, prekeys, card, states, connected, pump, net, queued,
                   shown, dropped, unshown, handshakes, arrived>>

SendSave(u) ==
    LET box == Append(app[u].box, [id |-> app[u].id, to |-> app[u].to])
    IN
    /\ app[u].at = "loaded"
    /\ outbox' = [outbox EXCEPT ![u] = box]
    /\ app' = [app EXCEPT ![u] =
                 [at |-> "read", to |-> app[u].to,
                  r |-> Reads(u, app[u].to, box)]]
    /\ queued' = queued \cup {app[u].id}
    /\ Overlap(u, pump)
    /\ UNCHANGED <<session, prekeys, card, states, connected, pump, net, sent,
                   shown, dropped, unshown, handshakes, arrived>>

SendAttempt(u) ==
    /\ app[u].at = "read"
    /\ Attempt(u, app[u].to, states[u], app[u].r)
    /\ app' = [app EXCEPT ![u] = NoTask]
    /\ Overlap(u, pump)
    /\ UNCHANGED <<outbox, prekeys, card, connected, pump, events, links,
                   acks, mailbox, sent, queued, shown, dropped, unshown,
                   handshakes, arrived>>

-----------------------------------------------------------------------------
(* The pump: handleP2pEvent takes one event.                               *)

Takes(u, kind) ==
    /\ pump[u] = NoTask
    /\ events[u] # <<>> /\ Head(events[u]).kind = kind
    /\ events' = [events EXCEPT ![u] = Tail(@)]
    /\ Overlap(u, app)

PeerOf(u) == Head(events[u]).peer

OnPeerConnected(u) ==
    LET v == PeerOf(u)
        st == IF states[u][v] = "dialing" THEN Ended(u, v) ELSE states[u]
        box == outbox[u]
    IN
    /\ Takes(u, "connected")
    /\ connected' = [connected EXCEPT ![u] = @ \cup {v}]
    /\ \/ /\ HasItem(box, v)
          /\ Attempt(u, v, st, [Reads(u, v, box) EXCEPT !.conn = TRUE])
       \/ /\ ~HasItem(box, v)
          /\ states' = [states EXCEPT ![u] = st]
          /\ UNCHANGED <<session, dials, fetches, flying>>
    /\ UNCHANGED <<outbox, prekeys, card, app, pump, links, acks, mailbox,
                   sent, queued, shown, dropped, unshown, handshakes,
                   arrived>>

OnPeerDisconnected(u) ==
    /\ Takes(u, "disconnected")
    /\ connected' = [connected EXCEPT ![u] = @ \ {PeerOf(u)}]
    /\ UNCHANGED <<disk, prekeys, card, states, app, pump, links, dials,
                   fetches, flying, acks, mailbox, sent, queued, shown,
                   dropped, unshown, handshakes, arrived>>

(* Two failures that end the step they are for, and no other.              *)
OnFailed(u, kind, state) ==
    LET v == PeerOf(u) IN
    /\ Takes(u, kind)
    /\ states' = IF states[u][v] = state
                 THEN [states EXCEPT ![u] = Ended(u, v)] ELSE states
    /\ UNCHANGED <<disk, prekeys, card, connected, app, pump, links, dials,
                   fetches, flying, acks, mailbox, sent, queued, shown,
                   dropped, unshown, handshakes, arrived>>

OnDialFailed(u) == OnFailed(u, "dialFailed", "dialing")
OnBlobFetchFailed(u) == OnFailed(u, "blobFetchFailed", "fetchingCard")

(* handleCardFetched: the initiator's session, and its first envelope with *)
(* the initial message in front.                                           *)
OnBlobFetched(u) ==
    LET v == PeerOf(u)
        ephemeral == <<"EK", u, v, handshakes[u][v] + 1>>
        result == X3dhInitiate(u, ephemeral, Head(events[u]).data)
        s == NewRatchet(result.secret)
    IN
    /\ Takes(u, "blobFetched")
    /\ \/ /\ states[u][v] = "fetchingCard" /\ HasItem(outbox[u], v)
          /\ session' = [session EXCEPT ![u][v] = Encrypted(s)]
          /\ Started(Envelope(u, v, "handshake", result.initial, s,
                              Item(outbox[u], v)))
          /\ states' = [states EXCEPT ![u][v] = "sendingEnvelope"]
          /\ handshakes' = [handshakes EXCEPT ![u][v] = @ + 1]
       \/ /\ states[u][v] = "fetchingCard" /\ ~HasItem(outbox[u], v)
          /\ states' = [states EXCEPT ![u] = Ended(u, v)]
          /\ UNCHANGED <<session, flying, handshakes>>
       \/ /\ states[u][v] # "fetchingCard"
          /\ UNCHANGED <<session, flying, states, handshakes>>
    /\ UNCHANGED <<outbox, prekeys, card, connected, app, pump, links, dials,
                   fetches, acks, mailbox, sent, queued, shown, dropped,
                   unshown, arrived>>

-----------------------------------------------------------------------------
(* The pump: envelopes received.                                           *)

(* The session is on disk; the message is yet to be shown.                 *)
Opened(u, e) == pump' = [pump EXCEPT ![u] = [at |-> "opened", envelope |-> e]]
Drops(u, e) == dropped' = [dropped EXCEPT ![u] = @ \cup {e}]

(* handleIncomingHandshake: the responder's session replaces any other.    *)
(* The one-time prekey is gone even if the envelope then does not open.    *)
OnHandshake(u) ==
    LET v == PeerOf(u)
        e == Head(events[u]).data
        result == X3dhRespond(u, prekeys[u], e.initial)
        s == NewRatchet(result.secret)
    IN
    /\ Takes(u, "envelope") /\ e.kind = "handshake"
    /\ prekeys' = [prekeys EXCEPT ![u] = result.store]
    /\ \/ /\ result.ok /\ Opens(u, s, e)
          /\ session' = [session EXCEPT ![u][v] = Decrypted(s, e)]
          /\ Opened(u, e) /\ UNCHANGED dropped
       \/ /\ ~(result.ok /\ Opens(u, s, e))
          /\ Drops(u, e) /\ UNCHANGED <<session, pump>>
    /\ UNCHANGED <<outbox, card, states, connected, app, links, dials,
                   fetches, flying, acks, mailbox, sent, queued, shown,
                   unshown, handshakes, arrived>>

(* Mutant: the session is not saved after an envelope opened in it.        *)
KeepsUnopened(u, v, e) == session' = session
Keeps(u, v, e) ==
    session' = [session EXCEPT ![u][v] = Decrypted(session[u][v], e)]

(* handleIncomingContinuing tries the sender's session; for an envelope    *)
(* from the mailbox handleRetrievedContinuing tries them all.              *)
OnContinuing(u, kind) ==
    LET e == Head(events[u]).data
        tried == IF kind = "envelope" THEN {PeerOf(u)} ELSE User
        fits == {v \in tried : Opens(u, session[u][v], e)}
    IN
    /\ Takes(u, kind) /\ e.kind = "continuing"
    /\ \/ \E v \in fits : Keeps(u, v, e) /\ Opened(u, e) /\ UNCHANGED dropped
       \/ fits = {} /\ Drops(u, e) /\ UNCHANGED <<session, pump>>
    /\ UNCHANGED <<outbox, prekeys, card, states, connected, app, links,
                   dials, fetches, flying, acks, mailbox, sent, queued, shown,
                   unshown, handshakes, arrived>>

OnEnvelopeReceived(u) == OnHandshake(u) \/ OnContinuing(u, "envelope")
OnMailboxEnvelopeRetrieved(u) == OnContinuing(u, "retrieved")

(* The last call of the four handlers: the message goes to the app.        *)
ShowOpened(u) ==
    /\ pump[u].at = "opened"
    /\ shown' = shown (+) SetToBag({pump[u].envelope})
    /\ pump' = [pump EXCEPT ![u] = NoTask]
    /\ UNCHANGED <<disk, prekeys, card, states, connected, app, net, sent,
                   queued, dropped, unshown, handshakes, arrived, faults,
                   budget>>

-----------------------------------------------------------------------------
(* The pump: what became of the envelope sent.                             *)

(* Delivered: the state ends and the outbox is loaded ...                  *)
OnEnvelopeDelivered(u) ==
    LET v == PeerOf(u) IN
    /\ Takes(u, "delivered")
    /\ \/ /\ states[u][v] = "sendingEnvelope"
          /\ states' = [states EXCEPT ![u] = Ended(u, v)]
          /\ pump' = [pump EXCEPT ![u] =
                        [at |-> "delivered", to |-> v, box |-> outbox[u]]]
       \/ /\ states[u][v] # "sendingEnvelope"
          /\ UNCHANGED <<states, pump>>
    /\ UNCHANGED <<disk, prekeys, card, connected, app, links, dials, fetches,
                   flying, acks, mailbox, sent, queued, shown, dropped,
                   unshown, handshakes, arrived>>

(* ... and saved without its first item for the peer, which is reported *)
(* as sent; the next item is attempted.                                    *)
(* Mutant: the last item for the peer is taken for the one delivered.      *)
LastDelivered(box, v) ==
    CHOOSE i \in ItemsFor(box, v) : \A j \in ItemsFor(box, v) : j <= i
Delivered(box, v) == First(box, v)

RemoveAndContinue(u) ==
    LET v == pump[u].to
        box == pump[u].box
        rest == IF HasItem(box, v) THEN Without(box, Delivered(box, v))
                ELSE outbox[u]
    IN
    /\ pump[u].at = "delivered"
    /\ outbox' = [outbox EXCEPT ![u] = rest]
    /\ AttemptIfQueued(u, v, states[u], rest)
    /\ pump' = [pump EXCEPT ![u] = NoTask]
    /\ Overlap(u, app)
    /\ UNCHANGED <<prekeys, card, connected, app, events, links, acks,
                   mailbox, sent, queued, shown, dropped, unshown, handshakes,
                   arrived>>

(* Failed: with a session the item is encrypted again and deposited; it    *)
(* stays queued.                                                           *)
OnEnvelopeDeliveryFailed(u) ==
    LET v == PeerOf(u)
        s == session[u][v]
        sending == states[u][v] = "sendingEnvelope"
        deposits == sending /\ HasItem(outbox[u], v) /\ s # NoSession
    IN
    /\ Takes(u, "failed")
    /\ states' = IF sending THEN [states EXCEPT ![u] = Ended(u, v)]
                 ELSE states
    /\ \/ /\ deposits
          /\ session' = [session EXCEPT ![u][v] = Encrypted(s)]
          /\ mailbox' = mailbox \cup
               {Envelope(u, v, "continuing", NoData, s, Item(outbox[u], v))}
       \/ ~deposits /\ UNCHANGED <<session, mailbox>>
    /\ UNCHANGED <<outbox, prekeys, card, connected, app, pump, links, dials,
                   fetches, flying, acks, sent, queued, shown, dropped,
                   unshown, handshakes, arrived>>

-----------------------------------------------------------------------------
(* The two nodes and the network.                                          *)

Both(p, kind) ==
    events' = [u \in User |->
                 IF u \in p
                 THEN Append(events[u],
                             Event(kind, CHOOSE v \in p : v # u, NoData))
                 ELSE events[u]]

(* A dial of a connected peer is refused; another may fail.                *)
DialConnects(u, v) ==
    /\ <<u, v>> \in dials /\ links[{u, v}] = 0
    /\ dials' = dials \ {<<u, v>>}
    /\ links' = [links EXCEPT ![{u, v}] = @ + 1]
    /\ Both({u, v}, "connected")
    /\ UNCHANGED <<disk, memory, fetches, flying, acks, mailbox, history,
                   budget>>

DialFails(u, v) ==
    /\ <<u, v>> \in dials
    /\ dials' = dials \ {<<u, v>>}
    /\ Enqueue(u, Event("dialFailed", v, NoData))
    /\ \/ links[{u, v}] > 0 /\ UNCHANGED budget
       \/ links[{u, v}] = 0 /\ Upset
    /\ UNCHANGED <<disk, memory, links, fetches, flying, acks, mailbox,
                   history>>

(* Connections the users' nodes make for other reasons, and closed ones.   *)
NodesConnect(p) ==
    /\ links[p] < MaxLinks /\ Upset
    /\ links' = [links EXCEPT ![p] = @ + 1]
    /\ Both(p, "connected")
    /\ UNCHANGED <<disk, memory, dials, fetches, flying, acks, mailbox,
                   history>>

Disconnect(p) ==
    /\ links[p] > 0 /\ Upset
    /\ links' = [links EXCEPT ![p] = @ - 1]
    /\ Both(p, "disconnected")
    /\ UNCHANGED <<disk, memory, dials, fetches, flying, acks, mailbox,
                   history>>

CardFetched(u, v) ==
    /\ <<u, v>> \in fetches /\ links[{u, v}] > 0
    /\ fetches' = fetches \ {<<u, v>>}
    /\ Enqueue(u, Event("blobFetched", v, card[v]))
    /\ UNCHANGED <<disk, memory, links, dials, flying, acks, mailbox, history,
                   budget>>

CardFetchFails(u, v) ==
    /\ <<u, v>> \in fetches /\ links[{u, v}] = 0
    /\ fetches' = fetches \ {<<u, v>>}
    /\ Enqueue(u, Event("blobFetchFailed", v, NoData))
    /\ UNCHANGED <<disk, memory, links, dials, flying, acks, mailbox, history,
                   budget>>

(* The receiving node queues the envelope and acknowledges it at once.     *)
EnvelopeArrives(e) ==
    /\ e \in flying /\ links[{e.from, e.to}] > 0
    /\ flying' = flying \ {e}
    /\ acks' = acks \cup {<<e.from, e.to>>}
    /\ arrived' = arrived \cup {e.message}
    /\ Enqueue(e.to, Event("envelope", e.from, e))
    /\ UNCHANGED <<disk, memory, links, dials, fetches, mailbox, sent, queued,
                   shown, dropped, unshown, handshakes, faults, budget>>

EnvelopeLost(e) ==
    /\ e \in flying /\ links[{e.from, e.to}] = 0
    /\ flying' = flying \ {e}
    /\ Enqueue(e.from, Event("failed", e.to, NoData))
    /\ faults' = IF e.kind = "handshake"
                 THEN faults \cup {Fault(e.from, e.to, "handshake lost")}
                 ELSE faults
    /\ UNCHANGED <<disk, memory, links, dials, fetches, acks, mailbox, sent,
                   queued, shown, dropped, unshown, handshakes, arrived,
                   budget>>

AckArrives(u, v) ==
    /\ <<u, v>> \in acks
    /\ acks' = acks \ {<<u, v>>}
    /\ \/ links[{u, v}] > 0 /\ Enqueue(u, Event("delivered", v, NoData))
       \/ links[{u, v}] = 0 /\ Enqueue(u, Event("failed", v, NoData))
    /\ UNCHANGED <<disk, memory, links, dials, fetches, flying, mailbox,
                   history, budget>>

(* A sweep asks for the tag of a peer there is a session with; both users  *)
(* of the pair have that tag, and the relay keeps what it answers with.    *)
MailboxReturns(u, v, e) ==
    /\ session[u][v] # NoSession
    /\ e \in mailbox /\ {e.from, e.to} = {u, v}
    /\ budget.returns > 0
    /\ budget' = [budget EXCEPT !.returns = @ - 1]
    /\ Enqueue(u, Event("retrieved", v, e))
    /\ UNCHANGED <<disk, memory, links, dials, fetches, flying, acks, mailbox,
                   history>>

(***************************************************************************)
(* The app dies and starts again: what is on disk is left, the prekeys are *)
(* those of the account's creation, the card is made again, and the outbox *)
(* is attempted (nobody is connected: every peer in it is dialled).        *)
(***************************************************************************)
Restart(u) ==
    LET waiting == {v \in User : HasItem(outbox[u], v)}
        lostHandshakes == {e \in flying : e.from = u /\ e.kind = "handshake"}
                \cup {events[u][i].data : i \in
                        {i \in DOMAIN events[u] :
                           /\ events[u][i].kind = "envelope"
                           /\ events[u][i].data.kind = "handshake"}}
    IN
    /\ Upset
    /\ prekeys' = [prekeys EXCEPT ![u] = LoadedPrekeys(u)]
    /\ card' = [card EXCEPT ![u] = ContactCard(u)]
    /\ states' = [states EXCEPT ![u] =
                    [v \in User |-> IF v \in waiting THEN "dialing"
                                    ELSE "none"]]
    /\ dials' = {d \in dials : d[1] # u} \cup {<<u, v>> : v \in waiting}
    /\ connected' = [connected EXCEPT ![u] = {}]
    /\ app' = [app EXCEPT ![u] = NoTask]
    /\ pump' = [pump EXCEPT ![u] = NoTask]
    /\ links' = [p \in DOMAIN links |-> IF u \in p THEN 0 ELSE links[p]]
    /\ events' = [v \in User |->
                    IF v = u THEN <<>>
                    ELSE IF {u, v} \in DOMAIN links /\ links[{u, v}] > 0
                         THEN Append(events[v], Event("disconnected", u, NoData))
                         ELSE events[v]]
    /\ fetches' = {f \in fetches : f[1] # u}
    /\ flying' = {e \in flying : e.from # u}
    /\ acks' = {a \in acks : a[1] # u}
    /\ faults' = faults \cup {Fault(e.from, e.to, "handshake lost") :
                                e \in lostHandshakes}
    /\ unshown' = IF pump[u].at = "opened"
                  THEN unshown \cup {pump[u].envelope} ELSE unshown
    /\ UNCHANGED <<disk, mailbox, sent, queued, shown, dropped, handshakes,
                   arrived>>

Pump(u) ==
    \/ OnPeerConnected(u) \/ OnPeerDisconnected(u) \/ OnDialFailed(u)
    \/ OnBlobFetched(u) \/ OnBlobFetchFailed(u)
    \/ OnEnvelopeReceived(u) \/ OnMailboxEnvelopeRetrieved(u) \/ ShowOpened(u)
    \/ OnEnvelopeDelivered(u) \/ OnEnvelopeDeliveryFailed(u)
    \/ RemoveAndContinue(u)

SendMessage(u) ==
    SendSave(u) \/ SendAttempt(u)

Network ==
    \/ \E u, v \in User :
         \/ DialConnects(u, v) \/ DialFails(u, v)
         \/ CardFetched(u, v) \/ CardFetchFails(u, v) \/ AckArrives(u, v)
    \/ \E p \in DOMAIN links : NodesConnect(p) \/ Disconnect(p)
    \/ \E e \in flying : EnvelopeArrives(e) \/ EnvelopeLost(e)
    \/ \E u, v \in User, e \in mailbox : MailboxReturns(u, v, e)

Next ==
    \/ \E u, v \in User : SendLoad(u, v)
    \/ \E u \in User : SendMessage(u) \/ Pump(u) \/ Restart(u)
    \/ Network

Spec == Init /\ [][Next]_vars

-----------------------------------------------------------------------------
(* Properties.                                                             *)

Queued(u, v, kinds) ==
    Cardinality({i \in DOMAIN events[u] :
                   events[u][i].kind \in kinds /\ events[u][i].peer = v})

EnvelopesOut(u, v) ==
    Cardinality({e \in flying : e.from = u /\ e.to = v})
    + Cardinality(acks \cap {<<u, v>>})
    + Queued(u, v, {"delivered", "failed"})

FetchesOut(u, v) ==
    Cardinality(fetches \cap {<<u, v>>})
    + Queued(u, v, {"blobFetched", "blobFetchFailed"})

(***************************************************************************)
(* An envelope's outcome carries no message number, so the manager relies  *)
(* on one envelope, and one card fetch, under way for a peer, just when    *)
(* its state says so (beginState, transitionState, endState), with the     *)
(* app's thread and the pump both starting them; and no state is waited in *)
(* without an event to come that ends it.                                  *)
(***************************************************************************)
OneStepPerPeer ==
    \A u, v \in User :
        /\ EnvelopesOut(u, v) = IF states[u][v] = "sendingEnvelope"
                                THEN 1 ELSE 0
        /\ FetchesOut(u, v) = IF states[u][v] = "fetchingCard" THEN 1 ELSE 0
        /\ states[u][v] = "dialing" =>
             \/ <<u, v>> \in dials
             \/ Queued(u, v, {"connected", "dialFailed"}) > 0

InOutbox(id) == \E u \in User : \E i \in DOMAIN outbox[u] : outbox[u][i].id = id

(***************************************************************************)
(* Once sendMessage has saved a message it is in the outbox until an       *)
(* envelope with it has reached the peer's node, over failures, new        *)
(* connections and restarts (removeOutboxItem on envelopeDelivered takes   *)
(* the first item, whatever it is).  A user whose app called while the     *)
(* pump was saving the same file is left out: there one of the two saves   *)
(* is lost.                                                                *)
(***************************************************************************)
QueuedUntilDelivered ==
    (\A u \in User : ~Overlapped(u)) =>
        \A id \in queued : InOutbox(id) \/ id \in arrived

(***************************************************************************)
(* An envelope is shown at most once, though the mailbox never removes     *)
(* what it answers with and every sweep asks again: the session saved      *)
(* after decrypt refuses it (handleIncomingContinuing,                     *)
(* handleRetrievedContinuing), and a new handshake replaces the secret.    *)
(***************************************************************************)
EachEnvelopeShownOnce ==
    \A e \in BagToSet(shown) : shown[e] > 1 => Overlapped(e.to)

HandshakeFrom(u, v) == handshakes[u][v] > 0

(***************************************************************************)
(* A receiver gives up an envelope (the NSLog lines of ChatManager) only   *)
(* for a cause the code has: it is the user's own, kept under the tag the  *)
(* pair shares; it was shown before; it was opened before, and the app     *)
(* died after it had saved the session and before it showed the message;   *)
(* both users started a handshake and each replaced the other's session;   *)
(* the handshake itself was lost with the connection or a restart; another *)
(* contact used the same card, and its one-time prekey; or two threads of  *)
(* the sender saved one session.  In every other case both sides hold the  *)
(* same secret, and the envelope's key has not been used.                  *)
(***************************************************************************)
DropsHaveACause ==
    \A u \in User : \A e \in dropped[u] :
        \/ e.from = u
        \/ BagIn(e, shown)
        \/ e \in unshown
        \/ HandshakeFrom(u, e.from) /\ HandshakeFrom(e.from, u)
        \/ Fault(e.from, u, "handshake lost") \in faults
        \/ \E w \in User \ {e.from} : HandshakeFrom(w, u)
        \/ Overlapped(e.from)

=============================================================================
