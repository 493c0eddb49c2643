---------------------------- MODULE NodeRequests ----------------------------
(***************************************************************************)
(* The requests an app makes of its node, from the call at the FFI boundary*)
(* to the event that answers it: the command queue and the event loop of   *)
(* run_event_loop, the commands it holds back until the first connection,  *)
(* the Pending tables that remember what each DHT query or request is for, *)
(* and the handlers of what libp2p reports.                                *)
(*                                                                         *)
(* libp2p is the environment.  It gives each DHT query and each request an *)
(* identifier no other of its kind has; the model takes the serial number  *)
(* of the call.  The swarm's own state is `working`, `dialing`, `links`    *)
(* and `addresses`.  Ledger and mix commands are in NodeLedger, Mailbox    *)
(* and MixNetwork.                                                         *)
(***************************************************************************)
EXTENDS Naturals, Sequences, FiniteSets

CONSTANTS
    Peers,           \* the other nodes
    Kinds,           \* the kinds of call the app makes, among Commands
    MaxCalls,        \* bound: calls the app makes in one run
    MaxLinks         \* bound: connections open to one peer at a time

DhtCommands ==
    {"ResolvePeerAddresses", "AnnounceAddresses", "AnnounceUsername",
     "ResolveUsername"}
RequestCommands == {"SendEnvelope", "FetchBlob"}
LocalCommands == {"QueryUsernameOwner", "QueryChainTip"}
Commands ==
    DhtCommands \cup RequestCommands \cup LocalCommands
      \cup {"Dial", "ReserveRelaySlot", "Shutdown"}

ASSUME RequestsAssumption ==
    /\ Kinds \subseteq Commands
    /\ MaxCalls \in Nat
    /\ MaxLinks \in Nat

(***************************************************************************)
(* The tables of Pending (those of chain sync are in NodeLedger), and the  *)
(* one each command uses.                                                  *)
(***************************************************************************)
Tables ==
    {"resolve_peer", "announce", "resolve_username", "announce_username",
     "envelope_send", "blob_fetch"}

TableOf(kind) ==
    CASE kind = "ResolvePeerAddresses" -> "resolve_peer"
      [] kind = "AnnounceAddresses"    -> "announce"
      [] kind = "ResolveUsername"      -> "resolve_username"
      [] kind = "AnnounceUsername"     -> "announce_username"
      [] kind = "SendEnvelope"         -> "envelope_send"
      [] OTHER                         -> "blob_fetch"

Serials == 1..MaxCalls
NoDial == MaxCalls + 1      \* nobody is dialling the peer
ByTheSwarm == 0             \* a behaviour dials it: a query, a request

VARIABLES
    calls,       \* what the app asked for, in order: [kind, peer, known]
    loop,        \* "running", or "stopped" once Shutdown broke it
    commands,    \* serials in the command channel
    dht_ready,   \* a connection has been established since the start
    deferred,    \* serials in deferred_commands
    pending,     \* the tables: serials by table
    answers,     \* how many events answered each serial (history)
    silent,      \* serials whose failure no event reports (history)
    met,         \* a peer has been connected since the start (history)
    working,     \* serials of queries, requests, reservations in progress
    dialing,     \* by peer: the serial that dials it, ByTheSwarm or NoDial
    links,       \* by peer: open connections
    addresses    \* peers with an address in the routing table

app == <<calls, answers, silent, met>>
swarm == <<working, dialing, links, addresses>>
vars == <<calls, loop, commands, dht_ready, deferred, pending, answers,
          silent, met, working, dialing, links, addresses>>

Call == [kind: Kinds, peer: Peers, known: BOOLEAN]
Kind(s) == calls[s].kind
Elements(q) == {q[i] : i \in DOMAIN q}

Init ==
    /\ calls = <<>>
    /\ loop = "running"
    /\ commands = <<>> /\ deferred = <<>>
    /\ dht_ready = FALSE
    /\ pending = [t \in Tables |-> {}]
    /\ answers = [s \in Serials |-> 0]
    /\ silent = {} /\ met = FALSE
    /\ working = {}
    /\ dialing = [p \in Peers |-> NoDial]
    /\ links = [p \in Peers |-> 0]
    /\ addresses = {}

-----------------------------------------------------------------------------
(* The app's side: a call goes into the command channel, or fails once     *)
(* the loop is gone and has dropped the receiver.                          *)

Send(kind, p, known) ==
    /\ loop = "running"
    /\ Len(calls) < MaxCalls
    /\ calls' = Append(calls, [kind |-> kind, peer |-> p, known |-> known])
    /\ commands' = Append(commands, Len(calls) + 1)
    /\ UNCHANGED <<loop, dht_ready, deferred, pending, answers, silent, met>>
    /\ UNCHANGED swarm

-----------------------------------------------------------------------------
(* What handle_command does with one command.  A put_record the local      *)
(* store refuses returns an error nobody is told of; get_record and        *)
(* send_request always start.                                              *)

MayBeRefused(s) == Kind(s) \in {"AnnounceAddresses", "AnnounceUsername"}

Asks(S, t) == {s \in S : TableOf(Kind(s)) = t}

AskDht(S, refused) ==
    /\ pending' = [t \in Tables |-> pending[t] \cup Asks(S \ refused, t)]
    /\ working' = working \cup (S \ refused)
    /\ silent' = silent \cup refused

HandleDht(s) ==
    /\ Kind(s) \in DhtCommands
    /\ \E refused \in SUBSET {s} :
         /\ refused # {} => MayBeRefused(s)
         /\ AskDht({s}, refused)
    /\ UNCHANGED <<answers, dialing, addresses>>

HandleRequest(s) ==
    /\ Kind(s) \in RequestCommands
    /\ pending' = [t \in Tables |-> pending[t] \cup Asks({s}, t)]
    /\ working' = working \cup {s}
    /\ UNCHANGED <<answers, silent, dialing, addresses>>

HandleLocal(s) ==
    /\ Kind(s) \in LocalCommands
    /\ answers' = [answers EXCEPT ![s] = @ + 1]
    /\ UNCHANGED <<pending, silent, working, dialing, addresses>>

(* The swarm refuses to dial a peer that is connected or being dialled, or *)
(* that it has no address for: DialFailed is sent at once.                 *)
HandleDial(s) ==
    LET p == calls[s].peer IN
    /\ Kind(s) = "Dial"
    /\ addresses' = IF calls[s].known THEN addresses \cup {p} ELSE addresses
    /\ \/ /\ links[p] = 0 /\ dialing[p] = NoDial /\ p \in addresses'
          /\ dialing' = [dialing EXCEPT ![p] = s]
          /\ UNCHANGED answers
       \/ /\ links[p] > 0 \/ dialing[p] # NoDial \/ p \notin addresses'
          /\ answers' = [answers EXCEPT ![s] = @ + 1]
          /\ UNCHANGED dialing
    /\ UNCHANGED <<pending, silent, working>>

HandleReserve(s) ==
    /\ Kind(s) = "ReserveRelaySlot"
    /\ \/ answers' = [answers EXCEPT ![s] = @ + 1] /\ UNCHANGED working
       \/ working' = working \cup {s} /\ UNCHANGED answers
    /\ UNCHANGED <<pending, silent, dialing, addresses>>

Handle(s) ==
    \/ HandleDht(s)
    \/ HandleRequest(s)
    \/ HandleLocal(s)
    \/ HandleDial(s)
    \/ HandleReserve(s)

-----------------------------------------------------------------------------
(* The loop's command branch.                                              *)

(* Mutant: one of the commands that need the DHT is not in the list.       *)
NeedsDhtPeerButOne(kind) == kind \in DhtCommands \ {"AnnounceUsername"}
NeedsDhtPeer(kind) == kind \in DhtCommands

ShutDown ==
    /\ loop = "running" /\ commands # <<>>
    /\ Kind(Head(commands)) = "Shutdown"
    /\ loop' = "stopped"
    /\ commands' = <<>> /\ deferred' = <<>>
    /\ pending' = [t \in Tables |-> {}]
    /\ working' = {}
    /\ dialing' = [p \in Peers |-> NoDial]
    /\ links' = [p \in Peers |-> 0]
    /\ addresses' = {}
    /\ UNCHANGED <<calls, dht_ready, answers, silent, met>>

Defer ==
    /\ loop = "running" /\ commands # <<>>
    /\ ~dht_ready /\ NeedsDhtPeer(Kind(Head(commands)))
    /\ deferred' = Append(deferred, Head(commands))
    /\ commands' = Tail(commands)
    /\ UNCHANGED <<calls, loop, dht_ready, pending, answers, silent, met>>
    /\ UNCHANGED swarm

TakeCommand ==
    /\ loop = "running" /\ commands # <<>>
    /\ Kind(Head(commands)) # "Shutdown"
    /\ dht_ready \/ ~NeedsDhtPeer(Kind(Head(commands)))
    /\ Handle(Head(commands))
    /\ commands' = Tail(commands)
    /\ UNCHANGED <<calls, loop, dht_ready, deferred, met, links>>

CommandBranch == ShutDown \/ Defer \/ TakeCommand

-----------------------------------------------------------------------------
(* The loop's swarm branch: connections.                                   *)

(* Mutant: only the command deferred first is replayed.                    *)
FirstConnectionReplaysOne ==
    /\ dht_ready' = TRUE
    /\ \/ deferred = <<>> /\ UNCHANGED <<deferred, pending, working, silent>>
       \/ /\ deferred # <<>> /\ deferred' = Tail(deferred)
          /\ AskDht({Head(deferred)}, {})

(* The first connection of the run: the commands held back are handled, in *)
(* order, before the event itself.                                         *)
FirstConnection ==
    /\ dht_ready' = TRUE
    /\ deferred' = <<>>
    /\ \E refused \in SUBSET {s \in Elements(deferred) : MayBeRefused(s)} :
         AskDht(Elements(deferred), refused)

HoldBack ==
    \/ ~dht_ready /\ FirstConnection
    \/ dht_ready /\ UNCHANGED <<dht_ready, deferred, pending, working, silent>>

(* ConnectionEstablished, dialled by this node or by the peer.             *)
DialSucceeds(p) ==
    /\ loop = "running"
    /\ dialing[p] # NoDial /\ links[p] < MaxLinks
    /\ HoldBack
    /\ met' = TRUE
    /\ links' = [links EXCEPT ![p] = @ + 1]
    /\ dialing' = [dialing EXCEPT ![p] = NoDial]
    /\ answers' = [s \in Serials |->
                     IF s = dialing[p] THEN answers[s] + 1 ELSE answers[s]]
    /\ UNCHANGED <<calls, loop, commands, addresses>>

PeerConnects(p) ==
    /\ loop = "running"
    /\ links[p] < MaxLinks
    /\ HoldBack
    /\ met' = TRUE
    /\ links' = [links EXCEPT ![p] = @ + 1]
    /\ UNCHANGED <<calls, loop, commands, answers, dialing, addresses>>

ConnectionClosed(p) ==
    /\ loop = "running"
    /\ links[p] > 0
    /\ links' = [links EXCEPT ![p] = @ - 1]
    /\ UNCHANGED <<calls, loop, commands, dht_ready, deferred, pending,
                   answers, silent, met, working, dialing, addresses>>

OutgoingConnectionError(p) ==
    /\ loop = "running"
    /\ dialing[p] # NoDial
    /\ dialing' = [dialing EXCEPT ![p] = NoDial]
    /\ answers' = [s \in Serials |->
                     IF s = dialing[p] THEN answers[s] + 1 ELSE answers[s]]
    /\ UNCHANGED <<calls, loop, commands, dht_ready, deferred, pending,
                   silent, met, working, links, addresses>>

(* A query or a request makes the swarm dial by itself.                    *)
SwarmDials(p) ==
    /\ loop = "running"
    /\ working # {} /\ links[p] = 0 /\ dialing[p] = NoDial
    /\ dialing' = [dialing EXCEPT ![p] = ByTheSwarm]
    /\ UNCHANGED <<calls, loop, commands, dht_ready, deferred, pending,
                   answers, silent, met, working, links, addresses>>

(* identify names a connected peer's addresses, mDNS those of a neighbour. *)
LearnAddress(p) ==
    /\ loop = "running"
    /\ p \notin addresses
    /\ addresses' = addresses \cup {p}
    /\ UNCHANGED <<calls, loop, commands, dht_ready, deferred, pending,
                   answers, silent, met, working, dialing, links>>

-----------------------------------------------------------------------------
(* The loop's swarm branch: what a query or a request comes to.  Only the  *)
(* event that finds its entry answers the app.                             *)

(* Mutant: the entry is looked up and left in its table.                   *)
AnswerKeepingEntry(s, entries) ==
    /\ \/ /\ s \in UNION {pending[t] : t \in entries}
          /\ answers' = [answers EXCEPT ![s] = @ + 1]
       \/ /\ s \notin UNION {pending[t] : t \in entries}
          /\ UNCHANGED answers
    /\ UNCHANGED pending

Answer(s, entries) ==
    /\ \/ /\ s \in UNION {pending[t] : t \in entries}
          /\ answers' = [answers EXCEPT ![s] = @ + 1]
       \/ /\ s \notin UNION {pending[t] : t \in entries}
          /\ UNCHANGED answers
    /\ pending' = [t \in Tables |->
                     IF t \in entries THEN pending[t] \ {s} ELSE pending[t]]

Gets == {"resolve_peer", "resolve_username"}
Puts == {"announce", "announce_username"}

Rest == <<calls, loop, commands, dht_ready, deferred, silent, met, dialing,
          links, addresses>>

(* A get_record query may find the record several times.                   *)
FoundRecord(s) ==
    /\ s \in working /\ TableOf(Kind(s)) \in Gets /\ Kind(s) \in DhtCommands
    /\ Answer(s, Gets)
    /\ UNCHANGED <<working, Rest>>

(* It ends with no further record, which is ignored, or with an error,     *)
(* even after a record was found (a timeout).                              *)
GetRecordFinished(s) ==
    /\ s \in working /\ TableOf(Kind(s)) \in Gets /\ Kind(s) \in DhtCommands
    /\ s \notin pending[TableOf(Kind(s))]
    /\ working' = working \ {s}
    /\ UNCHANGED <<pending, answers, Rest>>

GetRecordError(s) ==
    /\ s \in working /\ TableOf(Kind(s)) \in Gets /\ Kind(s) \in DhtCommands
    /\ Answer(s, Gets)
    /\ working' = working \ {s}
    /\ UNCHANGED Rest

PutRecordDone(s) ==
    /\ s \in working /\ Kind(s) \in DhtCommands /\ TableOf(Kind(s)) \in Puts
    /\ Answer(s, Puts)
    /\ working' = working \ {s}
    /\ UNCHANGED Rest

(* A response, or an outbound failure.                                     *)
EnvelopeDone(s) ==
    /\ s \in working /\ Kind(s) = "SendEnvelope"
    /\ Answer(s, {"envelope_send"})
    /\ working' = working \ {s}
    /\ UNCHANGED Rest

BlobDone(s) ==
    /\ s \in working /\ Kind(s) = "FetchBlob"
    /\ Answer(s, {"blob_fetch"})
    /\ working' = working \ {s}
    /\ UNCHANGED Rest

(* A reservation accepted is a new listen address; a closed listener is    *)
(* one of the swarm events nothing handles.                                *)
Reserved(s) ==
    /\ s \in working /\ Kind(s) = "ReserveRelaySlot"
    /\ answers' = [answers EXCEPT ![s] = @ + 1]
    /\ working' = working \ {s}
    /\ UNCHANGED <<pending, Rest>>

ReservationClosed(s) ==
    /\ s \in working /\ Kind(s) = "ReserveRelaySlot"
    /\ silent' = silent \cup {s}
    /\ working' = working \ {s}
    /\ UNCHANGED <<calls, loop, commands, dht_ready, deferred, pending,
                   answers, met, dialing, links, addresses>>

Ends(s) ==
    \/ GetRecordFinished(s) \/ GetRecordError(s) \/ PutRecordDone(s)
    \/ EnvelopeDone(s) \/ BlobDone(s)
    \/ Reserved(s) \/ ReservationClosed(s)

SwarmBranch ==
    \/ \E p \in Peers :
         \/ DialSucceeds(p) \/ PeerConnects(p) \/ ConnectionClosed(p)
         \/ OutgoingConnectionError(p) \/ SwarmDials(p) \/ LearnAddress(p)
    \/ \E s \in working : FoundRecord(s) \/ Ends(s)

AppCalls ==
    \E kind \in Kinds, p \in Peers, known \in BOOLEAN :
      /\ kind # "Dial" => ~known
      /\ Send(kind, p, known)

Next == AppCalls \/ CommandBranch \/ SwarmBranch

Spec == Init /\ [][Next]_vars

(***************************************************************************)
(* tokio::select! takes a ready branch at random, so a waiting command is  *)
(* taken; every query, request, dial and reservation has a timeout.        *)
(***************************************************************************)
FairSpec ==
    /\ Spec
    /\ WF_vars(CommandBranch)
    /\ \A s \in Serials : WF_vars(s \in working /\ Ends(s))
    /\ \A p \in Peers : WF_vars(DialSucceeds(p) \/ OutgoingConnectionError(p))

-----------------------------------------------------------------------------
(* What an answered call can be, and where one can be before its answer.   *)

Answerable(s) == Kind(s) # "Shutdown"
Pending == UNION {pending[t] : t \in Tables}
Dialled == {dialing[p] : p \in Peers} \cap Serials
Reserving == {s \in working : Kind(s) = "ReserveRelaySlot"}
Answered == {s \in Serials : answers[s] > 0}

Places == <<Elements(commands), Elements(deferred), Pending, Dialled,
            Reserving, Answered, silent>>

TypeOK ==
    /\ calls \in Seq(Call) /\ Len(calls) <= MaxCalls
    /\ loop \in {"running", "stopped"}
    /\ commands \in Seq(Serials) /\ deferred \in Seq(Serials)
    /\ dht_ready \in BOOLEAN /\ met \in BOOLEAN
    /\ pending \in [Tables -> SUBSET Serials]
    /\ answers \in [Serials -> Nat]
    /\ silent \subseteq Serials
    /\ working \subseteq Serials
    /\ dialing \in [Peers -> Serials \cup {ByTheSwarm, NoDial}]
    /\ links \in [Peers -> 0..MaxLinks]
    /\ addresses \subseteq Peers

(***************************************************************************)
(* Every call the node accepted is in exactly one place: still queued, or  *)
(* held back, or waiting for the swarm, or answered by exactly one event,  *)
(* or among the failures the code reports to nobody (a put_record the      *)
(* local store refuses, a reservation whose listener closes).  No call is  *)
(* lost between the queue, deferred_commands and the Pending tables, and   *)
(* none is answered twice although a DHT query reports several times.      *)
(***************************************************************************)
EachCallHasOneFate ==
    /\ \A s \in Serials : answers[s] <= 1
    /\ \A i, j \in DOMAIN Places :
         i # j => Places[i] \cap Places[j] = {}
    /\ loop = "running" =>
         \A s \in DOMAIN calls : \E i \in DOMAIN Places : s \in Places[i]

(***************************************************************************)
(* A DHT command is never asked before the node has met a peer, none is    *)
(* still held back after that, and DHT commands are asked in the order of  *)
(* the calls, those held back first (run_event_loop, needs_dht_peer).      *)
(***************************************************************************)
DhtWaitsForAPeerInOrder ==
    LET waiting == Elements(commands) \cup Elements(deferred)
        dht == {s \in DOMAIN calls : Kind(s) \in DhtCommands}
        asked == IF loop = "running" THEN dht \ waiting ELSE {}
    IN  /\ asked # {} => met
        /\ deferred # <<>> => ~met
        /\ \A s \in asked, w \in dht \cap waiting : s < w

(***************************************************************************)
(* Once the node has met a peer, every call gets its answer, unless it is  *)
(* one of the silent failures or the node is shut down.                    *)
(***************************************************************************)
EveryCallIsAnswered ==
    \A s \in Serials :
      (s \in DOMAIN calls /\ met)
        ~> (s \in Answered \cup silent \/ loop = "stopped")

=============================================================================
