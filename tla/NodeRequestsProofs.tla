-------------------------- MODULE NodeRequestsProofs --------------------------
(* Proofs about NodeRequests: no call is lost or answered twice, for every  *)
(* number of calls and peers.                                               *)
EXTENDS NodeRequests, TLAPS

(* Serials below this one have left the command channel.                    *)
Taken == Len(calls) - Len(commands)

(* The channel holds the newest calls, in order.                            *)
QueueIsNewest ==
    /\ Len(commands) <= Len(calls)
    /\ \A i \in 1..Len(commands) : commands[i] = Taken + i

(* What is held back is every DHT command taken before the first connection.*)
HeldBackAreDht ==
    /\ dht_ready = met
    /\ \A s \in Serials :
         s \in Elements(deferred) <=>
           /\ loop = "running" /\ ~dht_ready
           /\ s \in 1..Taken /\ Kind(s) \in DhtCommands

InTable(s) == \E t \in Tables : s \in pending[t]
InDial(s) == \E p \in Peers : dialing[p] = s
InReservation(s) == s \in working /\ Kind(s) = "ReserveRelaySlot"
UnderWay(s) == InTable(s) \/ InDial(s) \/ InReservation(s)

(* An entry of a table is a query or request in progress of that table.     *)
EntriesInProgress ==
    \A t \in Tables : \A s \in pending[t] :
      /\ s \in working
      /\ TableOf(Kind(s)) = t
      /\ Kind(s) \in DhtCommands \cup RequestCommands

(* A dial of the app's is the app's call for that peer.                     *)
DialsAreCalls ==
    \A p \in Peers :
      dialing[p] \in Serials =>
        Kind(dialing[p]) = "Dial" /\ calls[dialing[p]].peer = p

(* Only what was taken, and is not held back, is anywhere.                  *)
OnlyTaken ==
    \A s \in Serials :
      s \in working \/ InDial(s) \/ s \in silent \/ answers[s] > 0 =>
        s \in 1..Taken /\ s \notin Elements(deferred)

(* What is under way has no answer yet.                                     *)
NoAnswerYet ==
    \A s \in Serials :
      /\ answers[s] \in {0, 1}
      /\ UnderWay(s) => answers[s] = 0 /\ s \notin silent
      /\ s \in silent => answers[s] = 0

NothingForgotten ==
    loop = "running" =>
      \A s \in Serials :
        s \in 1..Taken =>
          \/ s \in Elements(deferred) \/ UnderWay(s)
          \/ answers[s] > 0 \/ s \in silent

Queues == QueueIsNewest /\ HeldBackAreDht
Fates == EntriesInProgress /\ DialsAreCalls /\ OnlyTaken /\ NoAnswerYet
           /\ NothingForgotten
IInv == TypeOK /\ Queues /\ Fates

-----------------------------------------------------------------------------
(* The members of a queue are what stands at its places.                    *)
LEMMA ElementsOf ==
    ASSUME NEW q \in Seq(Serials)
    PROVE  \A s : s \in Elements(q) <=> \E i \in 1..Len(q) : q[i] = s
<1>1. DOMAIN q = 1..Len(q)
  OBVIOUS
<1>. QED
  BY <1>1 DEF Elements

(* The first call of the channel is the next one to take.                   *)
LEMMA HeadIsNext ==
    ASSUME TypeOK, QueueIsNewest, commands # <<>>
    PROVE  /\ Taken \in Nat /\ Taken + 1 \in DOMAIN calls
           /\ Head(commands) = Taken + 1
           /\ Head(commands) \in Serials
           /\ Tail(commands) \in Seq(Serials)
           /\ Len(Tail(commands)) = Len(commands) - 1
           /\ \A i \in 1..Len(Tail(commands)) :
                Tail(commands)[i] = commands[i + 1]
<1>1. commands \in Seq(Serials) /\ calls \in Seq(Call)
  BY DEF TypeOK
<1>2. Len(commands) \in Nat /\ Len(commands) > 0 /\ Len(calls) \in Nat
  BY <1>1
<1>3. Head(commands) = commands[1]
  BY <1>1, <1>2
<1>4. Head(commands) = Taken + 1 /\ Taken \in Nat /\ Taken + 1 \in 1..Len(calls)
  BY <1>2, <1>3 DEF QueueIsNewest, Taken
<1>5. Head(commands) \in Serials /\ Tail(commands) \in Seq(Serials)
      /\ Len(Tail(commands)) = Len(commands) - 1
      /\ \A i \in 1..Len(Tail(commands)) :
                Tail(commands)[i] = commands[i + 1]
  BY <1>1, <1>2
<1>. QED
  BY <1>1, <1>4, <1>5

(* Taking it keeps the channel the newest calls.                            *)
LEMMA QueueAfterTaking ==
    ASSUME TypeOK, QueueIsNewest, commands # <<>>,
           commands' = Tail(commands), calls' = calls
    PROVE  QueueIsNewest' /\ Taken' = Taken + 1
<1>1. Len(commands) \in Nat /\ Len(calls) \in Nat
  BY DEF TypeOK
<1>. QED
  BY <1>1, HeadIsNext DEF QueueIsNewest, Taken

(* The queues do not change when none of what they are made of does.        *)
LEMMA QueuesStay ==
    ASSUME Queues,
           UNCHANGED <<calls, loop, commands, deferred, dht_ready, met>>
    PROVE  Queues'
  BY DEF Queues, QueueIsNewest, HeldBackAreDht, Taken, Kind, Elements

-----------------------------------------------------------------------------
(* The node starts with nothing asked.                                      *)
LEMMA InitIInv ==
    ASSUME Init, RequestsAssumption
    PROVE  IInv
<1>1. TypeOK
  <2>1. /\ calls \in Seq(Call) /\ Len(calls) <= MaxCalls
        /\ commands \in Seq(Serials) /\ deferred \in Seq(Serials)
    BY DEF Init, RequestsAssumption
  <2>2. /\ pending \in [Tables -> SUBSET Serials]
        /\ answers \in [Serials -> Nat]
        /\ dialing \in [Peers -> Serials \cup {ByTheSwarm, NoDial}]
        /\ links \in [Peers -> 0..MaxLinks]
    BY DEF Init, RequestsAssumption
  <2>3. /\ loop \in {"running", "stopped"}
        /\ dht_ready \in BOOLEAN /\ met \in BOOLEAN
        /\ silent \subseteq Serials /\ working \subseteq Serials
        /\ addresses \subseteq Peers
    BY DEF Init
  <2>. QED  BY <2>1, <2>2, <2>3 DEF TypeOK
<1>2. Queues
  <2>1. Elements(deferred) = {} /\ Taken = 0
    BY DEF Init, Elements, Taken
  <2>3. dht_ready = met
    BY DEF Init
  <2>2. QueueIsNewest
    BY DEF Init, QueueIsNewest
  <2>. QED  BY <2>1, <2>2, <2>3 DEF Queues, HeldBackAreDht
<1>3. Fates
  BY DEF Init, Fates, EntriesInProgress, DialsAreCalls, OnlyTaken, NoAnswerYet,
         NothingForgotten, UnderWay, InTable, InDial, InReservation, Serials,
         NoDial, Taken, Elements, RequestsAssumption
<1>. QED
  BY <1>1, <1>2, <1>3 DEF IInv

(* A call goes to the end of the channel.                                   *)
LEMMA SendKeeps ==
    ASSUME IInv, RequestsAssumption, NEW kind \in Kinds, NEW p \in Peers,
           NEW known \in BOOLEAN, Send(kind, p, known)
    PROVE  IInv'
<1>. USE DEF IInv
<1>. DEFINE call == [kind |-> kind, peer |-> p, known |-> known]
<1>1. /\ calls \in Seq(Call) /\ commands \in Seq(Serials) /\ call \in Call
      /\ Len(calls) \in Nat /\ Len(calls) < MaxCalls /\ MaxCalls \in Nat
  BY DEF TypeOK, Send, Call, RequestsAssumption
<1>2. /\ calls' = Append(calls, call)
      /\ commands' = Append(commands, Len(calls) + 1)
      /\ UNCHANGED <<loop, dht_ready, deferred, pending, answers, silent, met,
                     working, dialing, links, addresses>>
  BY DEF Send, swarm
<1>3. /\ calls' \in Seq(Call) /\ Len(calls') = Len(calls) + 1
      /\ \A s \in 1..Len(calls) : calls'[s] = calls[s]
      /\ commands' \in Seq(Serials) /\ Len(commands') = Len(commands) + 1
      /\ \A i \in 1..Len(commands) : commands'[i] = commands[i]
      /\ commands'[Len(commands) + 1] = Len(calls) + 1
  <2>. HIDE DEF call
  <2>. QED  BY <1>1, <1>2 DEF Serials
<1>4. TypeOK'
  BY <1>1, <1>2, <1>3 DEF TypeOK
<1>5. Taken' = Taken /\ Taken \in Nat
  BY <1>1, <1>3 DEF Taken, Queues, QueueIsNewest
<1>6. QueueIsNewest'
  BY <1>1, <1>3, <1>5 DEF QueueIsNewest, Queues, Taken
<1>7. /\ \A s \in 1..Taken : Kind(s)' = Kind(s) /\ calls'[s] = calls[s]
      /\ \A s : (s \in Elements(deferred))' <=> s \in Elements(deferred)
  BY <1>1, <1>2, <1>3, <1>5 DEF Kind, Elements, Taken, Queues, QueueIsNewest
<1>8. HeldBackAreDht'
  BY <1>2, <1>5, <1>7 DEF HeldBackAreDht, Queues
<1>9. \A s \in Serials : s \in working \/ InDial(s) => s \in 1..Taken
  BY DEF Fates, OnlyTaken
<1>10. \A s \in Serials :
         /\ InTable(s)' <=> InTable(s)
         /\ InDial(s)' <=> InDial(s)
         /\ InReservation(s)' <=> InReservation(s)
  <2>1. \A s \in Serials : InReservation(s)' <=> InReservation(s)
    BY <1>2, <1>7, <1>9 DEF InReservation
  <2>2. \A s \in Serials : InTable(s)' <=> InTable(s)
    BY <1>2 DEF InTable
  <2>3. \A s \in Serials : InDial(s)' <=> InDial(s)
    BY <1>2 DEF InDial
  <2>. QED  BY <2>1, <2>2, <2>3
<1>11. EntriesInProgress'
  BY <1>2, <1>7, <1>9 DEF EntriesInProgress, Fates, TypeOK
<1>12. DialsAreCalls'
  BY <1>2, <1>7, <1>9 DEF DialsAreCalls, Fates, InDial
<1>13. OnlyTaken'
  BY <1>2, <1>5, <1>7, <1>10 DEF OnlyTaken, Fates
<1>14. NoAnswerYet'
  BY <1>2, <1>10 DEF NoAnswerYet, Fates, UnderWay
<1>15. NothingForgotten'
  BY <1>1, <1>2, <1>3, <1>5, <1>7, <1>10
     DEF NothingForgotten, Fates, UnderWay, Serials, Taken
<1>. QED
  BY <1>4, <1>6, <1>8, <1>11, <1>12, <1>13, <1>14, <1>15 DEF Queues, Fates

-----------------------------------------------------------------------------
(* What has been taken off the channel, and nothing else, has been touched. *)
LEMMA HeadIsFresh ==
    ASSUME IInv, commands # <<>>
    PROVE  LET h == Head(commands) IN
           /\ h \in Serials /\ h \in DOMAIN calls
           /\ h \notin working /\ ~InTable(h) /\ ~InDial(h)
           /\ h \notin silent /\ answers[h] = 0
           /\ h \notin Elements(deferred)
<1>. DEFINE h == Head(commands)
<1>1. h = Taken + 1 /\ h \in Serials /\ h \in DOMAIN calls /\ Taken \in Nat
  BY HeadIsNext DEF IInv, Queues
<1>2. h \notin 1..Taken
  BY <1>1
<1>3. h \notin working /\ ~InDial(h) /\ h \notin silent /\ ~(answers[h] > 0)
  BY <1>1, <1>2 DEF IInv, Fates, OnlyTaken
<1>4. ~InTable(h)
  BY <1>3 DEF IInv, Fates, EntriesInProgress, InTable
<1>5. answers[h] = 0
  BY <1>1, <1>3 DEF IInv, Fates, NoAnswerYet
<1>6. h \notin Elements(deferred)
  BY <1>1, <1>2 DEF IInv, Queues, HeldBackAreDht
<1>. QED
  BY <1>1, <1>3, <1>4, <1>5, <1>6

(* Handling the next command, when it needs no peer or one has been met.    *)
LEMMA QueuesAfterHandling ==
    ASSUME IInv, commands # <<>>, commands' = Tail(commands),
           UNCHANGED <<calls, loop, dht_ready, deferred, met>>,
           dht_ready \/ Kind(Head(commands)) \notin DhtCommands
    PROVE  /\ Queues'
           /\ \A s : (s \in 1..Taken)' <=> s \in 1..Taken \/ s = Head(commands)
           /\ \A s : (s \in Elements(deferred))' <=> s \in Elements(deferred)
<1>1. /\ QueueIsNewest' /\ Taken' = Taken + 1
      /\ Taken \in Nat /\ Head(commands) = Taken + 1
  BY QueueAfterTaking, HeadIsNext DEF IInv, Queues
<1>2. \A s : s \in (1..Taken)' <=> s \in 1..Taken \/ s = Head(commands)
  BY <1>1
<1>3. \A s : (s \in Elements(deferred))' <=> s \in Elements(deferred)
  BY DEF Elements
<1>4. \A s \in Serials :
        s \in Elements(deferred) <=>
          /\ loop = "running" /\ ~dht_ready
          /\ s \in (1..Taken)' /\ Kind(s) \in DhtCommands
  BY <1>2 DEF IInv, Queues, HeldBackAreDht
<1>5. (dht_ready = met)'
  BY DEF IInv, Queues, HeldBackAreDht
<1>6. HeldBackAreDht'
  BY <1>3, <1>4, <1>5 DEF HeldBackAreDht, Kind
<1>. QED
  BY <1>1, <1>2, <1>3, <1>6 DEF Queues

-----------------------------------------------------------------------------
(* A step of the dials: none, or one ends and its call is answered.         *)
DialStep ==
    /\ DialsAreCalls'
    /\ \A s \in Serials :
         \/ (InDial(s)' <=> InDial(s)) /\ answers'[s] = answers[s]
         \/ InDial(s) /\ ~InDial(s)' /\ answers'[s] = 1

(* Nothing happens to the dials.                                            *)
LEMMA NoDialStep ==
    ASSUME IInv, UNCHANGED <<calls, dialing, answers>>
    PROVE  DialStep
  BY DEF IInv, Fates, DialStep, DialsAreCalls, InDial, Kind

DialEnds(p) ==
    /\ dialing[p] # NoDial
    /\ dialing' = [dialing EXCEPT ![p] = NoDial]
    /\ answers' = [s \in Serials |->
                     IF s = dialing[p] THEN answers[s] + 1 ELSE answers[s]]

(* A dial that ends, well or not, answers the call it was for.              *)
LEMMA DialEndsStep ==
    ASSUME IInv, RequestsAssumption, NEW p \in Peers, DialEnds(p),
           calls' = calls
    PROVE  /\ DialStep
           /\ dialing' \in [Peers -> Serials \cup {ByTheSwarm, NoDial}]
           /\ answers' \in [Serials -> Nat]
<1>1. NoDial \notin Serials
  BY DEF NoDial, Serials, RequestsAssumption
<1>2. /\ dialing \in [Peers -> Serials \cup {ByTheSwarm, NoDial}]
      /\ answers \in [Serials -> Nat]
  BY DEF IInv, TypeOK
<1>3. /\ dialing' \in [Peers -> Serials \cup {ByTheSwarm, NoDial}]
      /\ answers' \in [Serials -> Nat]
  BY <1>2 DEF DialEnds
<1>4. \A q \in Peers : dialing'[q] = IF q = p THEN NoDial ELSE dialing[q]
  BY <1>2 DEF DialEnds
<1>5. DialsAreCalls'
  BY <1>1, <1>4 DEF IInv, Fates, DialsAreCalls, Kind
<1>6. \A s \in Serials : s # dialing[p] =>
        (InDial(s)' <=> InDial(s)) /\ answers'[s] = answers[s]
  BY <1>1, <1>4 DEF InDial, DialEnds
<1>7. \A s \in Serials : s = dialing[p] =>
        InDial(s) /\ ~InDial(s)' /\ answers'[s] = 1
  <2>. SUFFICES ASSUME NEW s \in Serials, s = dialing[p]
                PROVE  InDial(s) /\ ~InDial(s)' /\ answers'[s] = 1
    OBVIOUS
  <2>1. InDial(s)
    BY DEF InDial
  <2>2. answers[s] = 0
    BY <2>1 DEF IInv, Fates, NoAnswerYet, UnderWay
  <2>3. \A q \in Peers : dialing[q] = s => q = p
    BY DEF IInv, Fates, DialsAreCalls
  <2>4. ~InDial(s)'
    BY <1>1, <1>4, <2>3 DEF InDial
  <2>. QED
    BY <2>1, <2>2, <2>4 DEF DialEnds
<1>. QED
  BY <1>3, <1>5, <1>6, <1>7 DEF DialStep

(* Queries and requests start for calls nothing has been done for yet.      *)
LEMMA AsksKeep ==
    ASSUME IInv, DialStep, UNCHANGED <<calls, loop>>,
           NEW S \in SUBSET Serials, NEW refused \in SUBSET S,
           AskDht(S, refused),
           \A s \in S :
             /\ s \notin working /\ ~InTable(s) /\ ~InDial(s)
             /\ s \notin silent /\ answers[s] = 0
             /\ Kind(s) \in DhtCommands \cup RequestCommands
             /\ (s \in 1..Taken)' /\ (s \notin Elements(deferred))',
           \A s \in Serials \ S :
             /\ (s \in 1..Taken)' <=> s \in 1..Taken
             /\ (s \in Elements(deferred))' <=> s \in Elements(deferred)
    PROVE  Fates'
<1>1. /\ pending' = [t \in Tables |-> pending[t] \cup Asks(S \ refused, t)]
      /\ working' = working \cup (S \ refused)
      /\ silent' = silent \cup refused
  BY DEF AskDht
<1>2. \A s : Kind(s)' = Kind(s)
  BY DEF Kind
<1>3. \A s \in S : TableOf(Kind(s)) \in Tables
  BY DEF TableOf, Tables, DhtCommands, RequestCommands
<1>4. \A s \in Serials : InTable(s)' <=> InTable(s) \/ s \in S \ refused
  BY <1>1, <1>3 DEF InTable, Asks
<1>5. \A s \in S : Kind(s) # "ReserveRelaySlot" /\ Kind(s) # "Dial"
  BY DEF DhtCommands, RequestCommands
<1>6. \A s \in Serials : InReservation(s)' <=> InReservation(s)
  BY <1>1, <1>2, <1>5 DEF InReservation
<1>7. \A s \in S : ~InDial(s)' /\ answers'[s] = 0 /\ ~InReservation(s)
  BY <1>5 DEF DialStep, InReservation
<1>8. \A s \in Serials : InDial(s) => Kind(s) = "Dial"
  BY DEF IInv, Fates, DialsAreCalls, InDial
<1>9. \A s \in Serials : InTable(s) \/ InReservation(s) => ~InDial(s)
  BY <1>8 DEF IInv, Fates, EntriesInProgress, InTable, InReservation,
              DhtCommands, RequestCommands
<1>10. EntriesInProgress'
  BY <1>1, <1>2 DEF IInv, Fates, EntriesInProgress, Asks
<1>11. OnlyTaken'
  BY <1>1, <1>7 DEF IInv, Fates, OnlyTaken, NoAnswerYet, UnderWay, DialStep
<1>12. NoAnswerYet'
  BY <1>1, <1>4, <1>6, <1>7, <1>9
     DEF IInv, Fates, NoAnswerYet, UnderWay, DialStep
<1>13. NothingForgotten'
  <2>. SUFFICES ASSUME loop = "running", NEW s \in Serials, (s \in 1..Taken)'
                PROVE  (\/ s \in Elements(deferred) \/ UnderWay(s)
                        \/ answers[s] > 0 \/ s \in silent)'
    BY DEF NothingForgotten
  <2>1. CASE s \in S
    BY <1>1, <1>4, <2>1 DEF UnderWay
  <2>2. CASE s \notin S
    <3>1. \/ s \in Elements(deferred) \/ UnderWay(s)
          \/ answers[s] > 0 \/ s \in silent
      BY <2>2 DEF IInv, Fates, NothingForgotten
    <3>. QED
      BY <3>1, <2>2, <1>1, <1>4, <1>6 DEF UnderWay, DialStep
  <2>. QED  BY <2>1, <2>2
<1>. QED
  BY <1>10, <1>11, <1>12, <1>13 DEF Fates, DialStep

-----------------------------------------------------------------------------
(* One action at a time.                                                    *)

(* Shutdown drops everything the loop holds.                                *)
LEMMA ShutDownKeeps ==
    ASSUME IInv, RequestsAssumption, ShutDown
    PROVE  IInv'
<1>1. /\ loop' = "stopped" /\ commands' = <<>> /\ deferred' = <<>>
      /\ pending' = [t \in Tables |-> {}] /\ working' = {}
      /\ dialing' = [p \in Peers |-> NoDial]
      /\ links' = [p \in Peers |-> 0] /\ addresses' = {}
      /\ UNCHANGED <<calls, dht_ready, answers, silent, met>>
  BY DEF ShutDown
<1>2. TypeOK'
  <2>1. /\ commands' \in Seq(Serials) /\ deferred' \in Seq(Serials)
        /\ pending' \in [Tables -> SUBSET Serials]
        /\ dialing' \in [Peers -> Serials \cup {ByTheSwarm, NoDial}]
        /\ links' \in [Peers -> 0..MaxLinks]
    BY <1>1 DEF RequestsAssumption
  <2>. QED  BY <1>1, <2>1 DEF IInv, TypeOK
<1>3. Elements(deferred)' = {} /\ Taken' = Len(calls) /\ Len(commands') = 0
      /\ Len(calls) \in Nat /\ Taken \in Nat /\ Taken <= Len(calls)
  BY <1>1 DEF Elements, Taken, IInv, TypeOK, Queues, QueueIsNewest
<1>4. Queues'
  <2>1. QueueIsNewest'
    BY <1>1, <1>3 DEF QueueIsNewest
  <2>2. (dht_ready = met)'
    BY <1>1 DEF IInv, Queues, HeldBackAreDht
  <2>. QED  BY <1>1, <1>3, <2>1, <2>2 DEF Queues, HeldBackAreDht
<1>5. NoDial \notin Serials
  BY DEF NoDial, Serials, RequestsAssumption
<1>6. \A s \in Serials : ~UnderWay(s)' /\ ~InDial(s)'
  BY <1>1, <1>5 DEF UnderWay, InTable, InDial, InReservation
<1>7. EntriesInProgress' /\ DialsAreCalls'
  BY <1>1, <1>5 DEF EntriesInProgress, DialsAreCalls
<1>8. OnlyTaken'
  BY <1>1, <1>3, <1>6 DEF OnlyTaken, IInv, Fates
<1>9. NoAnswerYet'
  BY <1>1, <1>6 DEF NoAnswerYet, IInv, Fates
<1>10. NothingForgotten'
  BY <1>1 DEF NothingForgotten
<1>. QED
  BY <1>2, <1>4, <1>7, <1>8, <1>9, <1>10 DEF IInv, Fates

(* A DHT command taken before the first connection is held back.            *)
LEMMA DeferKeeps ==
    ASSUME IInv, Defer
    PROVE  IInv'
<1>. DEFINE h == Head(commands)
<1>1. /\ commands # <<>> /\ loop = "running" /\ ~dht_ready
      /\ Kind(h) \in DhtCommands
      /\ deferred' = Append(deferred, h) /\ commands' = Tail(commands)
      /\ UNCHANGED <<calls, loop, dht_ready, pending, answers, silent, met>>
      /\ UNCHANGED <<working, dialing, links, addresses>>
  BY DEF Defer, NeedsDhtPeer, swarm
<1>2. /\ h \in Serials /\ h = Taken + 1 /\ Taken \in Nat
      /\ Tail(commands) \in Seq(Serials) /\ deferred \in Seq(Serials)
  BY <1>1, HeadIsNext DEF IInv, Queues, TypeOK
<1>3. /\ deferred' \in Seq(Serials) /\ Len(deferred') = Len(deferred) + 1
      /\ Len(deferred) \in Nat
      /\ \A i \in 1..Len(deferred) : deferred'[i] = deferred[i]
      /\ deferred'[Len(deferred) + 1] = h
  <2>. HIDE DEF h
  <2>. QED  BY <1>1, <1>2
<1>4. \A s : s \in Elements(deferred)' <=> s \in Elements(deferred) \/ s = h
  <2>. HIDE DEF h
  <2>1. \A s : s \in Elements(deferred) <=>
               \E i \in 1..Len(deferred) : deferred[i] = s
    BY <1>2, ElementsOf
  <2>2. \A s : s \in Elements(deferred') <=>
               \E i \in 1..Len(deferred') : deferred'[i] = s
    BY <1>3, ElementsOf
  <2>3. Elements(deferred)' = Elements(deferred')
    BY DEF Elements
  <2>4. \A s : s \in Elements(deferred) => s \in Elements(deferred')
    BY <1>3, <2>1, <2>2
  <2>5. h \in Elements(deferred')
    <3>1. Len(deferred) + 1 \in 1..Len(deferred')
      BY <1>3
    <3>. QED  BY <1>3, <2>2, <3>1
  <2>6. \A i \in 1..Len(deferred') :
          deferred'[i] = h \/ deferred'[i] \in Elements(deferred)
    <3>1. \A i \in 1..Len(deferred') :
            i \in 1..Len(deferred) \/ i = Len(deferred) + 1
      BY <1>3
    <3>2. \A i \in 1..Len(deferred) : deferred'[i] = deferred[i]
      BY <1>3
    <3>3. \A i \in 1..Len(deferred) : deferred[i] \in Elements(deferred)
      BY <2>1
    <3>4. deferred'[Len(deferred) + 1] = h
      BY <1>3
    <3>. QED  BY <3>1, <3>2, <3>3, <3>4
  <2>. QED  BY <2>2, <2>3, <2>4, <2>5, <2>6
<1>5. TypeOK'
  BY <1>1, <1>2, <1>3 DEF IInv, TypeOK
<1>6. QueueIsNewest' /\ Taken' = Taken + 1
  BY <1>1, QueueAfterTaking DEF IInv, Queues
<1>7. \A s : s \in (1..Taken)' <=> s \in 1..Taken \/ s = h
  BY <1>2, <1>6
<1>8. HeldBackAreDht'
  <2>1. (dht_ready = met)'
    BY <1>1 DEF IInv, Queues, HeldBackAreDht
  <2>2. \A s \in Serials :
          s \in Elements(deferred)' <=>
            s \in (1..Taken)' /\ Kind(s) \in DhtCommands
    BY <1>1, <1>4, <1>7 DEF IInv, Queues, HeldBackAreDht
  <2>. QED  BY <1>1, <2>1, <2>2 DEF HeldBackAreDht, Kind
<1>9. /\ h \notin working /\ ~InDial(h) /\ h \notin silent /\ answers[h] = 0
  BY <1>1, HeadIsFresh
<1>10. /\ \A s : (UnderWay(s)' <=> UnderWay(s)) /\ (InDial(s)' <=> InDial(s))
  BY <1>1 DEF UnderWay, InTable, InDial, InReservation, Kind
<1>11. EntriesInProgress' /\ DialsAreCalls'
  BY <1>1 DEF IInv, Fates, EntriesInProgress, DialsAreCalls, Kind
<1>12. OnlyTaken'
  BY <1>1, <1>4, <1>7, <1>9, <1>10 DEF IInv, Fates, OnlyTaken
<1>13. NoAnswerYet'
  BY <1>1, <1>10 DEF IInv, Fates, NoAnswerYet
<1>14. NothingForgotten'
  BY <1>1, <1>4, <1>7, <1>10 DEF IInv, Fates, NothingForgotten
<1>. QED
  BY <1>5, <1>6, <1>8, <1>11, <1>12, <1>13, <1>14 DEF IInv, Queues, Fates

(* Counting one more answer.                                                *)
LEMMA OneMoreAnswer ==
    ASSUME answers \in [Serials -> Nat], NEW h \in Serials,
           answers' = [answers EXCEPT ![h] = @ + 1]
    PROVE  answers' \in [Serials -> Nat]
  OBVIOUS

(* A fresh call answered at once.                                           *)
LEMMA AnsweredAtOnce ==
    ASSUME IInv, NEW h \in Serials,
           h \notin working, ~InTable(h), ~InDial(h), h \notin silent,
           answers[h] = 0, h \notin Elements(deferred),
           answers' = [answers EXCEPT ![h] = @ + 1],
           UNCHANGED <<calls, loop, pending, silent, working, dialing>>,
           \A s : (s \in 1..Taken)' <=> s \in 1..Taken \/ s = h,
           \A s : (s \in Elements(deferred))' <=> s \in Elements(deferred)
    PROVE  Fates'
<1>1. \A s : (UnderWay(s)' <=> UnderWay(s)) /\ (InDial(s)' <=> InDial(s))
  BY DEF UnderWay, InTable, InDial, InReservation, Kind
<1>2. ~UnderWay(h)
  BY DEF UnderWay, InReservation
<1>3. \A s \in Serials : answers'[s] = IF s = h THEN 1 ELSE answers[s]
  BY DEF IInv, TypeOK
<1>4. EntriesInProgress' /\ DialsAreCalls'
  BY DEF IInv, Fates, EntriesInProgress, DialsAreCalls, Kind
<1>5. OnlyTaken'
  BY <1>1, <1>3 DEF IInv, Fates, OnlyTaken
<1>6. NoAnswerYet'
  BY <1>1, <1>2, <1>3 DEF IInv, Fates, NoAnswerYet
<1>7. NothingForgotten'
  BY <1>1, <1>3 DEF IInv, Fates, NothingForgotten
<1>. QED
  BY <1>4, <1>5, <1>6, <1>7 DEF Fates

(* A fresh call whose dial begins.                                          *)
LEMMA CallDials ==
    ASSUME IInv, RequestsAssumption, NEW h \in Serials, NEW p \in Peers,
           Kind(h) = "Dial", calls[h].peer = p, dialing[p] = NoDial,
           h \notin working, ~InTable(h), ~InDial(h), h \notin silent,
           answers[h] = 0, h \notin Elements(deferred),
           dialing' = [dialing EXCEPT ![p] = h],
           UNCHANGED <<calls, loop, pending, silent, working, answers>>,
           \A s : (s \in 1..Taken)' <=> s \in 1..Taken \/ s = h,
           \A s : (s \in Elements(deferred))' <=> s \in Elements(deferred)
    PROVE  Fates'
<1>1. NoDial \notin Serials
  BY DEF NoDial, Serials, RequestsAssumption
<1>2. \A q \in Peers : dialing'[q] = IF q = p THEN h ELSE dialing[q]
  BY DEF IInv, TypeOK
<1>3. \A s \in Serials : InDial(s)' <=> InDial(s) \/ s = h
  BY <1>1, <1>2 DEF InDial
<1>4. \A s : /\ InTable(s)' <=> InTable(s)
             /\ InReservation(s)' <=> InReservation(s)
  BY DEF InTable, InReservation, Kind
<1>5. DialsAreCalls'
  BY <1>2 DEF IInv, Fates, DialsAreCalls, Kind
<1>6. EntriesInProgress'
  BY DEF IInv, Fates, EntriesInProgress, Kind
<1>7. OnlyTaken'
  BY <1>3 DEF IInv, Fates, OnlyTaken
<1>8. NoAnswerYet'
  BY <1>3, <1>4 DEF IInv, Fates, NoAnswerYet, UnderWay
<1>9. NothingForgotten'
  BY <1>3, <1>4 DEF IInv, Fates, NothingForgotten, UnderWay
<1>. QED
  BY <1>5, <1>6, <1>7, <1>8, <1>9 DEF Fates

(* A fresh call whose reservation begins.                                   *)
LEMMA CallReserves ==
    ASSUME IInv, NEW h \in Serials, Kind(h) = "ReserveRelaySlot",
           h \notin working, ~InTable(h), ~InDial(h), h \notin silent,
           answers[h] = 0, h \notin Elements(deferred),
           working' = working \cup {h},
           UNCHANGED <<calls, loop, pending, silent, dialing, answers>>,
           \A s : (s \in 1..Taken)' <=> s \in 1..Taken \/ s = h,
           \A s : (s \in Elements(deferred))' <=> s \in Elements(deferred)
    PROVE  Fates'
<1>1. \A s : (InTable(s)' <=> InTable(s)) /\ (InDial(s)' <=> InDial(s))
  BY DEF InTable, InDial
<1>2. \A s : InReservation(s)' <=> InReservation(s) \/ s = h
  BY DEF InReservation, Kind
<1>3. EntriesInProgress' /\ DialsAreCalls'
  BY DEF IInv, Fates, EntriesInProgress, DialsAreCalls, Kind
<1>4. OnlyTaken'
  BY <1>1 DEF IInv, Fates, OnlyTaken
<1>5. NoAnswerYet'
  BY <1>1, <1>2 DEF IInv, Fates, NoAnswerYet, UnderWay
<1>6. NothingForgotten'
  BY <1>1, <1>2 DEF IInv, Fates, NothingForgotten, UnderWay
<1>. QED
  BY <1>3, <1>4, <1>5, <1>6 DEF Fates

(* The commands that leave the channel for a query, a request, an answer, a *)
(* dial or a reservation.                                                   *)
LEMMA TakeCommandKeeps ==
    ASSUME IInv, RequestsAssumption, TakeCommand
    PROVE  IInv'
<1>. DEFINE h == Head(commands)
<1>1. /\ commands # <<>> /\ loop = "running"
      /\ dht_ready \/ Kind(h) \notin DhtCommands
      /\ commands' = Tail(commands)
      /\ UNCHANGED <<calls, loop, dht_ready, deferred, met, links>>
  BY DEF TakeCommand, NeedsDhtPeer
<1>2. /\ Queues'
      /\ \A s : (s \in 1..Taken)' <=> s \in 1..Taken \/ s = h
      /\ \A s : (s \in Elements(deferred))' <=> s \in Elements(deferred)
  BY <1>1, QueuesAfterHandling
<1>3. /\ h \in Serials /\ h \in DOMAIN calls
      /\ h \notin working /\ ~InTable(h) /\ ~InDial(h)
      /\ h \notin silent /\ answers[h] = 0
      /\ h \notin Elements(deferred)
  BY <1>1, HeadIsFresh
<1>4. commands' \in Seq(Serials) /\ answers \in [Serials -> Nat]
  BY <1>1, HeadIsNext DEF IInv, Queues, TypeOK
<1>5. \A s : Kind(s)' = Kind(s)
  BY <1>1 DEF Kind
<1>6. Handle(h)
  BY DEF TakeCommand
<1>. HIDE DEF h
<1>7. CASE HandleDht(h)
  <2>1. PICK refused \in SUBSET {h} : AskDht({h}, refused)
    BY <1>7 DEF HandleDht
  <2>2. Kind(h) \in DhtCommands /\ UNCHANGED <<answers, dialing, addresses>>
    BY <1>7 DEF HandleDht
  <2>3. TypeOK'
    BY <1>1, <1>3, <1>4, <2>1, <2>2 DEF IInv, TypeOK, AskDht, Asks
  <2>4. Fates'
    BY <1>1, <1>2, <1>3, <2>1, <2>2, NoDialStep, AsksKeep
  <2>. QED  BY <1>2, <2>3, <2>4 DEF IInv
<1>8. CASE HandleRequest(h)
  <2>1. /\ Kind(h) \in RequestCommands
        /\ UNCHANGED <<answers, silent, dialing, addresses>>
        /\ pending' = [t \in Tables |-> pending[t] \cup Asks({h}, t)]
        /\ working' = working \cup {h}
    BY <1>8 DEF HandleRequest
  <2>2. AskDht({h}, {})
    BY <2>1 DEF AskDht
  <2>3. TypeOK'
    BY <1>1, <1>3, <1>4, <2>1 DEF IInv, TypeOK, Asks
  <2>4. Fates'
    BY <1>1, <1>2, <1>3, <2>1, <2>2, NoDialStep, AsksKeep
  <2>. QED  BY <1>2, <2>3, <2>4 DEF IInv
<1>9. CASE HandleLocal(h)
  <2>1. /\ answers' = [answers EXCEPT ![h] = @ + 1]
        /\ UNCHANGED <<pending, silent, working, dialing, addresses>>
    BY <1>9 DEF HandleLocal
  <2>2. TypeOK'
    <3>1. answers' \in [Serials -> Nat]
      BY <1>3, <1>4, <2>1, OneMoreAnswer
    <3>. QED  BY <1>1, <1>4, <2>1, <3>1 DEF IInv, TypeOK
  <2>3. Fates'
    BY <1>1, <1>2, <1>3, <1>5, <2>1, AnsweredAtOnce
  <2>. QED  BY <1>2, <2>2, <2>3 DEF IInv
<1>10. CASE HandleDial(h)
  <2>. DEFINE p == calls[h].peer
  <2>1. /\ Kind(h) = "Dial" /\ p \in Peers /\ addresses' \subseteq Peers
        /\ UNCHANGED <<pending, silent, working>>
    <3>1. calls[h] \in Call
      BY <1>3 DEF IInv, TypeOK
    <3>2. p \in Peers
      BY <3>1 DEF Call
    <3>. QED  BY <1>10, <3>2 DEF HandleDial, IInv, TypeOK
  <2>2. CASE answers' = [answers EXCEPT ![h] = @ + 1] /\ UNCHANGED dialing
    <3>1. TypeOK'
      <4>1. answers' \in [Serials -> Nat]
        BY <1>3, <1>4, <2>2, OneMoreAnswer
      <4>. QED  BY <1>1, <1>4, <2>1, <2>2, <4>1 DEF IInv, TypeOK
    <3>2. Fates'
      BY <1>1, <1>2, <1>3, <1>5, <2>1, <2>2, AnsweredAtOnce
    <3>. QED  BY <1>2, <3>1, <3>2 DEF IInv
  <2>3. CASE /\ dialing[p] = NoDial
             /\ dialing' = [dialing EXCEPT ![p] = h]
             /\ UNCHANGED answers
    <3>1. TypeOK'
      BY <1>1, <1>3, <1>4, <2>1, <2>3 DEF IInv, TypeOK
    <3>2. Fates'
      BY <1>1, <1>2, <1>3, <1>5, <2>1, <2>3, CallDials
    <3>. QED  BY <1>2, <3>1, <3>2 DEF IInv
  <2>. QED  BY <1>10, <2>2, <2>3 DEF HandleDial
<1>11. CASE HandleReserve(h)
  <2>1. /\ Kind(h) = "ReserveRelaySlot"
        /\ UNCHANGED <<pending, silent, dialing, addresses>>
    BY <1>11 DEF HandleReserve
  <2>2. CASE answers' = [answers EXCEPT ![h] = @ + 1] /\ UNCHANGED working
    <3>1. TypeOK'
      <4>1. answers' \in [Serials -> Nat]
        BY <1>3, <1>4, <2>2, OneMoreAnswer
      <4>. QED  BY <1>1, <1>4, <2>1, <2>2, <4>1 DEF IInv, TypeOK
    <3>2. Fates'
      BY <1>1, <1>2, <1>3, <1>5, <2>1, <2>2, AnsweredAtOnce
    <3>. QED  BY <1>2, <3>1, <3>2 DEF IInv
  <2>3. CASE working' = working \cup {h} /\ UNCHANGED answers
    <3>1. TypeOK'
      BY <1>1, <1>3, <1>4, <2>1, <2>3 DEF IInv, TypeOK
    <3>2. Fates'
      BY <1>1, <1>2, <1>3, <1>5, <2>1, <2>3, CallReserves
    <3>. QED  BY <1>2, <3>1, <3>2 DEF IInv
  <2>. QED  BY <1>11, <2>2, <2>3 DEF HandleReserve
<1>. QED
  BY <1>6, <1>7, <1>8, <1>9, <1>10, <1>11 DEF Handle

-----------------------------------------------------------------------------
(* What the swarm reports.                                                  *)

(* The commands held back are DHT commands nothing has been done for yet.   *)
LEMMA HeldBackAreFresh ==
    ASSUME IInv, NEW s \in Elements(deferred)
    PROVE  /\ s \in Serials /\ s \in 1..Taken /\ ~dht_ready
           /\ s \notin working /\ ~InTable(s) /\ ~InDial(s)
           /\ s \notin silent /\ answers[s] = 0
           /\ Kind(s) \in DhtCommands
<1>1. s \in Serials
  BY ElementsOf DEF IInv, TypeOK
<1>2. s \in 1..Taken /\ ~dht_ready /\ Kind(s) \in DhtCommands
  BY <1>1 DEF IInv, Queues, HeldBackAreDht
<1>3. s \notin working /\ ~InDial(s) /\ s \notin silent /\ ~(answers[s] > 0)
  BY <1>1 DEF IInv, Fates, OnlyTaken
<1>4. ~InTable(s)
  BY <1>3 DEF IInv, Fates, EntriesInProgress, InTable
<1>5. answers[s] = 0
  BY <1>1, <1>3 DEF IInv, Fates, NoAnswerYet
<1>. QED
  BY <1>1, <1>2, <1>3, <1>4, <1>5

(* A connection: the first one replays what was held back.                  *)
LEMMA ConnectionKeeps ==
    ASSUME IInv, HoldBack, DialStep, met' = TRUE,
           UNCHANGED <<calls, loop, commands>>
    PROVE  /\ Queues' /\ Fates'
           /\ deferred' \in Seq(Serials) /\ dht_ready' \in BOOLEAN
           /\ pending' \in [Tables -> SUBSET Serials]
           /\ silent' \subseteq Serials /\ working' \subseteq Serials
<1>0. /\ deferred \in Seq(Serials) /\ pending \in [Tables -> SUBSET Serials]
      /\ silent \subseteq Serials /\ working \subseteq Serials
  BY DEF IInv, TypeOK
<1>1. QueueIsNewest' /\ Taken' = Taken
  BY DEF IInv, Queues, QueueIsNewest, Taken
<1>2. \A s : Kind(s)' = Kind(s)
  BY DEF Kind
<1>3. CASE ~dht_ready /\ FirstConnection
  <2>. DEFINE S == Elements(deferred)
  <2>1. PICK refused \in SUBSET {s \in S : MayBeRefused(s)} : AskDht(S, refused)
    BY <1>3 DEF FirstConnection
  <2>2. dht_ready' = TRUE /\ deferred' = <<>>
    BY <1>3 DEF FirstConnection
  <2>3. Elements(deferred)' = {}
    BY <2>2 DEF Elements
  <2>4. S \in SUBSET Serials /\ refused \in SUBSET S
    BY HeldBackAreFresh
  <2>5. dht_ready' = met'
    BY <2>2
  <2>6. \A s \in Serials : ~((loop = "running" /\ ~dht_ready)')
    BY <2>2
  <2>7. HeldBackAreDht'
    BY <2>3, <2>5, <2>6 DEF HeldBackAreDht
  <2>8. Fates'
    <3>1. \A s \in S :
            /\ s \notin working /\ ~InTable(s) /\ ~InDial(s)
            /\ s \notin silent /\ answers[s] = 0
            /\ Kind(s) \in DhtCommands \cup RequestCommands
            /\ (s \in 1..Taken)' /\ (s \notin Elements(deferred))'
      BY <1>1, <2>3, HeldBackAreFresh
    <3>2. \A s \in Serials \ S :
            /\ (s \in 1..Taken)' <=> s \in 1..Taken
            /\ (s \in Elements(deferred))' <=> s \in Elements(deferred)
      BY <1>1, <2>3
    <3>. HIDE DEF S
    <3>. QED  BY <2>1, <2>4, <3>1, <3>2, AsksKeep
  <2>9. /\ pending' \in [Tables -> SUBSET Serials]
        /\ silent' \subseteq Serials /\ working' \subseteq Serials
    <3>. HIDE DEF S
    <3>. QED  BY <1>0, <2>1, <2>4 DEF AskDht, Asks
  <2>10. deferred' \in Seq(Serials) /\ dht_ready' \in BOOLEAN
    BY <2>2
  <2>. QED  BY <1>1, <2>7, <2>8, <2>9, <2>10 DEF Queues
<1>4. CASE /\ dht_ready
           /\ UNCHANGED <<dht_ready, deferred, pending, working, silent>>
  <2>1. met
    BY <1>4 DEF IInv, Queues, HeldBackAreDht
  <2>2. met' = met
    BY <2>1 DEF IInv, TypeOK
  <2>3. Queues'
    BY <1>4, <2>2, QueuesStay DEF IInv
  <2>4. pending' = [t \in Tables |-> pending[t] \cup Asks({} \ {}, t)]
    BY <1>0, <1>4 DEF Asks
  <2>5. AskDht({}, {})
    BY <1>4, <2>4 DEF AskDht
  <2>6. \A s \in Serials \ {} :
          /\ (s \in 1..Taken)' <=> s \in 1..Taken
          /\ (s \in Elements(deferred))' <=> s \in Elements(deferred)
    BY <1>1, <1>4 DEF Elements
  <2>7. Fates'
    BY <2>5, <2>6, AsksKeep
  <2>8. dht_ready' \in BOOLEAN
    BY <1>4 DEF IInv, TypeOK
  <2>. QED  BY <1>0, <1>4, <2>3, <2>7, <2>8
<1>. QED
  BY <1>3, <1>4 DEF HoldBack

(* ConnectionEstablished for a dial of this node's.                         *)
LEMMA DialSucceedsKeeps ==
    ASSUME IInv, RequestsAssumption, NEW p \in Peers, DialSucceeds(p)
    PROVE  IInv'
<1>1. /\ HoldBack /\ met' = TRUE /\ links[p] < MaxLinks
      /\ links' = [links EXCEPT ![p] = @ + 1]
      /\ UNCHANGED <<calls, loop, commands, addresses>>
      /\ DialEnds(p)
  BY DEF DialSucceeds, DialEnds
<1>2. /\ DialStep
      /\ dialing' \in [Peers -> Serials \cup {ByTheSwarm, NoDial}]
      /\ answers' \in [Serials -> Nat]
  BY <1>1, DialEndsStep
<1>3. /\ Queues' /\ Fates'
      /\ deferred' \in Seq(Serials) /\ dht_ready' \in BOOLEAN
      /\ pending' \in [Tables -> SUBSET Serials]
      /\ silent' \subseteq Serials /\ working' \subseteq Serials
  BY <1>1, <1>2, ConnectionKeeps
<1>4. links' \in [Peers -> 0..MaxLinks]
  <2>1. links \in [Peers -> 0..MaxLinks] /\ MaxLinks \in Nat
    BY DEF IInv, TypeOK, RequestsAssumption
  <2>. QED  BY <1>1, <2>1
<1>5. TypeOK'
  BY <1>1, <1>2, <1>3, <1>4 DEF IInv, TypeOK
<1>. QED
  BY <1>3, <1>5 DEF IInv

(* ConnectionEstablished for a dial of the peer's.                          *)
LEMMA PeerConnectsKeeps ==
    ASSUME IInv, RequestsAssumption, NEW p \in Peers, PeerConnects(p)
    PROVE  IInv'
<1>1. /\ HoldBack /\ met' = TRUE /\ links[p] < MaxLinks
      /\ links' = [links EXCEPT ![p] = @ + 1]
      /\ UNCHANGED <<calls, loop, commands, answers, dialing, addresses>>
  BY DEF PeerConnects
<1>2. DialStep
  BY <1>1, NoDialStep
<1>3. /\ Queues' /\ Fates'
      /\ deferred' \in Seq(Serials) /\ dht_ready' \in BOOLEAN
      /\ pending' \in [Tables -> SUBSET Serials]
      /\ silent' \subseteq Serials /\ working' \subseteq Serials
  BY <1>1, <1>2, ConnectionKeeps
<1>4. links' \in [Peers -> 0..MaxLinks]
  <2>1. links \in [Peers -> 0..MaxLinks] /\ MaxLinks \in Nat
    BY DEF IInv, TypeOK, RequestsAssumption
  <2>. QED  BY <1>1, <2>1
<1>5. TypeOK'
  BY <1>1, <1>3, <1>4 DEF IInv, TypeOK
<1>. QED
  BY <1>3, <1>5 DEF IInv

(* A step of the swarm that touches no call but through a dial that ends.   *)
LEMMA DialOnlyKeeps ==
    ASSUME IInv, DialStep,
           UNCHANGED <<calls, loop, commands, dht_ready, deferred, pending,
                       silent, met, working>>
    PROVE  Queues' /\ Fates'
<1>1. Queues'
  BY QueuesStay DEF IInv
<1>2. pending \in [Tables -> SUBSET Serials]
  BY DEF IInv, TypeOK
<1>3. AskDht({}, {})
  <2>1. pending' = [t \in Tables |-> pending[t] \cup Asks({} \ {}, t)]
    BY <1>2 DEF Asks
  <2>. QED  BY <2>1 DEF AskDht
<1>4. \A s \in Serials \ {} :
        /\ (s \in 1..Taken)' <=> s \in 1..Taken
        /\ (s \in Elements(deferred))' <=> s \in Elements(deferred)
  BY DEF Elements, Taken
<1>. QED
  BY <1>1, <1>3, <1>4, AsksKeep

(* A connection closes.                                                     *)
LEMMA ConnectionClosedKeeps ==
    ASSUME IInv, RequestsAssumption, NEW p \in Peers, ConnectionClosed(p)
    PROVE  IInv'
<1>1. /\ links[p] > 0 /\ links' = [links EXCEPT ![p] = @ - 1]
      /\ UNCHANGED <<calls, loop, commands, dht_ready, deferred, pending,
                     answers, silent, met, working, dialing, addresses>>
  BY DEF ConnectionClosed
<1>2. Queues' /\ Fates'
  BY <1>1, NoDialStep, DialOnlyKeeps
<1>3. links' \in [Peers -> 0..MaxLinks]
  <2>1. links \in [Peers -> 0..MaxLinks] /\ MaxLinks \in Nat
    BY DEF IInv, TypeOK, RequestsAssumption
  <2>. QED  BY <1>1, <2>1
<1>4. TypeOK'
  BY <1>1, <1>3 DEF IInv, TypeOK
<1>. QED
  BY <1>2, <1>4 DEF IInv

(* A dial fails.                                                            *)
LEMMA OutgoingConnectionErrorKeeps ==
    ASSUME IInv, RequestsAssumption, NEW p \in Peers, OutgoingConnectionError(p)
    PROVE  IInv'
<1>1. /\ DialEnds(p)
      /\ UNCHANGED <<calls, loop, commands, dht_ready, deferred, pending,
                     silent, met, working, links, addresses>>
  BY DEF OutgoingConnectionError, DialEnds
<1>2. /\ DialStep
      /\ dialing' \in [Peers -> Serials \cup {ByTheSwarm, NoDial}]
      /\ answers' \in [Serials -> Nat]
  BY <1>1, DialEndsStep
<1>3. Queues' /\ Fates'
  BY <1>1, <1>2, DialOnlyKeeps
<1>4. TypeOK'
  BY <1>1, <1>2 DEF IInv, TypeOK
<1>. QED
  BY <1>3, <1>4 DEF IInv

(* A behaviour of the swarm's dials.                                        *)
LEMMA SwarmDialsKeeps ==
    ASSUME IInv, RequestsAssumption, NEW p \in Peers, SwarmDials(p)
    PROVE  IInv'
<1>1. /\ dialing[p] = NoDial /\ dialing' = [dialing EXCEPT ![p] = ByTheSwarm]
      /\ UNCHANGED <<calls, loop, commands, dht_ready, deferred, pending,
                     answers, silent, met, working, links, addresses>>
  BY DEF SwarmDials
<1>2. dialing \in [Peers -> Serials \cup {ByTheSwarm, NoDial}]
  BY DEF IInv, TypeOK
<1>3. NoDial \notin Serials /\ ByTheSwarm \notin Serials
  BY DEF NoDial, ByTheSwarm, Serials, RequestsAssumption
<1>4. /\ dialing' \in [Peers -> Serials \cup {ByTheSwarm, NoDial}]
      /\ \A q \in Peers : dialing'[q] = IF q = p THEN ByTheSwarm ELSE dialing[q]
  BY <1>1, <1>2
<1>5. DialStep
  BY <1>1, <1>3, <1>4
     DEF DialStep, InDial, DialsAreCalls, IInv, Fates, Kind
<1>6. Queues' /\ Fates'
  BY <1>1, <1>5, DialOnlyKeeps
<1>7. TypeOK'
  BY <1>1, <1>4 DEF IInv, TypeOK
<1>. QED
  BY <1>6, <1>7 DEF IInv

(* An address is learnt.                                                    *)
LEMMA LearnAddressKeeps ==
    ASSUME IInv, NEW p \in Peers, LearnAddress(p)
    PROVE  IInv'
<1>1. /\ addresses' = addresses \cup {p}
      /\ UNCHANGED <<calls, loop, commands, dht_ready, deferred, pending,
                     answers, silent, met, working, dialing, links>>
  BY DEF LearnAddress
<1>2. Queues' /\ Fates'
  BY <1>1, NoDialStep, DialOnlyKeeps
<1>3. TypeOK'
  BY <1>1 DEF IInv, TypeOK
<1>. QED
  BY <1>2, <1>3 DEF IInv

-----------------------------------------------------------------------------
(* What a query, a request or a reservation comes to.                       *)

(* An event about a query or a request answers it if its entry is there.    *)
LEMMA AnswerKeeps ==
    ASSUME IInv, NEW s \in Serials, NEW entries \in SUBSET Tables,
           Answer(s, entries), TableOf(Kind(s)) \in entries, s \in working,
           Kind(s) \in DhtCommands \cup RequestCommands,
           working' = working \/ working' = working \ {s}, UNCHANGED Rest
    PROVE  IInv'
<1>1. UNCHANGED <<calls, loop, commands, dht_ready, deferred, silent, met,
                  dialing, links, addresses>>
  BY DEF Rest
<1>2. /\ pending \in [Tables -> SUBSET Serials] /\ answers \in [Serials -> Nat]
      /\ working \subseteq Serials
  BY DEF IInv, TypeOK
<1>3. /\ s \in UNION {pending[t] : t \in entries} <=> InTable(s)
  BY DEF InTable, IInv, Fates, EntriesInProgress
<1>4. \A t \in Tables : \A r : r \in pending'[t] => r \in pending[t] /\ r # s
  BY DEF Answer, IInv, Fates, EntriesInProgress
<1>5. \A t \in Tables : \A r : r \in pending[t] /\ r # s => r \in pending'[t]
  BY DEF Answer
<1>6. \A r : InTable(r)' <=> InTable(r) /\ r # s
  BY <1>4, <1>5 DEF InTable
<1>7. Kind(s) # "ReserveRelaySlot" /\ Kind(s) # "Dial"
  BY DEF DhtCommands, RequestCommands
<1>8. \A r : /\ Kind(r)' = Kind(r) /\ (InDial(r)' <=> InDial(r))
             /\ InReservation(r)' <=> InReservation(r)
  BY <1>1, <1>7 DEF Kind, InDial, InReservation
<1>9. ~InDial(s) /\ ~InReservation(s)
  BY <1>7 DEF IInv, Fates, DialsAreCalls, InDial, InReservation
<1>10. /\ pending' \in [Tables -> SUBSET Serials]
       /\ \A r \in Serials : r # s => answers'[r] = answers[r]
       /\ answers' \in [Serials -> Nat]
       /\ answers'[s] = IF InTable(s) THEN answers[s] + 1 ELSE answers[s]
  BY <1>2, <1>3 DEF Answer
<1>11. InTable(s) => answers[s] = 0
  BY DEF IInv, Fates, NoAnswerYet, UnderWay
<1>12. TypeOK'
  BY <1>1, <1>2, <1>10 DEF IInv, TypeOK
<1>13. Queues'
  BY <1>1, QueuesStay DEF IInv
<1>14. EntriesInProgress' /\ DialsAreCalls'
  <2>1. EntriesInProgress'
    BY <1>4, <1>8 DEF IInv, Fates, EntriesInProgress
  <2>2. DialsAreCalls'
    BY <1>1 DEF IInv, Fates, DialsAreCalls, Kind
  <2>. QED  BY <2>1, <2>2
<1>15. (Taken' = Taken) /\ (Elements(deferred)' = Elements(deferred))
  BY <1>1 DEF Taken, Elements
<1>16. OnlyTaken'
  BY <1>1, <1>8, <1>10, <1>15 DEF IInv, Fates, OnlyTaken
<1>17. NoAnswerYet'
  <2>1. \A r \in Serials : r # s =>
          (/\ answers[r] \in {0, 1}
           /\ UnderWay(r) => answers[r] = 0 /\ r \notin silent
           /\ r \in silent => answers[r] = 0)'
    BY <1>1, <1>6, <1>8, <1>10 DEF IInv, Fates, NoAnswerYet, UnderWay
  <2>2. ~UnderWay(s)'
    BY <1>6, <1>8, <1>9 DEF UnderWay
  <2>3. InTable(s) => s \notin silent
    BY DEF IInv, Fates, NoAnswerYet, UnderWay
  <2>4. answers[s] \in {0, 1} /\ (s \in silent => answers[s] = 0)
    BY DEF IInv, Fates, NoAnswerYet
  <2>5. answers'[s] \in {0, 1} /\ (s \in silent => answers'[s] = 0)
    BY <1>10, <1>11, <2>3, <2>4
  <2>. QED  BY <1>1, <2>1, <2>2, <2>5 DEF NoAnswerYet
<1>18. NothingForgotten'
  BY <1>1, <1>6, <1>8, <1>9, <1>10, <1>11, <1>15
     DEF IInv, Fates, NothingForgotten, UnderWay
<1>. QED
  BY <1>12, <1>13, <1>14, <1>16, <1>17, <1>18 DEF IInv, Fates

(* The last event of a query whose record was found.                        *)
LEMMA GetRecordFinishedKeeps ==
    ASSUME IInv, NEW s \in Serials, GetRecordFinished(s)
    PROVE  IInv'
<1>1. /\ s \in working /\ Kind(s) \in DhtCommands
      /\ s \notin pending[TableOf(Kind(s))]
      /\ working' = working \ {s}
      /\ UNCHANGED <<calls, loop, commands, dht_ready, deferred, pending,
                     answers, silent, met, dialing, links, addresses>>
  BY DEF GetRecordFinished, Rest
<1>2. Kind(s) # "ReserveRelaySlot"
  BY <1>1 DEF DhtCommands
<1>3. Queues'
  BY <1>1, QueuesStay DEF IInv
<1>4. \A r : /\ Kind(r)' = Kind(r) /\ (InDial(r)' <=> InDial(r))
             /\ (InTable(r)' <=> InTable(r))
             /\ InReservation(r)' <=> InReservation(r)
  BY <1>1, <1>2 DEF Kind, InDial, InTable, InReservation
<1>5. EntriesInProgress' /\ DialsAreCalls'
  BY <1>1 DEF IInv, Fates, EntriesInProgress, DialsAreCalls, Kind
<1>6. (Taken' = Taken) /\ (Elements(deferred)' = Elements(deferred))
  BY <1>1 DEF Taken, Elements
<1>7. OnlyTaken' /\ NoAnswerYet' /\ NothingForgotten'
  BY <1>1, <1>4, <1>6 DEF IInv, Fates, OnlyTaken, NoAnswerYet,
                          NothingForgotten, UnderWay
<1>8. TypeOK'
  BY <1>1 DEF IInv, TypeOK
<1>. QED
  BY <1>3, <1>5, <1>7, <1>8 DEF IInv, Fates

(* A reservation ends, accepted or not.                                     *)
LEMMA ReservationEndsKeeps ==
    ASSUME IInv, NEW s \in Serials, Reserved(s) \/ ReservationClosed(s)
    PROVE  IInv'
<1>1. /\ s \in working /\ Kind(s) = "ReserveRelaySlot"
      /\ working' = working \ {s}
      /\ UNCHANGED <<calls, loop, commands, dht_ready, deferred, pending, met,
                     dialing, links, addresses>>
  BY DEF Reserved, ReservationClosed, Rest
<1>2. /\ answers \in [Serials -> Nat] /\ silent \subseteq Serials
  BY DEF IInv, TypeOK
<1>3. \/ answers' = [answers EXCEPT ![s] = @ + 1] /\ silent' = silent
      \/ silent' = silent \cup {s} /\ answers' = answers
  BY DEF Reserved, ReservationClosed, Rest
<1>4. answers' \in [Serials -> Nat] /\ silent' \subseteq Serials
  BY <1>2, <1>3, OneMoreAnswer
<1>5. Queues'
  BY <1>1, QueuesStay DEF IInv
<1>6. ~InTable(s) /\ ~InDial(s)
  BY <1>1 DEF IInv, Fates, EntriesInProgress, DialsAreCalls, InTable, InDial,
              DhtCommands, RequestCommands
<1>7. answers[s] = 0 /\ s \notin silent
  BY <1>1 DEF IInv, Fates, NoAnswerYet, UnderWay, InReservation
<1>8. \A r : /\ Kind(r)' = Kind(r) /\ (InDial(r)' <=> InDial(r))
             /\ (InTable(r)' <=> InTable(r))
             /\ InReservation(r)' <=> InReservation(r) /\ r # s
  BY <1>1 DEF Kind, InDial, InTable, InReservation
<1>9. EntriesInProgress' /\ DialsAreCalls'
  BY <1>1, <1>6 DEF IInv, Fates, EntriesInProgress, DialsAreCalls, Kind, InTable
<1>10. (Taken' = Taken) /\ (Elements(deferred)' = Elements(deferred))
  BY <1>1 DEF Taken, Elements
<1>11. \A r \in Serials : r # s =>
         answers'[r] = answers[r] /\ (r \in silent' <=> r \in silent)
  BY <1>2, <1>3
<1>12. \/ answers'[s] = 1 /\ s \notin silent'
       \/ answers'[s] = 0 /\ s \in silent'
  BY <1>2, <1>3, <1>7
<1>13. OnlyTaken'
  BY <1>1, <1>8, <1>10, <1>11 DEF IInv, Fates, OnlyTaken
<1>14. NoAnswerYet'
  BY <1>6, <1>8, <1>11, <1>12 DEF IInv, Fates, NoAnswerYet, UnderWay
<1>15. NothingForgotten'
  BY <1>1, <1>8, <1>10, <1>11, <1>12 DEF IInv, Fates, NothingForgotten, UnderWay
<1>16. TypeOK'
  BY <1>1, <1>4 DEF IInv, TypeOK
<1>. QED
  BY <1>5, <1>9, <1>13, <1>14, <1>15, <1>16 DEF IInv, Fates

(* Every event about a query, a request or a reservation.                   *)
LEMMA EndsKeeps ==
    ASSUME IInv, NEW s \in working, FoundRecord(s) \/ Ends(s)
    PROVE  IInv'
<1>0. s \in Serials
  BY DEF IInv, TypeOK
<1>1. Gets \subseteq Tables /\ Puts \subseteq Tables
      /\ {"envelope_send"} \subseteq Tables /\ {"blob_fetch"} \subseteq Tables
  BY DEF Gets, Puts, Tables
<1>2. CASE FoundRecord(s)
  BY <1>0, <1>1, <1>2, AnswerKeeps DEF FoundRecord
<1>3. CASE GetRecordFinished(s)
  BY <1>0, <1>3, GetRecordFinishedKeeps
<1>4. CASE GetRecordError(s)
  BY <1>0, <1>1, <1>4, AnswerKeeps DEF GetRecordError
<1>5. CASE PutRecordDone(s)
  BY <1>0, <1>1, <1>5, AnswerKeeps DEF PutRecordDone
<1>6. CASE EnvelopeDone(s)
  <2>1. TableOf(Kind(s)) \in {"envelope_send"} /\ Kind(s) \in RequestCommands
    BY <1>6 DEF EnvelopeDone, TableOf, RequestCommands
  <2>. QED  BY <1>0, <1>1, <1>6, <2>1, AnswerKeeps DEF EnvelopeDone
<1>7. CASE BlobDone(s)
  <2>1. TableOf(Kind(s)) \in {"blob_fetch"} /\ Kind(s) \in RequestCommands
    BY <1>7 DEF BlobDone, TableOf, RequestCommands
  <2>. QED  BY <1>0, <1>1, <1>7, <2>1, AnswerKeeps DEF BlobDone
<1>8. CASE Reserved(s) \/ ReservationClosed(s)
  BY <1>0, <1>8, ReservationEndsKeeps
<1>. QED
  BY <1>2, <1>3, <1>4, <1>5, <1>6, <1>7, <1>8 DEF Ends

-----------------------------------------------------------------------------
(* The invariant.                                                           *)

(* A step that changes nothing.                                             *)
LEMMA StutterKeeps ==
    ASSUME IInv, UNCHANGED vars
    PROVE  IInv'
<1>1. UNCHANGED <<calls, loop, commands, dht_ready, deferred, pending, answers,
                  silent, met, working, dialing, links, addresses>>
  BY DEF vars
<1>2. Queues' /\ Fates'
  BY <1>1, NoDialStep, DialOnlyKeeps
<1>3. TypeOK'
  BY <1>1 DEF IInv, TypeOK
<1>. QED
  BY <1>2, <1>3 DEF IInv

(* Every step keeps the invariant.                                          *)
LEMMA NextKeeps ==
    ASSUME IInv, RequestsAssumption, [Next]_vars
    PROVE  IInv'
<1>1. CASE AppCalls
  BY <1>1, SendKeeps DEF AppCalls
<1>2. CASE CommandBranch
  BY <1>2, ShutDownKeeps, DeferKeeps, TakeCommandKeeps DEF CommandBranch
<1>3. CASE SwarmBranch
  BY <1>3, DialSucceedsKeeps, PeerConnectsKeeps, ConnectionClosedKeeps,
     OutgoingConnectionErrorKeeps, SwarmDialsKeeps, LearnAddressKeeps,
     EndsKeeps DEF SwarmBranch
<1>4. CASE UNCHANGED vars
  BY <1>4, StutterKeeps
<1>. QED
  BY <1>1, <1>2, <1>3, <1>4 DEF Next

(* The inductive invariant: what the channel, deferred_commands, the tables *)
(* and the swarm hold of each call (run_event_loop, handle_command,         *)
(* handle_swarm_event).                                                     *)
THEOREM IInvHolds == Spec => []IInv
<1>1. Init => IInv
  BY InitIInv, RequestsAssumption
<1>2. IInv /\ [Next]_vars => IInv'
  BY NextKeeps, RequestsAssumption
<1>. QED
  BY <1>1, <1>2, PTL DEF Spec

(* The state has its type.                                                  *)
THEOREM RequestsTypeOK == Spec => []TypeOK
<1>1. IInv => TypeOK
  BY DEF IInv
<1>. QED
  BY <1>1, IInvHolds, PTL

(* What stands in the channel is not taken yet.                             *)
LEMMA InChannel ==
    ASSUME IInv
    PROVE  /\ \A s \in Elements(commands) :
                s \in Serials /\ s \notin 1..Taken /\ s \in DOMAIN calls
           /\ \A s \in DOMAIN calls :
                s \notin 1..Taken => s \in Elements(commands)
           /\ \A s \in 1..Taken : s \in Serials
<1>1. /\ commands \in Seq(Serials) /\ calls \in Seq(Call)
      /\ Len(calls) \in Nat /\ Len(calls) <= MaxCalls /\ Len(commands) \in Nat
      /\ DOMAIN calls = 1..Len(calls)
  BY DEF IInv, TypeOK
<1>2. /\ Len(commands) <= Len(calls) /\ Taken \in Nat
      /\ Taken = Len(calls) - Len(commands)
      /\ \A i \in 1..Len(commands) : commands[i] = Taken + i
  BY <1>1 DEF IInv, Queues, QueueIsNewest, Taken
<1>3. \A s : s \in Elements(commands) <=>
             \E i \in 1..Len(commands) : commands[i] = s
  BY <1>1, ElementsOf
<1>4. \A s \in Elements(commands) :
        s \in Serials /\ s \notin 1..Taken /\ s \in DOMAIN calls
  <2>. TAKE s \in Elements(commands)
  <2>1. PICK i \in 1..Len(commands) : s = Taken + i
    BY <1>2, <1>3
  <2>2. s \in 1..Len(calls) /\ s \notin 1..Taken
    BY <1>1, <1>2, <2>1
  <2>. QED  BY <1>1, <2>2, RequestsAssumption DEF Serials, RequestsAssumption
<1>5. ASSUME NEW s \in DOMAIN calls, s \notin 1..Taken
      PROVE  s \in Elements(commands)
  <2>1. s - Taken \in 1..Len(commands) /\ Taken + (s - Taken) = s
    BY <1>1, <1>2, <1>5
  <2>. QED  BY <1>2, <1>3, <2>1
<1>6. \A s \in 1..Taken : s \in Serials
  BY <1>1, <1>2, RequestsAssumption DEF Serials, RequestsAssumption
<1>. QED
  BY <1>4, <1>5, <1>6

(* The places of a call, one by one.                                        *)
LEMMA PlacesAre ==
    /\ DOMAIN Places = 1..7
    /\ Places[1] = Elements(commands) /\ Places[2] = Elements(deferred)
    /\ Places[3] = Pending /\ Places[4] = Dialled /\ Places[5] = Reserving
    /\ Places[6] = Answered /\ Places[7] = silent
  BY DEF Places

(* A call handed to the swarm waits at one place.                           *)
LEMMA UnderWayPlaces ==
    ASSUME IInv
    PROVE  /\ \A s : s \in Pending <=> InTable(s)
           /\ \A s : s \in Dialled <=> s \in Serials /\ InDial(s)
           /\ \A s : s \in Reserving <=> InReservation(s)
           /\ Pending \subseteq Serials /\ Reserving \subseteq Serials
           /\ Pending \cap Dialled = {} /\ Pending \cap Reserving = {}
           /\ Dialled \cap Reserving = {}
<1>1. \A s : s \in Pending <=> InTable(s)
  BY DEF Pending, InTable
<1>2. \A s : s \in Dialled <=> s \in Serials /\ InDial(s)
  BY DEF Dialled, InDial
<1>3. \A s : s \in Reserving <=> InReservation(s)
  BY DEF Reserving, InReservation
<1>4. \A s : InTable(s) =>
        s \in working /\ Kind(s) \in DhtCommands \cup RequestCommands
  BY DEF IInv, Fates, EntriesInProgress, InTable
<1>5. working \subseteq Serials
  BY DEF IInv, TypeOK
<1>6. \A s \in Serials : InDial(s) => Kind(s) = "Dial"
  BY DEF IInv, Fates, DialsAreCalls, InDial
<1>7. \A s : InReservation(s) => s \in working /\ Kind(s) = "ReserveRelaySlot"
  BY DEF InReservation
<1>. QED
  BY <1>1, <1>2, <1>3, <1>4, <1>5, <1>6, <1>7 DEF DhtCommands, RequestCommands

(* Each call the node accepted is at one place, and answered at most once   *)
(* (handle_command, the Pending tables, handle_swarm_event).                *)
THEOREM EachCallHasOneFateHolds == Spec => []EachCallHasOneFate
<1>1. ASSUME IInv
      PROVE  EachCallHasOneFate
  <2>. USE <1>1
  <2>1. \A s \in Serials : answers[s] <= 1
    BY DEF IInv, Fates, NoAnswerYet
  <2>2. \A s \in Serials :
          s \in Pending \/ s \in Dialled \/ s \in Reserving => UnderWay(s)
    BY UnderWayPlaces DEF UnderWay
  <2>3. \A s \in Serials :
          /\ UnderWay(s) => s \notin Answered /\ s \notin silent
          /\ ~(s \in Answered /\ s \in silent)
    BY DEF IInv, Fates, NoAnswerYet, Answered
  <2>4. \A s \in Serials :
          UnderWay(s) \/ s \in Answered \/ s \in silent =>
            s \in 1..Taken /\ s \notin Elements(deferred)
    BY DEF IInv, Fates, OnlyTaken, UnderWay, EntriesInProgress, InTable,
           InReservation, Answered
  <2>5. \A s \in Elements(deferred) : s \in Serials /\ s \in 1..Taken
    BY HeldBackAreFresh
  <2>6. Dialled \subseteq Serials /\ Answered \subseteq Serials
        /\ silent \subseteq Serials
    BY DEF Dialled, Answered, IInv, TypeOK
  <2>7. /\ Elements(commands) \cap Elements(deferred) = {}
        /\ \A i \in 3..7 : Elements(commands) \cap Places[i] = {}
        /\ \A i \in 3..7 : Elements(deferred) \cap Places[i] = {}
    BY <2>2, <2>4, <2>5, <2>6, InChannel, UnderWayPlaces, PlacesAre
  <2>8. /\ Places[3] \cap Places[4] = {} /\ Places[3] \cap Places[5] = {}
        /\ Places[4] \cap Places[5] = {} /\ Places[6] \cap Places[7] = {}
        /\ \A i \in 3..5, j \in 6..7 : Places[i] \cap Places[j] = {}
    BY <2>2, <2>3, <2>6, UnderWayPlaces, PlacesAre
  <2>9. \A i, j \in DOMAIN Places : i # j => Places[i] \cap Places[j] = {}
    <3>1. \A i, j \in 1..7 : i < j => Places[i] \cap Places[j] = {}
      BY <2>7, <2>8, PlacesAre
    <3>. HIDE DEF Places
    <3>2. \A i, j \in 1..7 : i # j => i < j \/ j < i
      OBVIOUS
    <3>3. \A A, B : A \cap B = B \cap A
      OBVIOUS
    <3>. QED  BY <3>1, <3>2, <3>3, PlacesAre
  <2>10. ASSUME loop = "running", NEW s \in DOMAIN calls
         PROVE  \E i \in DOMAIN Places : s \in Places[i]
    <3>1. CASE s \notin 1..Taken
      BY <3>1, InChannel, PlacesAre
    <3>2. CASE s \in 1..Taken
      <4>1. \/ s \in Elements(deferred) \/ UnderWay(s)
            \/ answers[s] > 0 \/ s \in silent
        BY <2>10, <3>2, InChannel DEF IInv, Fates, NothingForgotten
      <4>2. UnderWay(s) => s \in Pending \/ s \in Dialled \/ s \in Reserving
        BY <3>2, InChannel, UnderWayPlaces DEF UnderWay
      <4>3. answers[s] > 0 => s \in Answered
        BY <3>2, InChannel DEF Answered
      <4>. QED  BY <4>1, <4>2, <4>3, PlacesAre
    <3>. QED  BY <3>1, <3>2
  <2>. QED  BY <2>1, <2>9, <2>10 DEF EachCallHasOneFate
<1>. QED
  BY <1>1, IInvHolds, PTL

(* DHT commands wait for a peer and keep their order (needs_dht_peer,       *)
(* deferred_commands).                                                      *)
THEOREM DhtWaitsForAPeerInOrderHolds == Spec => []DhtWaitsForAPeerInOrder
<1>1. ASSUME IInv
      PROVE  DhtWaitsForAPeerInOrder
  <2>. USE <1>1
  <2>. DEFINE waiting == Elements(commands) \cup Elements(deferred)
              dht == {s \in DOMAIN calls : Kind(s) \in DhtCommands}
  <2>1. ASSUME loop = "running", NEW s \in dht \ waiting
        PROVE  s \in 1..Taken /\ s \in Serials /\ met /\ dht_ready
    <3>1. s \in 1..Taken /\ s \in Serials
      BY InChannel
    <3>2. s \notin Elements(deferred) /\ Kind(s) \in DhtCommands
      OBVIOUS
    <3>3. dht_ready
      BY <2>1, <3>1, <3>2 DEF IInv, Queues, HeldBackAreDht
    <3>4. met
      BY <3>3 DEF IInv, Queues, HeldBackAreDht
    <3>. QED  BY <3>1, <3>3, <3>4
  <2>2. ASSUME deferred # <<>>
        PROVE  ~met
    <3>1. deferred \in Seq(Serials)
      BY DEF IInv, TypeOK
    <3>2. deferred[1] \in Elements(deferred)
      BY <2>2, <3>1, ElementsOf
    <3>3. ~dht_ready
      BY <3>2, HeldBackAreFresh
    <3>. QED  BY <3>3 DEF IInv, Queues, HeldBackAreDht
  <2>3. ASSUME loop = "running", NEW s \in dht \ waiting,
               NEW w \in dht \cap waiting
        PROVE  s < w
    <3>1. s \in 1..Taken /\ dht_ready
      BY <2>1, <2>3
    <3>2. w \in Elements(commands)
      BY <3>1, HeldBackAreFresh
    <3>3. w \in Serials /\ w \notin 1..Taken
      BY <3>2, InChannel
    <3>4. Taken \in Nat
      BY DEF IInv, Queues, QueueIsNewest, TypeOK, Taken
    <3>. QED  BY <3>1, <3>3, <3>4 DEF Serials
  <2>. QED  BY <2>1, <2>2, <2>3 DEF DhtWaitsForAPeerInOrder
<1>. QED
  BY <1>1, IInvHolds, PTL

===============================================================================
