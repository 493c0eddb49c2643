---------------------------- MODULE DoubleRatchet ----------------------------
(***************************************************************************)
(* crypto-core's Double Ratchet (ratchet/): two parties with one session   *)
(* over a network that may lose, repeat, reorder and garble messages.      *)
(*                                                                         *)
(* Cryptography is symbolic: the Diffie-Hellman output of two key pairs is *)
(* the set of both, a root key is the sequence of the outputs mixed into   *)
(* it, a chain key is a root key and a number of steps, and so is the      *)
(* message key of a step.  Decryption succeeds with the key and the header *)
(* the message was encrypted with, and with no other.  The app keeps a     *)
(* session as bytes between any two calls, and so does the model.          *)
(***************************************************************************)
EXTENDS RatchetBytes, FiniteSets

CONSTANTS
    MaxSkipped,     \* MAX_SKIPPED_KEYS
    MaxSent         \* bound: messages each party encrypts

ASSUME RatchetAssumption == MaxSkipped \in Nat

Party == {"alice", "bob"}
Peer(p) == IF p = "alice" THEN "bob" ELSE "alice"

VARIABLES
    stored,     \* party -> its DoubleRatchet, as to_bytes wrote it
    sent,       \* party -> the messages it encrypted, on the network for good
    received,   \* party -> the messages it decrypted
    accepted    \* party -> its successful decryptions

vars == <<stored, sent, received, accepted>>

Session(p) == FromBytes(stored[p])

(* root_kdf::derive: the new root key, which also names the new chain. *)
Derive(root, mine, theirs) == Append(root, {mine, theirs})

(* Alice starts with bob's signed prekey as his first ratchet key. *)
InitInitiator ==
    LET root == Derive(<< >>, Key("alice", 1), Key("bob", 0)) IN
    [dh_self |-> Key("alice", 1), dh_remote |-> Key("bob", 0), root_key |-> root,
     sending |-> Chain(root), receiving |-> NoChain,
     send_count |-> 0, recv_count |-> 0, previous |-> 0, skipped |-> {}]

InitResponder ==
    [dh_self |-> Key("bob", 0), dh_remote |-> NoKey, root_key |-> << >>,
     sending |-> NoChain, receiving |-> NoChain,
     send_count |-> 0, recv_count |-> 0, previous |-> 0, skipped |-> {}]

Init ==
    /\ stored = [p \in Party |->
                   ToBytes(IF p = "alice" THEN InitInitiator ELSE InitResponder)]
    /\ sent = [p \in Party |-> {}]
    /\ received = [p \in Party |-> {}]
    /\ accepted = [p \in Party |-> 0]

-----------------------------------------------------------------------------
(* Encrypting *)

HeaderOf(s) == [dh |-> s.dh_self, previous |-> s.previous, number |-> s.send_count]

(* Mutant: the sending chain stays where it is.                             *)
SentOnSameKey(s) == [s EXCEPT !.send_count = @ + 1]

AfterSend(s) == [s EXCEPT !.sending = Stepped(@), !.send_count = @ + 1]

Encrypt(p) ==
    LET s == Session(p) IN
    /\ s.sending # NoChain
    /\ Cardinality(sent[p]) < MaxSent
    /\ sent' = [sent EXCEPT ![p] = @ \cup
                   {[id |-> Cardinality(@) + 1, header |-> HeaderOf(s), key |-> s.sending]}]
    /\ stored' = [stored EXCEPT ![p] = ToBytes(AfterSend(s))]
    /\ UNCHANGED <<received, accepted>>

-----------------------------------------------------------------------------
(* Decrypting *)

(* How many keys skip_message_keys stores on its way to number `until`.     *)
Gap(s, until) ==
    IF s.dh_remote = NoKey \/ s.receiving = NoChain \/ until <= s.recv_count
    THEN 0 ELSE until - s.recv_count

CanSkip(s, until) == Gap(s, until) = 0 \/ Cardinality(s.skipped) + Gap(s, until) <= MaxSkipped

(* Mutant: the key of number `until` is stored as well.                     *)
SkipOneTooMany(s, until) ==
    LET gap == Gap(s, until) IN
    [s EXCEPT !.skipped = @ \cup
                  {[dh |-> s.dh_remote, number |-> s.recv_count + i,
                    key |-> [s.receiving EXCEPT !.step = @ + i]] : i \in 0..gap},
              !.receiving.step = @ + gap,
              !.recv_count = @ + gap]

Skip(s, until) ==
    LET gap == Gap(s, until) IN
    [s EXCEPT !.skipped = @ \cup
                  {[dh |-> s.dh_remote, number |-> s.recv_count + i,
                    key |-> [s.receiving EXCEPT !.step = @ + i]] : i \in 0..(gap - 1)},
              !.receiving.step = @ + gap,
              !.recv_count = @ + gap]

(* dh_ratchet_step: the old key pair with their new key for receiving, a    *)
(* fresh key pair for sending.                                              *)
DHRatchetStep(p, s, remote) ==
    LET root == Derive(s.root_key, s.dh_self, remote)
        fresh == Key(p, s.dh_self.n + 1)
    IN  [s EXCEPT !.previous = s.send_count, !.send_count = 0, !.recv_count = 0,
                  !.dh_remote = remote, !.receiving = Chain(root), !.dh_self = fresh,
                  !.root_key = Derive(root, fresh, remote),
                  !.sending = Chain(Derive(root, fresh, remote))]

Stored(s, h) == {k \in s.skipped : k.dh = h.dh /\ k.number = h.number}

(* The receiving chain h belongs to, once it is the current one.            *)
OnChainOf(p, s, h) ==
    IF s.dh_remote = h.dh THEN s ELSE DHRatchetStep(p, Skip(s, h.previous), h.dh)

(* Which key and which state decrypt works out for header h, before the     *)
(* tag is verified; none when a skip exceeds the cap or there is no chain.  *)
Reaches(p, s, h) ==
    \/ Stored(s, h) # {}
    \/ /\ s.dh_remote # h.dh => CanSkip(s, h.previous)
       /\ CanSkip(OnChainOf(p, s, h), h.number)
       /\ OnChainOf(p, s, h).receiving # NoChain

KeyFor(p, s, h) ==
    IF Stored(s, h) # {} THEN (CHOOSE k \in Stored(s, h) : TRUE).key
    ELSE Skip(OnChainOf(p, s, h), h.number).receiving

(* Mutant: a stored key is kept after its use.                              *)
KeepingStored(p, s, h) ==
    IF Stored(s, h) # {} THEN s
    ELSE LET t == Skip(OnChainOf(p, s, h), h.number) IN
         [t EXCEPT !.receiving = Stepped(@), !.recv_count = @ + 1]

Working(p, s, h) ==
    IF Stored(s, h) # {} THEN [s EXCEPT !.skipped = @ \ Stored(s, h)]
    ELSE LET t == Skip(OnChainOf(p, s, h), h.number) IN
         [t EXCEPT !.receiving = Stepped(@), !.recv_count = @ + 1]

Decrypts(p, s, m, h) == h = m.header /\ Reaches(p, s, h) /\ KeyFor(p, s, h) = m.key

(* Mutant: the state moves on before the tag is verified.                   *)
AfterUnverified(p, s, m, h) == IF Reaches(p, s, h) THEN Working(p, s, h) ELSE s

(* decrypt works on a clone, which replaces the session on success only.    *)
AfterDecrypt(p, s, m, h) == IF Decrypts(p, s, m, h) THEN Working(p, s, h) ELSE s

(* What a damaged or foreign header may read: another number, another chain *)
(* length, a key of neither party.                                          *)
Garbled(h) ==
    {[h EXCEPT !.number = @ + 1], [h EXCEPT !.previous = @ + 1],
     [h EXCEPT !.dh = Key("mallory", 1)]}

(* The ciphertext of m and what it authenticates.                           *)
Ciphertext(m) == [message |-> m, aad |-> m.header]

(* A wire message reaches p.                                                *)
Decrypt(p, wire) ==
    LET s == Session(p)
        h == DecodeEnvelope(wire).header
        m == DecodeEnvelope(wire).ciphertext.message
    IN  /\ stored' = [stored EXCEPT ![p] = ToBytes(AfterDecrypt(p, s, m, h))]
        /\ IF Decrypts(p, s, m, h)
           THEN /\ received' = [received EXCEPT ![p] = @ \cup {m}]
                /\ accepted' = [accepted EXCEPT ![p] = @ + 1]
           ELSE UNCHANGED <<received, accepted>>
        /\ UNCHANGED sent

Next == \E p \in Party :
    \/ Encrypt(p)
    \/ \E m \in sent[Peer(p)] : \E h \in {m.header} \cup Garbled(m.header) :
          Decrypt(p, EncodeEnvelope(h, Ciphertext(m)))

Spec == Init /\ [][Next]_vars

-----------------------------------------------------------------------------
(* Properties *)

(* A message that was not received yet can still be decrypted, whatever was *)
(* delivered, repeated, garbled or reordered before it, unless the cap on   *)
(* skipped keys is in the way (state.rs:151-158).                           *)
NothingIsLost ==
    \A p \in Party :
      LET s == Session(p) IN
      \A m \in sent[Peer(p)] \ received[p] :
        \/ Decrypts(p, s, m, m.header)
        \/ /\ ~ Reaches(p, s, m.header)
           /\ Cardinality(s.skipped) + m.header.number + m.header.previous
                > MaxSkipped

(* No two messages are encrypted with the same key, in either direction     *)
(* (chain.rs:1-4).                                                          *)
KeysAreUsedOnce ==
    \A p, q \in Party : \A m \in sent[p], k \in sent[q] :
        m.key = k.key => p = q /\ m = k

(* The key of step k of a chain can still be computed from a later ratchet  *)
(* of the chain key.                                                        *)
Yields(chain, key) == chain.root = key.root /\ chain.step <= key.step

(* Forward secrecy: a session that leaks gives away no key of a message it  *)
(* has decrypted or encrypted (chain.rs:1-4, skipped_keys.rs:47-49).        *)
OldKeysAreGone ==
    \A p \in Party :
      LET s == Session(p) IN
      /\ \A m \in received[p] :
           /\ ~ Yields(s.receiving, m.key)
           /\ \A k \in s.skipped : k.key # m.key
      /\ \A m \in sent[p] : ~ Yields(s.sending, m.key)

(* The session is a channel that delivers at most once.                     *)
Channel == INSTANCE SecureChannel

ImplementsChannel == Channel!Spec
===============================================================================
