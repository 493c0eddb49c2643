---------------------------- MODULE RatchetBytes ----------------------------
(***************************************************************************)
(* The bytes a Double Ratchet session and its messages are kept and sent   *)
(* as: the message header, the envelope, and the whole state.              *)
(***************************************************************************)
EXTENDS Encoding, SequencesExt

-----------------------------------------------------------------------------
(* Keys, symbolically *)

(* The n-th ratchet key pair of a party. *)
Key(p, n) == [owner |-> p, n |-> n]
NoKey == Key("nobody", 0)

(* A chain key; its step also names the message key it ratchets to. *)
Chain(root) == [root |-> root, step |-> 0]
Stepped(chain) == [chain EXCEPT !.step = @ + 1]
NoChain == Chain(<< >>)

-----------------------------------------------------------------------------
(* Writing *)

EncodeHeader(h) == <<h.dh>> \o Varint[h.previous] \o Varint[h.number]

EncodeEnvelope(h, ciphertext) == Append(EncodeHeader(h), ciphertext)

(* SkippedKeyStore::entries, in the order the hash map happens to give.     *)
Entries(skipped) ==
    LET keys == SetToSeq(skipped)
        written[i \in 0..Cardinality(skipped)] ==
            IF i = 0 THEN << >>
            ELSE written[i - 1]
                 \o <<keys[i].dh>> \o Varint[keys[i].number] \o <<keys[i].key>>
    IN  written[Cardinality(skipped)]

(* DoubleRatchet::to_bytes *)
ToBytes(s) ==
    <<s.dh_self>> \o Optional(s.dh_remote, NoKey) \o <<s.root_key>>
    \o Optional(s.sending, NoChain) \o Optional(s.receiving, NoChain)
    \o Varint[s.send_count] \o Varint[s.recv_count] \o Varint[s.previous]
    \o Varint[Cardinality(s.skipped)] \o Entries(s.skipped)

-----------------------------------------------------------------------------
(* Reading *)

DecodeHeader(input) ==
    LET previous == ReadVarint(input, 2)
        number == ReadVarint(input, previous.next)
    IN  [header |-> [dh |-> input[1], previous |-> previous.value, number |-> number.value],
         next |-> number.next]

DecodeEnvelope(input) ==
    LET h == DecodeHeader(input)
    IN  [header |-> h.header, ciphertext |-> input[h.next]]

(* The skipped keys that from_bytes hands to SkippedKeyStore::from_entries. *)
ReadEntries(input, at, count) ==
    LET entry[i \in 0..count] ==
            IF i = 0 THEN [keys |-> {}, next |-> at]
            ELSE LET e == entry[i - 1]
                     number == ReadVarint(input, e.next + 1)
                 IN  [keys |-> e.keys \cup {[dh |-> input[e.next], number |-> number.value,
                                             key |-> input[number.next]]},
                      next |-> number.next + 1]
    IN  entry[count].keys

(* DoubleRatchet::from_bytes *)
FromBytes(input) ==
    LET remote == ReadOptional(input, 2, NoKey)
        sending == ReadOptional(input, remote.next + 1, NoChain)
        receiving == ReadOptional(input, sending.next, NoChain)
        send_count == ReadVarint(input, receiving.next)
        recv_count == ReadVarint(input, send_count.next)
        previous == ReadVarint(input, recv_count.next)
        count == ReadVarint(input, previous.next)
    IN  [dh_self |-> input[1], dh_remote |-> remote.value, root_key |-> input[remote.next],
         sending |-> sending.value, receiving |-> receiving.value,
         send_count |-> send_count.value, recv_count |-> recv_count.value,
         previous |-> previous.value,
         skipped |-> ReadEntries(input, count.next, count.value)]
===============================================================================
