------------------------------ MODULE Prekeys ------------------------------
(***************************************************************************)
(* A user's prekeys and the X3DH handshake (prekey/store.rs, bundle.rs,    *)
(* x3dh.rs), as operators on a store and on symbolic keys: a key is a      *)
(* tuple that names it, a Diffie-Hellman result the set of the two keys it *)
(* is computed from, on either side.  Signatures are those of the bundle's *)
(* own identity: nobody forges one here.                                   *)
(***************************************************************************)
EXTENDS Encoding, SequencesExt

(* The signed prekey and the two pools of one-time prekeys.                *)
Generate(u, count) ==
    [signed    |-> <<"SPK", u>>,
     available |-> [i \in 1..count |-> <<"OPK", u, i>>], pending |-> {}]

NoKey == <<>>

(* public_bundle hands out the last available key, if any, and keeps its   *)
(* secret pending.                                                         *)
Offered(store) ==
    IF store.available = <<>> THEN NoKey
    ELSE store.available[Len(store.available)]

(* Mutant: the secret of the key handed out is not kept.                   *)
AfterOfferUnkept(store) ==
    IF store.available = <<>> THEN store
    ELSE [store EXCEPT !.available = SubSeq(@, 1, Len(@) - 1)]

AfterOffer(store) ==
    IF store.available = <<>> THEN store
    ELSE [store EXCEPT !.available = SubSeq(@, 1, Len(@) - 1),
                       !.pending = @ \cup {Offered(store)}]

PublicBundle(u, store) ==
    [identity |-> u, agreement |-> <<"IK", u>>, signed |-> store.signed,
     oneTime |-> Offered(store)]

TakeOneTimeSecret(store, key) ==
    [store EXCEPT !.pending = @ \ {key}]

(* PrekeyStore::to_bytes and from_bytes: what an account keeps.            *)
SecretList(keys) == Varint[Len(keys)] \o keys

StoreToBytes(store) ==
    <<store.signed>> \o SecretList(store.available)
    \o SecretList(SetToSeq(store.pending))

ReadSecretList(input, at) ==
    LET count == ReadVarint(input, at) IN
    [keys |-> SubSeq(input, count.next, count.next + count.value - 1),
     next |-> count.next + count.value]

StoreFromBytes(input) ==
    LET available == ReadSecretList(input, 2)
        pending == ReadSecretList(input, available.next)
    IN  [signed |-> input[1], available |-> available.keys,
         pending |-> ToSet(pending.keys)]

(* PrekeyBundle::to_bytes and from_bytes: a contact card.                  *)
BundleToBytes(b) ==
    <<b.identity, b.agreement, b.signed>> \o Optional(b.oneTime, NoKey)

BundleFromBytes(input) ==
    [identity |-> input[1], agreement |-> input[2], signed |-> input[3],
     oneTime |-> ReadOptional(input, 4, NoKey).value]

-----------------------------------------------------------------------------
DH(a, b) == {a, b}

(* derive_shared_secret, over the three or four results.                   *)
SharedSecret(dh1, dh2, dh3, dh4) == <<dh1, dh2, dh3, dh4>>

InitiatorSecret(u, ephemeral, bundle) ==
    SharedSecret(DH(<<"IK", u>>, bundle.signed),
                 DH(ephemeral, bundle.agreement),
                 DH(ephemeral, bundle.signed),
                 IF bundle.oneTime = NoKey THEN {}
                 ELSE DH(ephemeral, bundle.oneTime))

InitialMessage(u, ephemeral, bundle) ==
    [identity |-> u, agreement |-> <<"IK", u>>, ephemeral |-> ephemeral,
     used |-> bundle.oneTime]

(* InitialMessage::to_bytes and from_bytes: in front of a first envelope.  *)
InitialToBytes(message) ==
    <<message.identity, message.agreement, message.ephemeral>>
    \o Optional(message.used, NoKey)

InitialFromBytes(input) ==
    [identity |-> input[1], agreement |-> input[2], ephemeral |-> input[3],
     used |-> ReadOptional(input, 4, NoKey).value]

(* respond fails when the one-time prekey the message names is not pending.*)
Exhausted(store, message) ==
    message.used # NoKey /\ message.used \notin store.pending

ResponderSecret(u, message) ==
    SharedSecret(DH(<<"SPK", u>>, message.agreement),
                 DH(<<"IK", u>>, message.ephemeral),
                 DH(<<"SPK", u>>, message.ephemeral),
                 IF message.used = NoKey THEN {}
                 ELSE DH(message.used, message.ephemeral))

AfterRespond(store, message) ==
    IF message.used = NoKey THEN store
    ELSE TakeOneTimeSecret(store, message.used)

=============================================================================
