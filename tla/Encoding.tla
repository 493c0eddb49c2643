------------------------------ MODULE Encoding ------------------------------
(***************************************************************************)
(* The framing that crypto-core's byte formats share: varints and optional *)
(* fields, written and read back at a position.                            *)
(*                                                                         *)
(* A byte string is a sequence; the fixed number of bytes of a key (with   *)
(* its signature, if it has one) and a ciphertext are one element of it,   *)
(* every other byte is a number.  A byte of a varint carries VarintBase    *)
(* values and a continuation bit.                                          *)
(***************************************************************************)
EXTENDS Integers, Sequences

CONSTANT VarintBase     \* 2^7

ASSUME VarintAssumption == VarintBase \in Nat \ {0, 1}

(* varint::encode: the low digits first, the continuation bit on all but   *)
(* the last.                                                               *)
Varint[value \in Nat] ==
    IF value < VarintBase THEN <<value>>
    ELSE <<(value % VarintBase) + VarintBase>> \o Varint[value \div VarintBase]

(* varint::decode, of bytes that hold a whole varint, and where the next   *)
(* thing begins.                                                           *)
ReadVarint(input, at) ==
    LET read[j \in 1..Len(input)] ==
            IF j = Len(input) \/ input[j] < VarintBase
            THEN [value |-> input[j], next |-> j + 1]
            ELSE LET rest == read[j + 1]
                 IN  [value |-> (input[j] % VarintBase) + VarintBase * rest.value,
                      next  |-> rest.next]
    IN  read[at]

(* A flag byte and, if it is 1, the field.                                 *)
Optional(value, none) == IF value = none THEN <<0>> ELSE <<1, value>>

ReadOptional(input, at, none) ==
    IF input[at] = 1 THEN [value |-> input[at + 1], next |-> at + 2]
    ELSE [value |-> none, next |-> at + 1]

=============================================================================
