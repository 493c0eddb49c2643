------------------------------ MODULE MCMailbox ------------------------------
(* TLC values for the constants of Mailbox.                                 *)
EXTENDS Mailbox

(* Envelopes are named by their sizes, empty and oversized ones included.   *)
MCSizeOf(e) == e

(* Within a second the shorter envelope's digest comes first.               *)
MCDigest(d) == d.envelope
===============================================================================
