---------------------------- MODULE MCMixNetwork ----------------------------
(* TLC values for the constants of MixNetwork: two users and two relays,    *)
(* and the two users' connection to each relay and the relays' own.         *)
EXTENDS MixNetwork

MCPairs ==
    {{"alice", "r1"}, {"alice", "r2"}, {"bob", "r1"}, {"bob", "r2"},
     {"r1", "r2"}}

(* r1 is the closer relay in the first epoch, r2 in the second.             *)
MCDistance(t, n) ==
    CASE n = "r1"    -> t
      [] n = "r2"    -> 1 - t
      [] n = "alice" -> 2
      [] OTHER       -> 3
===============================================================================
