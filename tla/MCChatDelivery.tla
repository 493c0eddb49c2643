--------------------------- MODULE MCChatDelivery ---------------------------
EXTENDS ChatDelivery

(* Two users who write to each other, and a third who knows one of them.   *)
MCTalks == {<<"alice", "bob">>, <<"bob", "alice">>, <<"carol", "bob">>}
OneWay == {<<"alice", "bob">>}

(* Everyone writes and little goes wrong; one writes to another, and two   *)
(* things go wrong, or the outbox holds more.                              *)
MCBudgets ==
    {[writers |-> MCTalks, messages |-> 2, upsets |-> 1, returns |-> 1],
     [writers |-> OneWay, messages |-> 2, upsets |-> 2, returns |-> 2],
     [writers |-> OneWay, messages |-> 3, upsets |-> 1, returns |-> 2]}

=============================================================================
