---------------------------- MODULE MCListeners ----------------------------
(* Two listens and three clients whose URLs name one address, as host and port
   and, in three spellings, as a path: "ipc://s", "ipc:///s", "ipc:////tmp/s";
   and a listen whose URL does not parse.  One client never starts a WebSocket
   handshake, another sends something else. *)
EXTENDS Listeners

CONSTANTS l1, l2, l3, c1, c2, c3

Spelt(n, names) == [valid |-> TRUE, slashes |-> n, names |-> names, host |-> <<"h", "1">>]

MCListens == {l1, l2, l3}
MCClients == {c1, c2, c3}
MCMute == {c2}
MCForeign == {c3}
MCurl == [p \in {l1, l2, l3, c1, c2, c3} |->
  CASE p \in {l1, c1} -> Spelt(0, <<"s">>)
    [] p \in {l2, c2} -> Spelt(1, <<"s">>)
    [] p = c3 -> Spelt(2, <<"tmp", "s">>)
    [] p = l3 -> [valid |-> FALSE, slashes |-> 0, names |-> <<>>, host |-> <<>>]]
=============================================================================
