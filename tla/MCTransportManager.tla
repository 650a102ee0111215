------------------------ MODULE MCTransportManager ------------------------
(* An instance of TransportManager for TLC: three URLs for two places in the
   cache, a transport that replaces another of its type, and one of another
   type that supports some of the same URLs. *)
EXTENDS TransportManager, TLC

CONSTANTS t1, t2, u1, u2, u3

MCTasks == {t1, t2}
MCUrls == {u1, u2, u3}
MCTransports ==
  {[type |-> "tcp", urls |-> {u1}], [type |-> "tcp", urls |-> {u1, u2, u3}],
   [type |-> "custom", urls |-> {u1, u2}]}

MCDefaults == {[type |-> "tcp", urls |-> {u1}]}

MCSymmetry == Permutations(MCTasks)
=============================================================================
