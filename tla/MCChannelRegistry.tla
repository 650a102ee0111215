------------------------- MODULE MCChannelRegistry -------------------------
(* Instances of ChannelRegistry for TLC: three callers on two names, and two
   callers that are alone with one name.  One caller writes more than a duplex
   buffers, so that it is held back. *)
EXTENDS ChannelRegistry

CONSTANTS c1, c2, c3, n1, n2

MCCallers == {c1, c2, c3}
MCPair == {c1, c2}
MCNames == {n1, n2}
MCOneName == {n1}
MCBytes == [c \in Callers |-> IF c = c1 THEN 2 ELSE IF c = c2 THEN 1 ELSE 0]
=============================================================================
