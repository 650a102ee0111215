---------------------------- MODULE MCSharedStream ----------------------------
(* An instance of SharedStream for TLC: two messages, whose order can go wrong,
   to the end whose two handles share its stream, and one from there. *)
EXTENDS SharedStream

MCSends == [near |-> 1, far |-> 2]
=============================================================================
