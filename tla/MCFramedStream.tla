--------------------------- MODULE MCFramedStream ---------------------------
(* Instances of FramedStream for TLC. *)
EXTENDS FramedStream

F(k, h, p) == [known |-> k, header |-> h, payload |-> p]

(* The smallest message, one at the limit of the decoder (total 4), one over
   its header limit, one over its message limit, and one whose base header
   does not parse. *)
MCFrames ==
  {F(TRUE, 0, 0), F(TRUE, 1, 1), F(TRUE, 2, 0), F(TRUE, 1, 2), F(FALSE, 0, 1)}
=============================================================================
