-------------------------- MODULE MCMessageParser --------------------------
(* An instance of MessageParser for TLC: the smallest message, one at the
   limit, one over the header limit and one whose base header does not parse. *)
EXTENDS MessageParser

F(k, h, p) == [known |-> k, header |-> h, payload |-> p]

MCMessages ==
  {F(TRUE, 0, 0), F(TRUE, 1, 3), F(TRUE, 2, 0), F(FALSE, 0, 0)}
=============================================================================
