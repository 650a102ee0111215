--------------------------- MODULE MessageChannel ---------------------------
(***************************************************************************)
(* What a framed stream promises its reader: the messages that come out are *)
(* the messages that went in, in the same order, each once; and the first   *)
(* error ends the delivery for good.  Nothing here knows about bytes.       *)
(***************************************************************************)
EXTENDS Naturals, Sequences

VARIABLES
  written,    \* the messages written to the stream
  delivered,  \* the messages its reader was given
  failed      \* the reader was given an error

vars == <<written, delivered, failed>>

Init ==
  /\ written = <<>>
  /\ delivered = <<>>
  /\ failed = FALSE

(* One more message of any kind, after the ones written before. *)
Write ==
  /\ Len(written') = Len(written) + 1
  /\ \A k \in DOMAIN written : written'[k] = written[k]
  /\ UNCHANGED <<delivered, failed>>

Deliver ==
  /\ ~failed
  /\ Len(delivered) < Len(written)
  /\ delivered' = Append(delivered, written[Len(delivered) + 1])
  /\ UNCHANGED <<written, failed>>

Fail ==
  /\ failed' = TRUE
  /\ UNCHANGED <<written, delivered>>

Next ==
  \/ Write
  \/ Deliver
  \/ Fail

Spec == Init /\ [][Next]_vars
=============================================================================
