---------------------------- MODULE ParserState ----------------------------
(***************************************************************************)
(* The state of a MessageParser that is used directly, and what it promises *)
(* about the messages it returns.  MessageParser is the behaviour.          *)
(***************************************************************************)
EXTENDS ProtocolFraming

CONSTANTS
  Messages,    \* the messages a stream may hold
  MaxMessages, \* bound on the messages of one stream
  MaxClears    \* bound on the number of streams given up

ASSUME ParserAssumption ==
  /\ Messages \subseteq Frame
  /\ MaxMessages \in Nat /\ MaxClears \in Nat

VARIABLES
  stream,    \* the byte stream, as placed frames
  fed,       \* bytes given to push_data
  taken,     \* bytes split off the buffer
  returned,  \* the messages the caller got
  result,    \* what the last call returned: "ok", "none", "error"
  clears     \* streams given up so far

(* What try_parse returns when the buffer starts at offset n. *)
ParseFrom(n) == TryParse(FrameAt(stream, n), fed - n)

----------------------------------------------------------------------------
(* Frames whose bytes have left the buffer, and that no call returned. *)
Lost ==
  {k \in DOMAIN stream : End(stream[k]) <= taken}
    \ {k \in DOMAIN stream : \E i \in DOMAIN returned : returned[i] = stream[k]}

(* A message is lost only by a parse_all that then met an over-limit frame,
   and that frame is at the head of the buffer ever after: until the caller
   clears the parser, it returns nothing any more. *)
LossIsTerminal ==
  Lost # {} => ParseFrom(taken) = "error"

(* try_parse and parse_all take whole frames out of the buffer and return
   them in the order of the stream, whatever the mix of the two. *)
ReturnedInOrder ==
  /\ \E k \in 0 .. Len(stream) :
       /\ taken = IF k = 0 THEN 0 ELSE End(stream[k])
       /\ Len(returned) <= k
  /\ \A i \in DOMAIN returned : returned[i] = stream[i]
=============================================================================
