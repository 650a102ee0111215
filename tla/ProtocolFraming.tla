-------------------------- MODULE ProtocolFraming --------------------------
(***************************************************************************)
(* The framing rules of the protocol crate, as operators.                   *)
(*                                                                         *)
(* A message on the wire is a base header of BASE_HEADER_SIZE bytes, then   *)
(* `header` header bytes, then `payload` payload bytes.  Bytes are counted, *)
(* not represented: a frame is the pair of lengths its base header          *)
(* announces, together with whether that base header parses at all          *)
(* (`known`: its version is PROTOCOL_VERSION and MessageType::from_u8       *)
(* knows its type).                                                        *)
(*                                                                         *)
(* A stream is a sequence of placed frames: `at` is the offset of the       *)
(* frame's first byte in the stream.                                       *)
(***************************************************************************)
EXTENDS Naturals, Sequences

CONSTANTS
  BASE_HEADER_SIZE,   \* length of the base header (34 in the code)
  max_message_size,   \* MessageParser::max_message_size = MessageCodec::max_frame_size
  max_header_size     \* MessageParser::max_header_size

ASSUME LimitsAssumption ==
  /\ BASE_HEADER_SIZE \in Nat \ {0}
  /\ max_message_size \in Nat
  /\ max_header_size \in Nat

(* What an encoder is given, and the same frame placed in a stream. *)
Frame == [known : BOOLEAN, header : Nat, payload : Nat]
PlacedFrame == [at : Nat, known : BOOLEAN, header : Nat, payload : Nat]

Placed(f, n) ==
  [at |-> n, known |-> f.known, header |-> f.header, payload |-> f.payload]

(* BaseHeader::total_message_size.  The code adds in u64; a frame stands for a
   base header whose sum is below 2^64, as those of the encoders are. *)
total_message_size(f) == BASE_HEADER_SIZE + f.header + f.payload

(* Offset of the first byte after a placed frame. *)
End(f) == f.at + total_message_size(f)

(* A frame that some limit of the decoder forbids. *)
Oversized(f) ==
  \/ f.header > max_header_size
  \/ total_message_size(f) > max_message_size

(* What the parser sees when the bytes at its head are not the start of a
   frame: a base header that does not parse.  FramedStream shows that its
   parser is never there. *)
NotAFrame(n) == [at |-> n, known |-> FALSE, header |-> 0, payload |-> 0]

(* The frame of stream w that starts at offset n. *)
FrameAt(w, n) ==
  IF \E k \in DOMAIN w : w[k].at = n
  THEN w[CHOOSE k \in DOMAIN w : w[k].at = n]
  ELSE NotAFrame(n)

----------------------------------------------------------------------------
(* MessageParser::push_data accepts n bytes when len are buffered. *)
PushAccepts(len, n) == len + n <= max_message_size

(* MessageCodec::decode hands n > 0 bytes to the parser, or fails. *)
DecodeAccepts(len, n) ==
  /\ n <= max_message_size
  /\ n > 0 => PushAccepts(len, n)

(* MessageParser::try_parse on a buffer of len bytes whose first byte is the
   first byte of frame f.  "none" is Ok(None), "error" is HeaderTooLarge or
   MessageTooLarge; neither of them takes anything out of the buffer. *)
TryParse_OffByOne(f, len) ==
  IF len < BASE_HEADER_SIZE \/ ~f.known THEN "none"
  ELSE IF Oversized(f) THEN "error"
  ELSE IF len <= total_message_size(f) THEN "none" ELSE "message"

TryParse(f, len) ==
  IF len < BASE_HEADER_SIZE \/ ~f.known THEN "none"
  ELSE IF Oversized(f) THEN "error"
  ELSE IF len < total_message_size(f) THEN "none"
  ELSE "message"
=============================================================================
