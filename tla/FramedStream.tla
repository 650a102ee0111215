---------------------------- MODULE FramedStream ----------------------------
(***************************************************************************)
(* One direction of a Framed<T, MessageCodec>: a peer encodes messages into *)
(* a byte stream, a transport delivers the bytes in arbitrary chunks, and   *)
(* the receiving task polls Framed::next, which reads chunks into a buffer  *)
(* (src) and calls MessageCodec::decode; decode moves all of src into the   *)
(* buffer of its MessageParser and tries to parse one message.              *)
(*                                                                         *)
(* Both buffers hold consecutive bytes of the stream, so that positions     *)
(* describe them:                                                          *)
(*    consumed <= pushed    the parser's buffer                            *)
(*    pushed <= received    Framed's read buffer, decode's src             *)
(*    received <= sent      bytes still in the transport                   *)
(*                                                                         *)
(* Framed itself is tokio-util's (external): its read state is the three    *)
(* flags is_readable, eof and has_errored, and poll_next is modelled by     *)
(* Decode, PollErrored, ReadBytes, ReadEof and ReadError.                   *)
(***************************************************************************)
EXTENDS ProtocolFraming

CONSTANTS
  Frames,           \* the messages a peer may try to send
  send_frame_size,  \* max_frame_size of the sending codec
  MaxFrames         \* bound on the number of messages sent

ASSUME StreamAssumption ==
  /\ Frames \subseteq Frame
  /\ send_frame_size \in Nat
  /\ MaxFrames \in Nat

VARIABLES
  wire,         \* the messages encoded so far, placed in the byte stream
  sent,         \* bytes of the stream that exist for the receiver
  open,         \* the sender has not closed its end
  reset,        \* a connection error the transport has yet to report
  received,     \* bytes read from the transport
  pushed,       \* bytes given to the parser
  consumed,     \* bytes split off the parser's buffer
  delivered,    \* the messages poll_next returned
  is_readable, eof, has_errored,   \* ReadFrame of tokio-util
  failed,       \* poll_next has returned a decoding error
  ended         \* poll_next has returned None at the end of the stream

sender == <<wire, sent, open, reset>>
framed == <<is_readable, eof, has_errored>>
vars == <<wire, sent, open, reset, received, pushed, consumed, delivered,
          is_readable, eof, has_errored, failed, ended>>

Init ==
  /\ wire = <<>> /\ sent = 0 /\ open = TRUE /\ reset = FALSE
  /\ received = 0 /\ pushed = 0 /\ consumed = 0
  /\ delivered = <<>>
  /\ is_readable = FALSE /\ eof = FALSE /\ has_errored = FALSE
  /\ failed = FALSE /\ ended = FALSE

SrcLen == received - pushed       \* src.len()
BufferLen == pushed - consumed    \* MessageParser::buffer_size

(* MessageParser::try_parse once all of src is in the parser's buffer. *)
HeadFrame == FrameAt(wire, consumed)
Parsed == TryParse(HeadFrame, received - consumed)

----------------------------------------------------------------------------
(* SinkExt::send: MessageCodec::encode puts a message that fits the sender's
   frame limit on the wire, and refuses any other.  For a RawMessage to_bytes
   also checks the default limits of the crate; Frames holds what passes. *)
EncodeAccepts(f) == total_message_size(f) <= send_frame_size

Send(f) ==
  /\ open
  /\ Len(wire) < MaxFrames
  /\ EncodeAccepts(f)
  /\ wire' = Append(wire, Placed(f, sent))
  /\ sent' = sent + total_message_size(f)
  /\ UNCHANGED <<open, reset, received, pushed, consumed, delivered, framed,
                 failed, ended>>

(* The sender closes, or dies with bytes that were never transmitted; the
   receiver's transport reports an end of file or first a connection error. *)
Close ==
  /\ open
  /\ open' = FALSE
  /\ sent' \in received .. sent
  /\ reset' \in BOOLEAN
  /\ UNCHANGED <<wire, received, pushed, consumed, delivered, framed, failed,
                 ended>>

----------------------------------------------------------------------------
(* MessageCodec::decode returns a message.  is_readable stays set, and the
   next poll decodes again before it reads. *)
DecodeMessage_Pause ==
  /\ is_readable /\ ~has_errored
  /\ DecodeAccepts(BufferLen, SrcLen)
  /\ Parsed = "message"
  /\ pushed' = received
  /\ consumed' = End(HeadFrame)
  /\ delivered' = Append(delivered, HeadFrame)
  /\ is_readable' = FALSE
  /\ UNCHANGED <<sender, received, eof, has_errored, failed, ended>>

DecodeMessage_DropBuffer ==
  /\ is_readable /\ ~has_errored
  /\ DecodeAccepts(BufferLen, SrcLen)
  /\ Parsed = "message"
  /\ pushed' = received
  /\ consumed' = received
  /\ delivered' = Append(delivered, HeadFrame)
  /\ UNCHANGED <<sender, received, framed, failed, ended>>

DecodeMessage ==
  /\ is_readable /\ ~has_errored
  /\ DecodeAccepts(BufferLen, SrcLen)
  /\ Parsed = "message"
  /\ pushed' = received
  /\ consumed' = End(HeadFrame)
  /\ delivered' = Append(delivered, HeadFrame)
  /\ UNCHANGED <<sender, received, framed, failed, ended>>

(* decode returns Ok(None): Framed reads again, or reports the end of the
   stream.  decode_eof finds src empty and therefore never complains about
   remaining bytes, whatever is left in the parser's buffer. *)
DecodeNone ==
  /\ is_readable /\ ~has_errored
  /\ DecodeAccepts(BufferLen, SrcLen)
  /\ Parsed = "none"
  /\ pushed' = received
  /\ is_readable' = FALSE
  /\ ended' = (ended \/ eof)
  /\ UNCHANGED <<sender, received, consumed, delivered, eof, has_errored,
                 failed>>

(* decode fails before it has moved src ... *)
DecodeRejects ==
  /\ is_readable /\ ~has_errored
  /\ ~DecodeAccepts(BufferLen, SrcLen)
  /\ has_errored' = TRUE
  /\ failed' = TRUE
  /\ UNCHANGED <<sender, received, pushed, consumed, delivered, is_readable,
                 eof, ended>>

(* ... or in try_parse, after it has. *)
DecodeFails_Skip ==
  /\ is_readable /\ ~has_errored
  /\ DecodeAccepts(BufferLen, SrcLen)
  /\ Parsed = "error"
  /\ pushed' = received
  /\ consumed' = received
  /\ has_errored' = TRUE
  /\ failed' = TRUE
  /\ UNCHANGED <<sender, received, delivered, is_readable, eof, ended>>

DecodeFails ==
  /\ is_readable /\ ~has_errored
  /\ DecodeAccepts(BufferLen, SrcLen)
  /\ Parsed = "error"
  /\ pushed' = received
  /\ has_errored' = TRUE
  /\ failed' = TRUE
  /\ UNCHANGED <<sender, received, consumed, delivered, is_readable, eof,
                 ended>>

(* The poll after an error returns None and pauses the reader. *)
PollErrored ==
  /\ has_errored
  /\ has_errored' = FALSE
  /\ is_readable' = FALSE
  /\ UNCHANGED <<sender, received, pushed, consumed, delivered, eof, failed,
                 ended>>

(* The transport delivers a chunk of n bytes. *)
ReadBytes(n) ==
  /\ ~is_readable /\ ~has_errored
  /\ received + n <= sent
  /\ received' = received + n
  /\ is_readable' = TRUE
  /\ eof' = FALSE
  /\ UNCHANGED <<sender, pushed, consumed, delivered, has_errored, failed,
                 ended>>

(* A read of zero bytes: the first one lets the decoder look at what is
   buffered once more, later ones return None. *)
ReadEof ==
  /\ ~is_readable /\ ~has_errored
  /\ ~open /\ ~reset /\ received = sent
  /\ eof' = TRUE
  /\ is_readable' = ~eof
  /\ UNCHANGED <<sender, received, pushed, consumed, delivered, has_errored,
                 failed, ended>>

(* poll_next returns the transport's error. *)
ReadError ==
  /\ ~is_readable /\ ~has_errored
  /\ reset /\ received = sent
  /\ reset' = FALSE
  /\ has_errored' = TRUE
  /\ UNCHANGED <<wire, sent, open, received, pushed, consumed, delivered,
                 is_readable, eof, failed, ended>>

Decode == DecodeMessage \/ DecodeNone \/ DecodeRejects \/ DecodeFails

Poll ==
  \/ Decode
  \/ PollErrored
  \/ \E n \in 1 .. (sent - received) : ReadBytes(n)
  \/ ReadEof
  \/ ReadError

Next ==
  \/ \E f \in Frames : Send(f)
  \/ Close
  \/ Poll

Spec == Init /\ [][Next]_vars

(* The receiving task awaits next() in a loop and the runtime polls it
   whenever its transport is readable. *)
FairSpec == Spec /\ WF_vars(Poll)

----------------------------------------------------------------------------
PositionsOK ==
  /\ wire \in Seq(PlacedFrame) /\ delivered \in Seq(PlacedFrame)
  /\ sent \in Nat /\ received \in Nat /\ pushed \in Nat /\ consumed \in Nat
  /\ consumed <= pushed /\ pushed <= received /\ received <= sent

FlagsOK ==
  /\ open \in BOOLEAN /\ reset \in BOOLEAN
  /\ is_readable \in BOOLEAN /\ eof \in BOOLEAN /\ has_errored \in BOOLEAN
  /\ failed \in BOOLEAN /\ ended \in BOOLEAN

(* The state has its types, and the two buffers are consecutive stretches of
   the stream: nothing is parsed before it is pushed or pushed before it is
   received. *)
TypeOK == PositionsOK /\ FlagsOK

(* decode never leaves more than max_message_size bytes in the parser's
   buffer (push_data's check is what bounds a receiver's memory). *)
BufferBounded == BufferLen <= max_message_size

(* The receiver never waits for the transport while a whole message that it
   could return sits in one of its two buffers (Framed decodes again after
   every message, and decode drains src). *)
WaitsOnlyForBytes ==
  ~is_readable /\ ~failed =>
    /\ pushed = received
    /\ TryParse(HeadFrame, BufferLen) = "none"

(* When the end of the stream is reported, every message that arrived whole
   has been returned, up to the first whose base header does not parse. *)
CompleteAtEnd ==
  ended =>
    \A k \in DOMAIN wire :
      /\ End(wire[k]) <= sent
      /\ \A j \in 1 .. k : wire[j].known
      => k <= Len(delivered)

(* A decoding error has a cause that lasts: more than max_message_size bytes
   that no parse will take, or an over-limit frame at the head of the
   buffer. *)
FailureCause ==
  failed =>
    \/ received - consumed > max_message_size
    \/ /\ BufferLen >= BASE_HEADER_SIZE
       /\ HeadFrame.known
       /\ Oversized(HeadFrame)

(* The byte-level stream implements the message channel: messages come out
   in the order they went in, each once, and none after an error. *)
Channel == INSTANCE MessageChannel WITH
  written <- wire, delivered <- delivered, failed <- failed

ImplementsChannel == Channel!Spec

(* Once the sender has closed, every message that was transmitted whole is
   returned in the end, unless decoding failed or a base header before it
   does not parse. *)
EventuallyDelivered ==
  \A k \in 1 .. MaxFrames :
    (~open /\ k <= Len(wire) /\ End(wire[k]) <= sent)
      ~> \/ Len(delivered) >= k
         \/ failed
         \/ \E j \in DOMAIN wire : j <= k /\ ~wire[j].known
=============================================================================
