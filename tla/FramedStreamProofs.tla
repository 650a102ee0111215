------------------------- MODULE FramedStreamProofs -------------------------
(***************************************************************************)
(* Proofs about FramedStream, for every set of frames, every limit and      *)
(* every way of cutting the stream into chunks; and, in the second half, of *)
(* MessageParser used directly, which follows the same framing rules.       *)
(***************************************************************************)
EXTENDS FramedStream, ParserState, TLAPS, SequenceTheorems

(* The frames of a stream lie one after the other. *)
Ordered(w) == \A i, j \in DOMAIN w : i < j => End(w[i]) <= w[j].at

Layout ==
  /\ Ordered(wire)
  /\ \A k \in DOMAIN wire : k + 1 \in DOMAIN wire => wire[k + 1].at = End(wire[k])
  /\ wire # <<>> => wire[1].at = 0
  /\ open => IF wire = <<>> THEN sent = 0 ELSE sent = End(wire[Len(wire)])

(* The parser's buffer starts where the last message returned ended. *)
Aligned ==
  /\ Len(delivered) <= Len(wire)
  /\ \A k \in DOMAIN delivered : delivered[k] = wire[k]
  /\ consumed = IF delivered = <<>> THEN 0 ELSE End(wire[Len(delivered)])

(* The end of the stream is final, and only a decoding error interrupts
   Framed while it is readable. *)
EndState ==
  /\ eof => ~open /\ ~reset /\ received = sent
  /\ ended => eof /\ ~is_readable /\ ~has_errored /\ ~failed
  /\ has_errored /\ is_readable => failed

IInv ==
  /\ TypeOK /\ Layout /\ Aligned /\ EndState
  /\ BufferBounded /\ FailureCause /\ WaitsOnlyForBytes

----------------------------------------------------------------------------
(* A placed frame covers at least a base header. *)
LEMMA FrameFacts ==
  ASSUME NEW f \in PlacedFrame
  PROVE  /\ f.at \in Nat /\ f.header \in Nat /\ f.payload \in Nat
         /\ total_message_size(f) \in Nat
         /\ total_message_size(f) >= BASE_HEADER_SIZE
         /\ End(f) \in Nat /\ f.at < End(f)
         /\ End(f) = f.at + total_message_size(f)
  BY LimitsAssumption DEF PlacedFrame, End, total_message_size

(* The frames of a stream are placed frames. *)
LEMMA StreamFacts ==
  ASSUME NEW w \in Seq(PlacedFrame), NEW k \in DOMAIN w
  PROVE  /\ w[k] \in PlacedFrame
         /\ w[k].at \in Nat /\ End(w[k]) \in Nat /\ w[k].at < End(w[k])
         /\ End(w[k]) = w[k].at + total_message_size(w[k])
         /\ total_message_size(w[k]) \in Nat
         /\ total_message_size(w[k]) >= BASE_HEADER_SIZE
<1>1. w[k] \in PlacedFrame
  OBVIOUS
<1> QED
  BY <1>1, FrameFacts

(* At most one frame starts at an offset, so FrameAt finds it. *)
LEMMA FrameAtFinds ==
  ASSUME NEW w \in Seq(PlacedFrame), Ordered(w), NEW k \in DOMAIN w
  PROVE  FrameAt(w, w[k].at) = w[k]
<1> DEFINE c == CHOOSE i \in DOMAIN w : w[i].at = w[k].at
<1>1. c \in DOMAIN w /\ w[c].at = w[k].at
  OBVIOUS
<1>2. c \in Nat /\ k \in Nat
  BY <1>1
<1>3. c = k
  <2>1. CASE c < k
    BY <2>1, <1>1, StreamFacts DEF Ordered
  <2>2. CASE k < c
    BY <2>2, <1>1, StreamFacts DEF Ordered
  <2> QED
    BY <2>1, <2>2, <1>2
<1> QED
  BY <1>3 DEF FrameAt

(* A stream holds the frame that FrameAt returns, unless none starts there. *)
LEMMA FrameAtMember ==
  ASSUME NEW w \in Seq(PlacedFrame), NEW n \in Nat, FrameAt(w, n).known
  PROVE  \E k \in DOMAIN w : w[k].at = n /\ FrameAt(w, n) = w[k]
<1>1. CASE \E k \in DOMAIN w : w[k].at = n
  BY <1>1 DEF FrameAt
<1>2. CASE ~\E k \in DOMAIN w : w[k].at = n
  BY <1>2 DEF FrameAt, NotAFrame
<1> QED
  BY <1>1, <1>2

(* Appending a frame at the end of a stream leaves the others where they are. *)
LEMMA AppendKeepsFrames ==
  ASSUME NEW w \in Seq(PlacedFrame), NEW f \in PlacedFrame
  PROVE  /\ Append(w, f) \in Seq(PlacedFrame)
         /\ Len(Append(w, f)) = Len(w) + 1
         /\ DOMAIN w = 1 .. Len(w) /\ Len(w) \in Nat
         /\ DOMAIN Append(w, f) = 1 .. (Len(w) + 1)
         /\ \A k \in DOMAIN w : Append(w, f)[k] = w[k]
         /\ Append(w, f)[Len(w) + 1] = f
  OBVIOUS

----------------------------------------------------------------------------
(* While the parser is aligned, the frame at its head is the first that has
   not been returned, and bytes past the last frame are not taken for one. *)
LEMMA HeadIsNextFrame ==
  ASSUME TypeOK, Layout, Aligned
  PROVE  /\ Len(delivered) < Len(wire) =>
              /\ Len(delivered) + 1 \in DOMAIN wire
              /\ wire[Len(delivered) + 1].at = consumed
              /\ HeadFrame = wire[Len(delivered) + 1]
         /\ HeadFrame.known => Len(delivered) < Len(wire)
<1> DEFINE n == Len(delivered)
<1>0. /\ wire \in Seq(PlacedFrame) /\ delivered \in Seq(PlacedFrame)
      /\ n \in Nat /\ Len(wire) \in Nat /\ n <= Len(wire)
      /\ DOMAIN wire = 1 .. Len(wire)
      /\ consumed \in Nat
  BY DEF TypeOK, PositionsOK, Aligned
<1>1. ASSUME n < Len(wire)
      PROVE  /\ n + 1 \in DOMAIN wire
             /\ wire[n + 1].at = consumed
             /\ HeadFrame = wire[n + 1]
  <2>1. n + 1 \in DOMAIN wire
    BY <1>0, <1>1
  <2>2. wire[n + 1].at = consumed
    <3>1. CASE delivered = <<>>
      BY <3>1, <1>0, <1>1 DEF Aligned, Layout
    <3>2. CASE delivered # <<>>
      <4>1. n \in DOMAIN wire
        BY <3>2, <1>0
      <4> QED
        BY <4>1, <3>2, <2>1, <1>0 DEF Aligned, Layout
    <3> QED
      BY <3>1, <3>2
  <2> QED
    BY <2>1, <2>2, <1>0, FrameAtFinds DEF Layout, HeadFrame
<1>2. ASSUME HeadFrame.known
      PROVE  n < Len(wire)
  <2>1. PICK k \in DOMAIN wire : wire[k].at = consumed
    BY <1>0, <1>2, FrameAtMember DEF HeadFrame
  <2>2. SUFFICES ASSUME n = Len(wire)
                 PROVE  FALSE
    BY <1>0
  <2>3. n \in DOMAIN wire /\ delivered # <<>>
    BY <2>1, <2>2, <1>0
  <2>4. consumed = End(wire[n])
    BY <2>3 DEF Aligned
  <2>5. CASE k = n
    BY <2>5, <2>4, <2>1, <1>0, StreamFacts
  <2>6. CASE k # n
    <3>1. k < n /\ k \in Nat
      BY <2>6, <2>2, <1>0
    <3>2. End(wire[k]) <= wire[n].at
      BY <3>1, <2>3, <2>1 DEF Layout, Ordered
    <3>3. wire[k].at \in Nat /\ End(wire[k]) \in Nat /\ wire[k].at < End(wire[k])
      BY <1>0, StreamFacts
    <3>4. wire[n].at \in Nat /\ End(wire[n]) \in Nat /\ wire[n].at < End(wire[n])
      BY <2>3, <1>0, StreamFacts
    <3> QED
      BY <3>2, <3>3, <3>4, <2>1, <2>4
  <2> QED
    BY <2>5, <2>6
<1> QED
  BY <1>1, <1>2

(* The parser returns a message only when all of it is in its buffer. *)
LEMMA ParsedMessage ==
  ASSUME TypeOK, Layout, Aligned, Parsed = "message"
  PROVE  /\ Len(delivered) < Len(wire)
         /\ HeadFrame = wire[Len(delivered) + 1]
         /\ End(HeadFrame) <= received
         /\ ~Oversized(HeadFrame)
<1>1. HeadFrame.known
  BY DEF Parsed, TryParse
<1>2. /\ Len(delivered) < Len(wire)
      /\ Len(delivered) + 1 \in DOMAIN wire
      /\ HeadFrame = wire[Len(delivered) + 1]
      /\ HeadFrame.at = consumed
  BY <1>1, HeadIsNextFrame
<1>3. ~Oversized(HeadFrame) /\ ~(received - consumed < total_message_size(HeadFrame))
  BY DEF Parsed, TryParse
<1>4. /\ End(HeadFrame) = HeadFrame.at + total_message_size(HeadFrame)
      /\ total_message_size(HeadFrame) \in Nat
  BY <1>2, StreamFacts DEF TypeOK, PositionsOK
<1> QED
  BY <1>2, <1>3, <1>4 DEF TypeOK, PositionsOK

(* Why a decoding error is final: as long as its cause lasts, decode neither
   returns a message nor waits for more bytes. *)
LEMMA FailedIsStuck ==
  ASSUME TypeOK, BufferBounded, FailureCause, failed,
         DecodeAccepts(BufferLen, SrcLen)
  PROVE  Parsed = "error"
<1>1. received - consumed <= max_message_size
  BY LimitsAssumption
     DEF DecodeAccepts, PushAccepts, BufferLen, SrcLen, TypeOK, PositionsOK, BufferBounded
<1>2. /\ BufferLen >= BASE_HEADER_SIZE
      /\ HeadFrame.known
      /\ Oversized(HeadFrame)
  BY <1>1, LimitsAssumption DEF FailureCause, TypeOK, PositionsOK
<1>3. ~(received - consumed < BASE_HEADER_SIZE)
  BY <1>2, LimitsAssumption DEF BufferLen, TypeOK, PositionsOK
<1> QED
  BY <1>2, <1>3 DEF Parsed, TryParse

----------------------------------------------------------------------------
(* The initial state satisfies the inductive invariant. *)
LEMMA InitIInv == Init => IInv
<1> SUFFICES ASSUME Init PROVE IInv
  OBVIOUS
<1> USE LimitsAssumption DEF Init
<1>1. TypeOK
  <2>1. PositionsOK
    BY DEF PositionsOK
  <2>2. FlagsOK
    BY Zenon DEF FlagsOK
  <2> QED
    BY <2>1, <2>2 DEF TypeOK
<1>2. Layout
  BY DEF Layout, Ordered
<1>3. Aligned
  BY DEF Aligned
<1>4. EndState
  BY DEF EndState
<1>5. BufferBounded /\ FailureCause
  BY DEF BufferBounded, BufferLen, FailureCause
<1>6. WaitsOnlyForBytes
  BY DEF WaitsOnlyForBytes, BufferLen, TryParse
<1> QED
  BY <1>1, <1>2, <1>3, <1>4, <1>5, <1>6 DEF IInv

(* A new frame goes after all others and moves none of them. *)
LEMMA SendIInv ==
  ASSUME IInv, NEW f \in Frames, Send(f)
  PROVE  IInv'
<1> DEFINE g == Placed(f, sent)
           n == Len(wire)
<1>1. /\ wire \in Seq(PlacedFrame) /\ sent \in Nat /\ open
      /\ TypeOK /\ Layout /\ Aligned
  BY DEF IInv, TypeOK, PositionsOK, Send
<1>2. g \in PlacedFrame /\ g.at = sent /\ End(g) = sent + total_message_size(f)
      /\ total_message_size(f) \in Nat
  <2>1. f \in Frame
    BY StreamAssumption
  <2>2. g \in PlacedFrame /\ g.at = sent
    BY <2>1, <1>1 DEF Placed, PlacedFrame, Frame
  <2>3. total_message_size(g) = total_message_size(f)
    BY DEF Placed, total_message_size
  <2> QED
    BY <2>2, <2>3, FrameFacts
<1>3. /\ wire' \in Seq(PlacedFrame)
      /\ Len(wire') = n + 1 /\ n \in Nat
      /\ DOMAIN wire = 1 .. n /\ DOMAIN wire' = 1 .. (n + 1)
      /\ \A k \in DOMAIN wire : wire'[k] = wire[k]
      /\ wire'[n + 1] = g
  BY <1>1, <1>2, AppendKeepsFrames DEF Send
<1>4. \A k \in DOMAIN wire : End(wire[k]) <= sent
  <2> SUFFICES ASSUME NEW k \in DOMAIN wire PROVE End(wire[k]) <= sent
    OBVIOUS
  <2>1. n \in DOMAIN wire /\ k \in Nat /\ wire # <<>>
    BY <1>3
  <2>2. sent = End(wire[n])
    BY <2>1, <1>1 DEF Layout
  <2>3. CASE k = n
    BY <2>3, <2>2, <1>1
  <2>4. CASE k # n
    <3>1. End(wire[k]) <= wire[n].at
      BY <2>4, <2>1, <1>1, <1>3 DEF Layout, Ordered
    <3>2. End(wire[k]) \in Nat
      BY <1>1, StreamFacts
    <3>3. wire[n].at \in Nat /\ wire[n].at < End(wire[n])
      BY <2>1, <1>1, StreamFacts
    <3> QED
      BY <3>1, <3>2, <3>3, <2>2, <1>1
  <2> QED
    BY <2>3, <2>4
<1>5. TypeOK'
  <2>1. PositionsOK'
    BY <1>1, <1>2, <1>3 DEF TypeOK, PositionsOK, Send
  <2>2. FlagsOK'
    BY <1>1 DEF TypeOK, FlagsOK, Send, framed
  <2> QED
    BY <2>1, <2>2 DEF TypeOK
<1>6. Ordered(wire')
  <2> SUFFICES ASSUME NEW i \in DOMAIN wire', NEW j \in DOMAIN wire', i < j
               PROVE  End(wire'[i]) <= wire'[j].at
    BY DEF Ordered
  <2>1. i \in DOMAIN wire /\ wire'[i] = wire[i]
    BY <1>3
  <2>2. CASE j = n + 1
    BY <2>1, <2>2, <1>2, <1>3, <1>4
  <2>3. CASE j # n + 1
    BY <2>1, <2>3, <1>1, <1>3 DEF Layout, Ordered
  <2> QED
    BY <2>2, <2>3
<1>7. Layout'
  <2>1. ASSUME NEW k \in DOMAIN wire', k + 1 \in DOMAIN wire'
        PROVE  wire'[k + 1].at = End(wire'[k])
    <3>1. k \in DOMAIN wire /\ wire'[k] = wire[k]
      BY <2>1, <1>3
    <3>2. CASE k = n
      <4>1. wire # <<>>
        BY <3>1, <1>3
      <4> QED
        BY <4>1, <3>1, <3>2, <1>1, <1>2, <1>3 DEF Layout
    <3>3. CASE k # n
      BY <3>1, <3>3, <1>1, <1>3 DEF Layout
    <3> QED
      BY <3>2, <3>3
  <2>2. wire'[1].at = 0
    <3>1. CASE wire = <<>>
      BY <3>1, <1>1, <1>2, <1>3 DEF Layout
    <3>2. CASE wire # <<>>
      BY <3>2, <1>1, <1>3 DEF Layout
    <3> QED
      BY <3>1, <3>2
  <2>3. sent' = End(wire'[Len(wire')])
    BY <1>2, <1>3 DEF Send
  <2>4. wire' # <<>>
    BY <1>3
  <2> QED
    BY <1>6, <2>1, <2>2, <2>3, <2>4 DEF Layout
<1>8. Aligned'
  <2>1. UNCHANGED <<delivered, consumed>>
    BY DEF Send
  <2>2. /\ delivered \in Seq(PlacedFrame) /\ Len(delivered) \in Nat
        /\ DOMAIN delivered = 1 .. Len(delivered)
    BY <1>1 DEF TypeOK, PositionsOK
  <2>3. \A k \in DOMAIN delivered : delivered'[k] = wire'[k]
    BY <1>1, <1>3, <2>1, <2>2 DEF Aligned
  <2>4. delivered # <<>> => Len(delivered) \in DOMAIN wire
    BY <1>1, <1>3, <2>2 DEF Aligned
  <2> QED
    BY <1>1, <1>3, <2>1, <2>2, <2>3, <2>4 DEF Aligned
<1>9. HeadFrame.known => HeadFrame' = HeadFrame
  <2> SUFFICES ASSUME HeadFrame.known PROVE HeadFrame' = HeadFrame
    OBVIOUS
  <2>1. /\ Len(delivered) < Len(wire)
        /\ Len(delivered) + 1 \in DOMAIN wire
        /\ HeadFrame = wire[Len(delivered) + 1]
    BY <1>1, HeadIsNextFrame
  <2>2. /\ wire'[Len(delivered) + 1] = wire[Len(delivered) + 1]
        /\ wire[Len(delivered) + 1].at = consumed
        /\ Len(delivered) + 1 \in DOMAIN wire'
    BY <2>1, <1>1, <1>3, HeadIsNextFrame
  <2>3. FrameAt(wire', wire'[Len(delivered) + 1].at) = wire'[Len(delivered) + 1]
    BY <2>2, <1>3, <1>6, FrameAtFinds
  <2> QED
    BY <2>1, <2>2, <2>3 DEF HeadFrame, Send
<1>10. UNCHANGED <<received, pushed, consumed, is_readable, eof, has_errored,
                   failed, ended, reset, open, delivered>>
  BY DEF Send, framed
<1>11. BufferBounded' /\ FailureCause' /\ EndState'
  BY <1>9, <1>10, <1>1
     DEF IInv, BufferBounded, BufferLen, FailureCause, EndState
<1>12. WaitsOnlyForBytes'
  <2> SUFFICES ASSUME ~is_readable, ~failed
               PROVE  TryParse(HeadFrame, BufferLen)' = "none"
    BY <1>10 DEF IInv, WaitsOnlyForBytes
  <2>1. TryParse(HeadFrame, BufferLen) = "none"
    BY DEF IInv, WaitsOnlyForBytes
  <2>2. BufferLen' = BufferLen
    BY <1>10 DEF BufferLen
  <2>3. CASE HeadFrame.known
    BY <2>1, <2>2, <2>3, <1>9
  <2>4. CASE ~HeadFrame.known /\ ~HeadFrame'.known
    BY <2>4, <2>2 DEF TryParse
  <2>5. CASE ~HeadFrame.known /\ HeadFrame'.known
    <3>1. Len(delivered) = n
      <4>1. ~(Len(delivered) < n)
        <5>1. SUFFICES ASSUME Len(delivered) < n PROVE FALSE
          OBVIOUS
        <5>2. /\ Len(delivered) + 1 \in DOMAIN wire
              /\ wire[Len(delivered) + 1].at = consumed
              /\ HeadFrame = wire[Len(delivered) + 1]
          BY <5>1, <1>1, HeadIsNextFrame
        <5>3. FrameAt(wire', wire'[Len(delivered) + 1].at)
                = wire'[Len(delivered) + 1]
          BY <5>2, <1>3, <1>6, FrameAtFinds
        <5> QED
          BY <5>2, <5>3, <2>5, <1>3, <1>10 DEF HeadFrame
      <4> QED
        BY <4>1, <1>1, <1>3 DEF Aligned, TypeOK, PositionsOK
    <3>2. consumed = sent
      BY <3>1, <1>1, <1>3 DEF Aligned, Layout, TypeOK, PositionsOK
    <3>3. BufferLen < BASE_HEADER_SIZE
      BY <3>2, <1>1, LimitsAssumption DEF BufferLen, TypeOK, PositionsOK
    <3> QED
      BY <3>3, <2>2 DEF TryParse
  <2> QED
    BY <2>3, <2>4, <2>5
<1> QED
  BY <1>5, <1>7, <1>8, <1>11, <1>12 DEF IInv

(* Steps that move neither the stream nor the parser's head. *)
LEMMA HeadUnmoved ==
  ASSUME Layout, Aligned, UNCHANGED <<wire, consumed, delivered>>,
         open' => open /\ sent' = sent
  PROVE  Layout' /\ Aligned' /\ HeadFrame' = HeadFrame
<1>1. Layout'
  BY DEF Layout, Ordered
<1>2. Aligned'
  BY DEF Aligned
<1> QED
  BY <1>1, <1>2 DEF HeadFrame

(* Closing the sender's end may only take away bytes that were not received. *)
LEMMA CloseIInv ==
  ASSUME IInv, Close
  PROVE  IInv'
<1>1. TypeOK /\ Layout /\ Aligned
  BY DEF IInv
<1>2. Layout' /\ Aligned' /\ HeadFrame' = HeadFrame
  BY <1>1, HeadUnmoved DEF Close
<1>3. TypeOK'
  <2>1. PositionsOK'
    BY <1>1 DEF TypeOK, PositionsOK, Close
  <2>2. FlagsOK'
    BY <1>1 DEF TypeOK, FlagsOK, Close, framed
  <2> QED
    BY <2>1, <2>2 DEF TypeOK
<1>4. EndState'
  BY DEF IInv, EndState, Close, framed
<1>5. BufferBounded' /\ FailureCause' /\ WaitsOnlyForBytes'
  BY <1>2 DEF IInv, BufferBounded, BufferLen, FailureCause, WaitsOnlyForBytes,
              Close, framed
<1> QED
  BY <1>2, <1>3, <1>4, <1>5 DEF IInv

(* A message is taken out of the buffer exactly. *)
LEMMA DecodeMessageIInv ==
  ASSUME IInv, DecodeMessage
  PROVE  IInv'
<1> DEFINE n == Len(delivered)
<1>1. TypeOK /\ Layout /\ Aligned /\ BufferBounded /\ FailureCause
  BY DEF IInv
<1>2. /\ n < Len(wire) /\ n \in Nat /\ Len(wire) \in Nat
      /\ n + 1 \in DOMAIN wire
      /\ HeadFrame = wire[n + 1]
      /\ HeadFrame.at = consumed
      /\ End(HeadFrame) <= received
  BY <1>1, ParsedMessage, HeadIsNextFrame DEF DecodeMessage, TypeOK, PositionsOK
<1>3. /\ HeadFrame \in PlacedFrame
      /\ End(HeadFrame) \in Nat
      /\ consumed < End(HeadFrame)
  BY <1>1, <1>2, StreamFacts DEF TypeOK, PositionsOK
<1>4. ~failed
  <2> SUFFICES ASSUME failed PROVE FALSE
    OBVIOUS
  <2> QED
    BY <1>1, FailedIsStuck DEF DecodeMessage
<1>5. /\ delivered' \in Seq(PlacedFrame)
      /\ Len(delivered') = n + 1
      /\ DOMAIN delivered = 1 .. n /\ DOMAIN delivered' = 1 .. (n + 1)
      /\ \A k \in DOMAIN delivered : delivered'[k] = delivered[k]
      /\ delivered'[n + 1] = HeadFrame
  BY <1>1, <1>3, AppendKeepsFrames DEF DecodeMessage, TypeOK, PositionsOK
<1>6. TypeOK'
  <2>1. PositionsOK'
    BY <1>1, <1>2, <1>3, <1>5 DEF TypeOK, PositionsOK, DecodeMessage, sender
  <2>2. FlagsOK'
    BY <1>1 DEF TypeOK, FlagsOK, DecodeMessage, framed, sender
  <2> QED
    BY <2>1, <2>2 DEF TypeOK
<1>7. Layout'
  <2>1. UNCHANGED <<wire, sent, open>>
    BY DEF DecodeMessage, sender
  <2> QED
    BY <2>1, <1>1 DEF Layout, Ordered
<1>8. Aligned'
  <2>1. wire' = wire /\ consumed' = End(HeadFrame)
    BY DEF DecodeMessage, sender
  <2>2. Len(delivered') <= Len(wire')
    BY <2>1, <1>2, <1>5
  <2>3. \A k \in DOMAIN delivered' : delivered'[k] = wire'[k]
    BY <2>1, <1>1, <1>2, <1>5 DEF Aligned
  <2>4. delivered' # <<>>
    BY <1>2, <1>5
  <2> QED
    BY <2>1, <2>2, <2>3, <2>4, <1>2, <1>5 DEF Aligned
<1>9. EndState'
  BY DEF IInv, EndState, DecodeMessage, framed, sender
<1>10. BufferBounded'
  <2>1. received - consumed <= max_message_size
    BY <1>1, LimitsAssumption
       DEF DecodeMessage, DecodeAccepts, PushAccepts, BufferLen, SrcLen,
           TypeOK, PositionsOK, BufferBounded
  <2>2. pushed' = received /\ consumed' = End(HeadFrame)
    BY DEF DecodeMessage
  <2> QED
    BY <2>1, <2>2, <1>1, <1>2, <1>3, LimitsAssumption
       DEF BufferBounded, BufferLen, TypeOK, PositionsOK
<1>11. FailureCause' /\ WaitsOnlyForBytes'
  <2>1. ~failed' /\ is_readable'
    BY <1>4 DEF DecodeMessage, framed
  <2> QED
    BY <2>1 DEF FailureCause, WaitsOnlyForBytes
<1> QED
  BY <1>6, <1>7, <1>8, <1>9, <1>10, <1>11 DEF IInv

(* Everything received fits the parser's buffer when decode accepts it. *)
LEMMA AcceptedFits ==
  ASSUME TypeOK, BufferBounded, DecodeAccepts(BufferLen, SrcLen)
  PROVE  received - consumed <= max_message_size
  BY LimitsAssumption
     DEF DecodeAccepts, PushAccepts, BufferLen, SrcLen, TypeOK, PositionsOK,
         BufferBounded

(* An Ok(None) leaves nothing in src, and is impossible after an error. *)
LEMMA DecodeNoneIInv ==
  ASSUME IInv, DecodeNone
  PROVE  IInv'
<1>1. TypeOK /\ Layout /\ Aligned /\ BufferBounded /\ FailureCause /\ EndState
  BY DEF IInv
<1>2. Layout' /\ Aligned' /\ HeadFrame' = HeadFrame
  BY <1>1, HeadUnmoved DEF DecodeNone, sender
<1>3. ~failed
  <2> SUFFICES ASSUME failed PROVE FALSE
    OBVIOUS
  <2> QED
    BY <1>1, FailedIsStuck DEF DecodeNone
<1>4. TypeOK'
  <2>1. PositionsOK'
    BY <1>1 DEF TypeOK, PositionsOK, DecodeNone, sender
  <2>2. FlagsOK'
    BY <1>1 DEF TypeOK, FlagsOK, DecodeNone, sender
  <2> QED
    BY <2>1, <2>2 DEF TypeOK
<1>5. EndState'
  BY <1>1, <1>3 DEF EndState, DecodeNone, sender
<1>6. BufferBounded'
  BY <1>1, AcceptedFits DEF DecodeNone, BufferBounded, BufferLen
<1>7. FailureCause'
  BY <1>3 DEF FailureCause, DecodeNone
<1>8. WaitsOnlyForBytes'
  BY <1>2 DEF WaitsOnlyForBytes, DecodeNone, Parsed, BufferLen
<1> QED
  BY <1>2, <1>4, <1>5, <1>6, <1>7, <1>8 DEF IInv

(* decode refuses src only when more than a whole message is outstanding. *)
LEMMA DecodeRejectsIInv ==
  ASSUME IInv, DecodeRejects
  PROVE  IInv'
<1>1. TypeOK /\ Layout /\ Aligned /\ BufferBounded /\ EndState
  BY DEF IInv
<1>2. Layout' /\ Aligned' /\ HeadFrame' = HeadFrame
  BY <1>1, HeadUnmoved DEF DecodeRejects, sender
<1>3. TypeOK'
  <2>1. PositionsOK'
    BY <1>1 DEF TypeOK, PositionsOK, DecodeRejects, sender
  <2>2. FlagsOK'
    BY <1>1 DEF TypeOK, FlagsOK, DecodeRejects, sender
  <2> QED
    BY <2>1, <2>2 DEF TypeOK
<1>4. EndState'
  BY <1>1 DEF EndState, DecodeRejects, sender
<1>5. BufferBounded'
  BY <1>1 DEF BufferBounded, BufferLen, DecodeRejects
<1>6. FailureCause'
  <2>1. received - consumed > max_message_size
    BY <1>1, LimitsAssumption
       DEF DecodeRejects, DecodeAccepts, PushAccepts, BufferLen, SrcLen,
           TypeOK, PositionsOK, BufferBounded
  <2> QED
    BY <2>1 DEF FailureCause, DecodeRejects
<1>7. WaitsOnlyForBytes'
  BY DEF WaitsOnlyForBytes, DecodeRejects
<1> QED
  BY <1>2, <1>3, <1>4, <1>5, <1>6, <1>7 DEF IInv

(* try_parse fails on an over-limit frame and leaves it at the head. *)
LEMMA DecodeFailsIInv ==
  ASSUME IInv, DecodeFails
  PROVE  IInv'
<1>1. TypeOK /\ Layout /\ Aligned /\ BufferBounded /\ EndState
  BY DEF IInv
<1>2. Layout' /\ Aligned' /\ HeadFrame' = HeadFrame
  BY <1>1, HeadUnmoved DEF DecodeFails, sender
<1>3. TypeOK'
  <2>1. PositionsOK'
    BY <1>1 DEF TypeOK, PositionsOK, DecodeFails, sender
  <2>2. FlagsOK'
    BY <1>1 DEF TypeOK, FlagsOK, DecodeFails, sender
  <2> QED
    BY <2>1, <2>2 DEF TypeOK
<1>4. EndState'
  BY <1>1 DEF EndState, DecodeFails, sender
<1>5. BufferBounded'
  BY <1>1, AcceptedFits DEF DecodeFails, BufferBounded, BufferLen
<1>6. FailureCause'
  <2>1. /\ ~(received - consumed < BASE_HEADER_SIZE)
        /\ HeadFrame.known /\ Oversized(HeadFrame)
    BY DEF DecodeFails, Parsed, TryParse
  <2>2. BufferLen' >= BASE_HEADER_SIZE
    BY <2>1, <1>1, LimitsAssumption DEF DecodeFails, BufferLen, TypeOK, PositionsOK
  <2> QED
    BY <2>1, <2>2, <1>2 DEF FailureCause, Oversized, total_message_size
<1>7. WaitsOnlyForBytes'
  BY DEF WaitsOnlyForBytes, DecodeFails
<1> QED
  BY <1>2, <1>3, <1>4, <1>5, <1>6, <1>7 DEF IInv

(* A distance grows with its far end. *)
LEMMA GapGrows ==
  ASSUME NEW a \in Nat, NEW b \in Nat, NEW c \in Nat, NEW m \in Nat,
         a - b > m, a <= c
  PROVE  c - b > m
  OBVIOUS

(* Reading moves only the end of src, and the poll after an error only
   Framed's flags. *)
LEMMA ReadIInv ==
  ASSUME IInv,
         \/ PollErrored \/ ReadEof \/ ReadError
         \/ \E n \in 1 .. (sent - received) : ReadBytes(n)
  PROVE  IInv'
<1>1. /\ TypeOK /\ Layout /\ Aligned /\ BufferBounded /\ EndState
      /\ FailureCause /\ WaitsOnlyForBytes
  BY DEF IInv
<1>2. /\ UNCHANGED <<wire, sent, open, pushed, consumed, delivered, failed, ended>>
      /\ received' \in Nat /\ received <= received' /\ received' <= sent
  <2>1. CASE PollErrored \/ ReadEof
    BY <2>1, <1>1 DEF PollErrored, ReadEof, sender, TypeOK, PositionsOK
  <2>2. CASE ReadError
    BY <2>2, <1>1 DEF ReadError, TypeOK, PositionsOK
  <2>3. ASSUME NEW n \in 1 .. (sent - received), ReadBytes(n)
        PROVE  /\ UNCHANGED <<wire, sent, open, pushed, consumed, delivered,
                              failed, ended>>
               /\ received' \in Nat /\ received <= received' /\ received' <= sent
    BY <2>3, <1>1 DEF ReadBytes, sender, TypeOK, PositionsOK
  <2> QED
    BY <2>1, <2>2, <2>3
<1>3. Layout' /\ Aligned' /\ HeadFrame' = HeadFrame
  BY <1>1, <1>2, HeadUnmoved
<1>4. PositionsOK'
  BY <1>1, <1>2 DEF TypeOK, PositionsOK
<1>5. FlagsOK'
  BY <1>1 DEF TypeOK, FlagsOK, PollErrored, ReadEof, ReadError, ReadBytes, sender
<1>6. EndState'
  <2>1. CASE PollErrored
    BY <2>1, <1>1 DEF EndState, PollErrored, sender
  <2>2. CASE ReadEof
    BY <2>2, <1>1 DEF EndState, ReadEof, sender
  <2>3. CASE ReadError
    BY <2>3, <1>1 DEF EndState, ReadError
  <2>4. ASSUME NEW n \in 1 .. (sent - received), ReadBytes(n)
        PROVE  EndState'
    <3>1. ~eof
      BY <2>4, <1>1 DEF EndState, TypeOK, PositionsOK
    <3> QED
      BY <2>4, <3>1, <1>1 DEF EndState, ReadBytes, sender
  <2> QED
    BY <2>1, <2>2, <2>3, <2>4
<1>7. BufferBounded'
  BY <1>1, <1>2 DEF BufferBounded, BufferLen
<1>8. received - consumed > max_message_size
        => received' - consumed' > max_message_size
  <2>1. /\ received \in Nat /\ consumed \in Nat /\ consumed' = consumed
        /\ received' \in Nat /\ received <= received'
    BY <1>1, <1>2 DEF TypeOK, PositionsOK
  <2> QED
    BY <2>1, LimitsAssumption, GapGrows
<1>9. FailureCause'
  <2> SUFFICES ASSUME failed PROVE FailureCause'
    BY <1>2 DEF FailureCause
  <2>1. CASE received - consumed > max_message_size
    BY <2>1, <1>8 DEF FailureCause
  <2>2. CASE BufferLen >= BASE_HEADER_SIZE /\ HeadFrame.known /\ Oversized(HeadFrame)
    BY <2>2, <1>2, <1>3 DEF FailureCause, BufferLen, Oversized, total_message_size
  <2> QED
    BY <2>1, <2>2, <1>1 DEF FailureCause
<1>10. WaitsOnlyForBytes'
  <2>1. CASE PollErrored
    <3>1. failed \/ (pushed = received /\ TryParse(HeadFrame, BufferLen) = "none")
      BY <1>1, <2>1 DEF WaitsOnlyForBytes, PollErrored, EndState
    <3> QED
      BY <3>1, <2>1, <1>2, <1>3 DEF WaitsOnlyForBytes, PollErrored, BufferLen
  <2>2. CASE ReadEof
    BY <2>2, <1>1, <1>3 DEF WaitsOnlyForBytes, ReadEof, BufferLen
  <2>3. CASE ReadError
    BY <2>3, <1>1, <1>3 DEF WaitsOnlyForBytes, ReadError, BufferLen
  <2>4. ASSUME NEW n \in 1 .. (sent - received), ReadBytes(n)
        PROVE  WaitsOnlyForBytes'
    BY <2>4 DEF WaitsOnlyForBytes, ReadBytes
  <2> QED
    BY <2>1, <2>2, <2>3, <2>4
<1> QED
  BY <1>3, <1>4, <1>5, <1>6, <1>7, <1>9, <1>10 DEF IInv, TypeOK

----------------------------------------------------------------------------
(* Every step of the stream preserves the inductive invariant. *)
LEMMA NextIInv == IInv /\ [Next]_vars => IInv'
<1> SUFFICES ASSUME IInv, [Next]_vars PROVE IInv'
  OBVIOUS
<1>1. ASSUME NEW f \in Frames, Send(f) PROVE IInv'
  BY <1>1, SendIInv
<1>2. CASE Close
  BY <1>2, CloseIInv
<1>3. CASE DecodeMessage
  BY <1>3, DecodeMessageIInv
<1>4. CASE DecodeNone
  BY <1>4, DecodeNoneIInv
<1>5. CASE DecodeRejects
  BY <1>5, DecodeRejectsIInv
<1>6. CASE DecodeFails
  BY <1>6, DecodeFailsIInv
<1>7. CASE \/ PollErrored \/ ReadEof \/ ReadError
           \/ \E n \in 1 .. (sent - received) : ReadBytes(n)
  BY <1>7, ReadIInv
<1>8. CASE UNCHANGED vars
  BY <1>8 DEF vars, IInv, TypeOK, PositionsOK, FlagsOK, Layout, Ordered, Aligned,
              EndState, BufferBounded, BufferLen, FailureCause,
              WaitsOnlyForBytes, HeadFrame
<1> QED
  BY <1>1, <1>2, <1>3, <1>4, <1>5, <1>6, <1>7, <1>8 DEF Next, Poll, Decode

(* The inductive invariant holds in every reachable state. *)
THEOREM InductiveInvariant == Spec => []IInv
  BY InitIInv, NextIInv, PTL DEF Spec

(* Every variable keeps its type, and the parser's buffer and Framed's read
   buffer stay consecutive stretches of the stream. *)
THEOREM TypeCorrect == Spec => []TypeOK
<1>1. IInv => TypeOK
  BY DEF IInv
<1> QED
  BY <1>1, InductiveInvariant, PTL

(* MessageParser's buffer never holds more than max_message_size bytes,
   however the stream is cut into chunks. *)
THEOREM ParserBufferBounded == Spec => []BufferBounded
<1>1. IInv => BufferBounded
  BY DEF IInv
<1> QED
  BY <1>1, InductiveInvariant, PTL

(* Framed never waits for its transport while decode could return a message
   from what it holds. *)
THEOREM NeverWaitsOnAMessage == Spec => []WaitsOnlyForBytes
<1>1. IInv => WaitsOnlyForBytes
  BY DEF IInv
<1> QED
  BY <1>1, InductiveInvariant, PTL

(* The cause of a decoding error outlasts every later step. *)
THEOREM FailureCauseLasts == Spec => []FailureCause
<1>1. IInv => FailureCause
  BY DEF IInv
<1> QED
  BY <1>1, InductiveInvariant, PTL

(* At the reported end of the stream, no whole message is missing that comes
   before a base header the parser does not know. *)
THEOREM EndIsComplete == Spec => []CompleteAtEnd
<1>1. ASSUME IInv PROVE CompleteAtEnd
  <2> DEFINE n == Len(delivered)
  <2> SUFFICES ASSUME ended, NEW k \in DOMAIN wire, End(wire[k]) <= sent,
                      \A j \in 1 .. k : wire[j].known, ~(k <= n)
               PROVE  FALSE
    BY DEF CompleteAtEnd
  <2>1. /\ TypeOK /\ Layout /\ Aligned
        /\ pushed = received /\ received = sent
        /\ TryParse(HeadFrame, BufferLen) = "none"
    BY <1>1 DEF IInv, EndState, WaitsOnlyForBytes
  <2>2. /\ wire \in Seq(PlacedFrame) /\ n \in Nat /\ k \in Nat
        /\ n < Len(wire) /\ n + 1 \in DOMAIN wire /\ n + 1 \in 1 .. k
    BY <2>1 DEF TypeOK, PositionsOK
  <2>3. HeadFrame = wire[n + 1] /\ wire[n + 1].at = consumed
    BY <2>1, <2>2, HeadIsNextFrame
  <2>4. HeadFrame.known
    BY <2>2, <2>3
  <2>5. End(wire[n + 1]) <= sent
    <3>1. CASE k = n + 1
      BY <3>1
    <3>2. CASE k # n + 1
      <4>1. End(wire[n + 1]) <= wire[k].at
        BY <3>2, <2>1, <2>2 DEF Layout, Ordered
      <4>2. wire[k].at \in Nat /\ End(wire[k]) \in Nat /\ wire[k].at < End(wire[k])
        BY <2>2, StreamFacts
      <4>3. End(wire[n + 1]) \in Nat /\ sent \in Nat
        BY <2>1, <2>2, StreamFacts DEF TypeOK, PositionsOK
      <4> QED
        BY <4>1, <4>2, <4>3
    <3> QED
      BY <3>1, <3>2
  <2>6. /\ total_message_size(HeadFrame) \in Nat
        /\ total_message_size(HeadFrame) >= BASE_HEADER_SIZE
        /\ End(HeadFrame) = consumed + total_message_size(HeadFrame)
    BY <2>2, <2>3, StreamFacts
  <2>7. BufferLen >= total_message_size(HeadFrame) /\ BufferLen \in Nat
    BY <2>1, <2>3, <2>5, <2>6 DEF BufferLen, TypeOK, PositionsOK
  <2>8. ~(BufferLen < total_message_size(HeadFrame)) /\ ~(BufferLen < BASE_HEADER_SIZE)
    BY <2>6, <2>7, LimitsAssumption
  <2> QED
    BY <2>1, <2>4, <2>8 DEF TryParse
<1>2. IInv => CompleteAtEnd
  BY <1>1
<1> QED
  BY <1>2, InductiveInvariant, PTL

----------------------------------------------------------------------------
(* Steps of the stream that the message channel does not see. *)
LEMMA ChannelStutters ==
  ASSUME UNCHANGED <<wire, delivered, failed>>
  PROVE  [Channel!Next]_Channel!vars
  BY DEF Channel!vars

(* Every step of the stream is a step of the message channel or leaves it
   unchanged. *)
LEMMA StepRefinement ==
  ASSUME IInv, [Next]_vars
  PROVE  [Channel!Next]_Channel!vars
<1>1. TypeOK /\ Layout /\ Aligned /\ BufferBounded /\ FailureCause
  BY DEF IInv
<1>2. ASSUME NEW f \in Frames, Send(f)
      PROVE  Channel!Write
  <2>1. Placed(f, sent) \in PlacedFrame
    BY StreamAssumption, <1>1 DEF Placed, PlacedFrame, Frame, TypeOK, PositionsOK
  <2>2. /\ Len(wire') = Len(wire) + 1
        /\ \A k \in DOMAIN wire : wire'[k] = wire[k]
    BY <1>1, <1>2, <2>1, AppendKeepsFrames DEF Send, TypeOK, PositionsOK
  <2> QED
    BY <1>2, <2>2 DEF Channel!Write, Send
<1>3. ASSUME DecodeMessage
      PROVE  Channel!Deliver
  <2>1. ~failed
    <3> SUFFICES ASSUME failed PROVE FALSE
      OBVIOUS
    <3> QED
      BY <1>1, <1>3, FailedIsStuck DEF DecodeMessage
  <2>2. /\ Len(delivered) < Len(wire)
        /\ HeadFrame = wire[Len(delivered) + 1]
    BY <1>1, <1>3, ParsedMessage DEF DecodeMessage
  <2> QED
    BY <1>3, <2>1, <2>2 DEF Channel!Deliver, DecodeMessage, sender
<1>4. CASE DecodeRejects \/ DecodeFails
  BY <1>4 DEF Channel!Next, Channel!Fail, DecodeRejects, DecodeFails, sender
<1>5. CASE \/ Close \/ DecodeNone \/ PollErrored \/ ReadEof \/ ReadError
           \/ \E n \in 1 .. (sent - received) : ReadBytes(n)
  <2>1. UNCHANGED <<wire, delivered, failed>>
    BY <1>5 DEF Close, DecodeNone, PollErrored, ReadEof, ReadError, ReadBytes, sender
  <2> QED
    BY <2>1, ChannelStutters
<1>6. CASE UNCHANGED vars
  BY <1>6, ChannelStutters DEF vars
<1> QED
  BY <1>2, <1>3, <1>4, <1>5, <1>6 DEF Next, Poll, Decode, Channel!Next

(* A Framed<T, MessageCodec> implements the message channel: whatever the
   chunks, messages are returned in the order they were sent, each once, and
   none after a decoding error. *)
THEOREM StreamImplementsChannel == Spec => ImplementsChannel
<1>1. Init => Channel!Init
  BY DEF Init, Channel!Init
<1>2. IInv /\ [Next]_vars => [Channel!Next]_Channel!vars
  BY StepRefinement
<1> QED
  BY <1>1, <1>2, InductiveInvariant, PTL DEF Spec, ImplementsChannel, Channel!Spec

----------------------------------------------------------------------------
(***************************************************************************)
(* The MessageParser used directly, for every stream, every way of pushing  *)
(* it and every mix of try_parse and parse_all.                             *)
(***************************************************************************)
Parser == INSTANCE MessageParser

(* Where the first k messages of the stream end. *)
Offset(k) == IF k = 0 THEN 0 ELSE End(stream[k])

(* The stream's messages lie one after the other. *)
EndToEnd ==
  /\ Ordered(stream)
  /\ \A k \in DOMAIN stream : k # 1 => stream[k].at = End(stream[k - 1])
  /\ stream # <<>> => stream[1].at = 0

(* The parser has split off k messages and returned all of them, or has met
   an over-limit frame behind those that a parse_all dropped. *)
Split(k) ==
  /\ taken = Offset(k)
  /\ Len(returned) <= k
  /\ Len(returned) # k => ParseFrom(taken) = "error"

ParserIInv ==
  /\ Parser!TypeOK /\ EndToEnd
  /\ \E k \in 0 .. Len(stream) : Split(k)
  /\ \A i \in DOMAIN returned : returned[i] = stream[i]

(* The parser follows the framing rules that decode follows. *)
LEMMA ParserRules ==
  /\ Parser!PlacedFrame = PlacedFrame
  /\ \A f : Parser!End(f) = End(f)
  /\ \A n : Parser!ParseFrom(n) = ParseFrom(n)
  /\ \A n : Parser!FrameAt(stream, n) = FrameAt(stream, n)
  /\ \A f, n : Parser!Placed(f, n) = Placed(f, n)
  /\ Parser!Written = Offset(Len(stream))
  BY DEF Parser!PlacedFrame, PlacedFrame, Parser!End, End,
       Parser!total_message_size, total_message_size, Parser!ParseFrom, ParseFrom,
       Parser!TryParse, TryParse, Parser!Oversized, Oversized, Parser!FrameAt,
       FrameAt, Parser!NotAFrame, NotAFrame, Parser!Placed, Placed,
       Parser!Written, Offset

(* The types of the state, in terms of the rules above. *)
LEMMA ParserTypes ==
  ASSUME Parser!TypeOK
  PROVE  /\ stream \in Seq(PlacedFrame) /\ returned \in Seq(PlacedFrame)
         /\ Len(stream) \in Nat /\ DOMAIN stream = 1 .. Len(stream)
         /\ Len(returned) \in Nat /\ DOMAIN returned = 1 .. Len(returned)
         /\ \A k \in 0 .. Len(stream) : Offset(k) \in Nat
         /\ taken \in Nat /\ fed \in Nat
         /\ taken <= fed /\ fed <= Offset(Len(stream))
<1>1. stream \in Seq(PlacedFrame) /\ returned \in Seq(PlacedFrame)
  BY ParserRules DEF Parser!TypeOK
<1>2. \A k \in 0 .. Len(stream) : Offset(k) \in Nat
  BY <1>1, StreamFacts DEF Offset
<1>3. Offset(Len(stream)) \in Nat
  BY <1>1, <1>2
<1> QED
  BY <1>1, <1>2, <1>3, ParserRules DEF Parser!TypeOK

(* The next message starts where the first k end, and the messages that
   start before that offset are the first k. *)
LEMMA OffsetFacts ==
  ASSUME Parser!TypeOK, EndToEnd, NEW k \in 0 .. Len(stream)
  PROVE  /\ k < Len(stream) => stream[k + 1].at = Offset(k)
         /\ {j \in DOMAIN stream : stream[j].at < Offset(k)} = 1 .. k
<1>1. /\ stream \in Seq(PlacedFrame) /\ Len(stream) \in Nat
      /\ DOMAIN stream = 1 .. Len(stream) /\ k \in Nat
  BY ParserTypes
<1>2. k < Len(stream) => stream[k + 1].at = Offset(k)
  BY <1>1 DEF EndToEnd, Offset
<1>3. ASSUME NEW j \in DOMAIN stream
      PROVE  stream[j].at < Offset(k) <=> j <= k
  <2>0. /\ j \in Nat /\ stream[j].at \in Nat /\ End(stream[j]) \in Nat
        /\ stream[j].at < End(stream[j]) /\ j # 0
    BY <1>1, StreamFacts
  <2>1. CASE k = 0
    BY <2>0, <2>1 DEF Offset
  <2>2. CASE k # 0
    <3>1. /\ k \in DOMAIN stream /\ Offset(k) = End(stream[k])
          /\ stream[k].at \in Nat /\ End(stream[k]) \in Nat
          /\ stream[k].at < End(stream[k])
      BY <2>2, <1>1, StreamFacts DEF Offset
    <3>2. CASE j < k
      <4>1. End(stream[j]) <= stream[k].at
        BY <3>1, <3>2 DEF EndToEnd, Ordered
      <4> QED BY <4>1, <3>1, <3>2, <2>0, <1>1
    <3>3. CASE j = k
      BY <3>1, <3>3
    <3>4. CASE k < j
      <4>1. End(stream[k]) <= stream[j].at
        BY <3>1, <3>4 DEF EndToEnd, Ordered
      <4> QED BY <4>1, <3>1, <3>4, <2>0, <1>1
    <3> QED BY <3>2, <3>3, <3>4, <2>0, <1>1
  <2> QED BY <2>1, <2>2
<1>4. {j \in DOMAIN stream : stream[j].at < Offset(k)} = 1 .. k
  BY <1>1, <1>3
<1> QED BY <1>2, <1>4

(* At the end of k messages the parser sees message k + 1 or nothing, and it
   returns that message only when all of it was pushed. *)
LEMMA ParsesNext ==
  ASSUME Parser!TypeOK, EndToEnd, NEW k \in 0 .. Len(stream),
         ParseFrom(Offset(k)) # "none"
  PROVE  /\ k < Len(stream) /\ k + 1 \in DOMAIN stream
         /\ FrameAt(stream, Offset(k)) = stream[k + 1]
         /\ ParseFrom(Offset(k)) = "message" => End(stream[k + 1]) <= fed
<1>1. /\ stream \in Seq(PlacedFrame) /\ Len(stream) \in Nat
      /\ DOMAIN stream = 1 .. Len(stream) /\ k \in Nat
      /\ Offset(k) \in Nat /\ fed \in Nat
  BY ParserTypes
<1>2. FrameAt(stream, Offset(k)).known
  BY DEF ParseFrom, TryParse
<1>3. PICK j \in DOMAIN stream : stream[j].at = Offset(k)
  BY <1>1, <1>2, FrameAtMember
<1>4. j \notin 1 .. k
  BY <1>1, <1>3, OffsetFacts
<1>5. k < Len(stream) /\ k + 1 \in DOMAIN stream
  BY <1>1, <1>4
<1>6. stream[k + 1].at = Offset(k)
  BY <1>5, OffsetFacts
<1>7. FrameAt(stream, Offset(k)) = stream[k + 1]
  BY <1>1, <1>5, <1>6, FrameAtFinds DEF EndToEnd
<1>8. ASSUME ParseFrom(Offset(k)) = "message"
      PROVE  End(stream[k + 1]) <= fed
  <2>1. ~(fed - Offset(k) < total_message_size(stream[k + 1]))
    BY <1>7, <1>8 DEF ParseFrom, TryParse
  <2>2. /\ End(stream[k + 1]) = Offset(k) + total_message_size(stream[k + 1])
        /\ total_message_size(stream[k + 1]) \in Nat
    BY <1>1, <1>5, <1>6, StreamFacts
  <2> QED BY <2>1, <2>2, <1>1
<1> QED BY <1>5, <1>7, <1>8

(* More bytes and more messages behind it do not change that the frame at the
   head is over a limit. *)
LEMMA ErrorStays ==
  ASSUME Parser!TypeOK, EndToEnd, NEW k \in 0 .. Len(stream),
         ParseFrom(Offset(k)) = "error",
         stream' \in Seq(PlacedFrame), Ordered(stream)',
         Len(stream') >= Len(stream),
         \A j \in DOMAIN stream : stream'[j] = stream[j],
         fed' \in Nat, fed' >= fed
  PROVE  ParseFrom(Offset(k))' = "error"
<1>1. /\ stream \in Seq(PlacedFrame) /\ Len(stream) \in Nat
      /\ DOMAIN stream = 1 .. Len(stream) /\ Offset(k) \in Nat /\ fed \in Nat
      /\ Len(stream') \in Nat /\ DOMAIN stream' = 1 .. Len(stream')
  BY ParserTypes
<1>2. /\ k + 1 \in DOMAIN stream /\ FrameAt(stream, Offset(k)) = stream[k + 1]
      /\ stream[k + 1].at = Offset(k)
  BY ParsesNext, OffsetFacts
<1>3. k + 1 \in DOMAIN stream' /\ stream'[k + 1] = stream[k + 1]
  BY <1>1, <1>2
<1>4. FrameAt(stream', Offset(k)) = stream[k + 1]
  <2>1. FrameAt(stream', stream'[k + 1].at) = stream'[k + 1]
    BY <1>3, FrameAtFinds
  <2> QED BY <2>1, <1>2, <1>3
<1>5. Offset(k)' = Offset(k)
  BY <1>1 DEF Offset
<1>6. /\ ~(fed - Offset(k) < BASE_HEADER_SIZE) /\ stream[k + 1].known
      /\ Oversized(stream[k + 1])
  BY <1>2 DEF ParseFrom, TryParse
<1>7. ~(fed' - Offset(k) < BASE_HEADER_SIZE)
  BY <1>1, <1>6, LimitsAssumption
<1> QED BY <1>4, <1>5, <1>6, <1>7 DEF ParseFrom, TryParse

----------------------------------------------------------------------------
(* A new parser has split off nothing of an empty stream. *)
LEMMA ParserInit == Parser!Init => ParserIInv
<1> SUFFICES ASSUME Parser!Init PROVE ParserIInv
  OBVIOUS
<1>1. /\ stream = <<>> /\ returned = <<>> /\ fed = 0 /\ taken = 0
      /\ result = "ok" /\ clears = 0
  BY DEF Parser!Init
<1>2. Parser!TypeOK
  BY <1>1, ParserAssumption DEF Parser!TypeOK, Parser!Written
<1>3. EndToEnd
  BY <1>1 DEF EndToEnd, Ordered
<1>4. Split(0)
  BY <1>1 DEF Split, Offset
<1> QED BY <1>1, <1>2, <1>3, <1>4 DEF ParserIInv

(* Another message at the end of the stream. *)
LEMMA ProduceStep ==
  ASSUME ParserIInv, NEW f \in Messages, Parser!Produce(f)
  PROVE  ParserIInv'
<1> DEFINE n == Len(stream)
           g == Placed(f, Offset(n))
<1>0. Parser!TypeOK /\ EndToEnd
  BY DEF ParserIInv
<1>1. /\ stream \in Seq(PlacedFrame) /\ n \in Nat /\ DOMAIN stream = 1 .. n
      /\ Offset(n) \in Nat /\ fed \in Nat /\ taken \in Nat
      /\ fed <= Offset(n) /\ taken <= fed /\ returned \in Seq(PlacedFrame)
  BY <1>0, ParserTypes
<1>2. /\ stream' = Append(stream, g)
      /\ UNCHANGED <<fed, taken, returned, result, clears>>
  BY ParserRules DEF Parser!Produce
<1>3. g \in PlacedFrame /\ g.at = Offset(n) /\ End(g) \in Nat /\ g.at < End(g)
  <2>1. g \in PlacedFrame /\ g.at = Offset(n)
    BY <1>1, ParserAssumption DEF Placed, PlacedFrame, Frame
  <2> QED BY <2>1, FrameFacts
<1>4. /\ stream' \in Seq(PlacedFrame) /\ Len(stream') = n + 1
      /\ DOMAIN stream' = 1 .. (n + 1)
      /\ \A k \in DOMAIN stream : stream'[k] = stream[k]
      /\ stream'[n + 1] = g
  BY <1>1, <1>2, <1>3, AppendKeepsFrames
<1>5. EndToEnd'
  <2>1. \A j \in 1 .. n : End(stream[j]) <= Offset(n)
    <3> SUFFICES ASSUME NEW j \in 1 .. n PROVE End(stream[j]) <= Offset(n)
      OBVIOUS
    <3>1. n \in DOMAIN stream /\ Offset(n) = End(stream[n]) /\ j \in DOMAIN stream
      BY <1>1 DEF Offset
    <3>2. /\ stream[n].at \in Nat /\ End(stream[n]) \in Nat
          /\ stream[n].at < End(stream[n]) /\ End(stream[j]) \in Nat
      BY <1>1, <3>1, StreamFacts
    <3>3. CASE j = n
      BY <3>1, <3>2, <3>3
    <3>4. CASE j < n
      <4>1. End(stream[j]) <= stream[n].at
        BY <1>0, <3>1, <3>4 DEF EndToEnd, Ordered
      <4>2. End(stream[j]) <= End(stream[n])
        BY <4>1, <3>2
      <4> QED BY <4>2, <3>1
    <3>5. j = n \/ j < n
      <4> HIDE DEF n
      <4> QED BY <1>1
    <3> QED BY <3>3, <3>4, <3>5
  <2>2. Ordered(stream)'
    <3> SUFFICES ASSUME NEW i \in 1 .. (n + 1), NEW j \in 1 .. (n + 1), i < j
                 PROVE  End(stream'[i]) <= stream'[j].at
      BY <1>4 DEF Ordered
    <3>1. i \in 1 .. n /\ stream'[i] = stream[i]
      BY <1>1, <1>4
    <3>2. CASE j = n + 1
      BY <3>1, <3>2, <2>1, <1>3, <1>4
    <3>3. CASE j # n + 1
      <4>1. i \in DOMAIN stream /\ j \in DOMAIN stream /\ stream'[j] = stream[j]
        BY <3>1, <3>3, <1>1, <1>4
      <4>2. End(stream[i]) <= stream[j].at
        BY <4>1, <1>0 DEF EndToEnd, Ordered
      <4> QED BY <4>1, <4>2, <3>1
    <3> QED BY <3>2, <3>3
  <2>3. \A k \in 1 .. (n + 1) : k # 1 => stream'[k].at = End(stream'[k - 1])
    <3> SUFFICES ASSUME NEW k \in 1 .. (n + 1), k # 1
                 PROVE  stream'[k].at = End(stream'[k - 1])
      OBVIOUS
    <3>1. k - 1 \in 1 .. n /\ stream'[k - 1] = stream[k - 1]
      BY <1>1, <1>4
    <3>2. CASE k = n + 1
      BY <3>1, <3>2, <1>1, <1>3, <1>4 DEF Offset
    <3>3. CASE k # n + 1
      <4>1. k \in DOMAIN stream /\ stream'[k] = stream[k]
        BY <3>3, <1>1, <1>4
      <4>2. stream[k].at = End(stream[k - 1])
        BY <4>1, <1>0 DEF EndToEnd
      <4> QED BY <4>1, <4>2, <3>1
    <3> QED BY <3>2, <3>3
  <2>4. stream'[1].at = 0
    <3>1. CASE n = 0
      BY <3>1, <1>3, <1>4 DEF Offset
    <3>2. CASE n # 0
      BY <3>2, <1>0, <1>1, <1>4 DEF EndToEnd
    <3> QED BY <3>1, <3>2
  <2> QED BY <2>2, <2>3, <2>4, <1>4 DEF EndToEnd
<1>6. \A k \in 0 .. n : Offset(k)' = Offset(k)
  BY <1>1, <1>4 DEF Offset
<1>7. Parser!TypeOK'
  <2>1. Offset(Len(stream))' = End(g)
    BY <1>1, <1>4 DEF Offset
  <2>2. fed \in 0 .. End(g) /\ taken \in 0 .. fed
    BY <1>1, <1>3
  <2>3. Parser!Written' = End(g)
    <3>1. stream' # <<>>
      BY <1>1, <1>4
    <3> QED BY <3>1, <1>1, <1>4, ParserRules DEF Parser!Written
  <2> QED BY <1>0, <1>1, <1>2, <1>4, <2>2, <2>3, ParserRules DEF Parser!TypeOK
<1>8. \E k \in 0 .. Len(stream') : Split(k)'
  <2>1. PICK k \in 0 .. n : Split(k)
    BY DEF ParserIInv
  <2>2. k \in 0 .. Len(stream') /\ Offset(k)' = Offset(k)
    BY <2>1, <1>1, <1>4, <1>6
  <2>3. ASSUME ParseFrom(taken) = "error"
        PROVE  ParseFrom(taken)' = "error"
    <3>1. ParseFrom(Offset(k))' = "error"
      BY <2>1, <2>3, <1>0, <1>1, <1>2, <1>4, <1>5, ErrorStays DEF Split, EndToEnd
    <3> QED BY <3>1, <2>1, <2>2, <1>2 DEF Split
  <2>4. Split(k)'
    BY <2>1, <2>2, <2>3, <1>2 DEF Split
  <2> QED BY <2>2, <2>4
<1>9. \A i \in DOMAIN returned' : returned'[i] = stream'[i]
  <2>1. PICK k \in 0 .. n : Split(k)
    BY DEF ParserIInv
  <2>2. DOMAIN returned \subseteq DOMAIN stream
    BY <2>1, <1>1 DEF Split
  <2> QED BY <2>2, <1>2, <1>4 DEF ParserIInv
<1> QED BY <1>5, <1>7, <1>8, <1>9 DEF ParserIInv

(* A chunk, taken or refused. *)
LEMMA PushStep ==
  ASSUME ParserIInv, NEW n \in 1 .. (Parser!Written - fed), Parser!push_data(n)
  PROVE  ParserIInv'
<1>0. Parser!TypeOK /\ EndToEnd
  BY DEF ParserIInv
<1>1. /\ stream \in Seq(PlacedFrame) /\ Len(stream) \in Nat
      /\ Offset(Len(stream)) \in Nat /\ fed \in Nat /\ taken \in Nat
      /\ fed <= Offset(Len(stream)) /\ taken <= fed
      /\ Parser!Written = Offset(Len(stream))
  BY <1>0, ParserTypes, ParserRules
<1>2. /\ UNCHANGED <<stream, taken, returned, clears>>
      /\ fed' = fed + n \/ fed' = fed
      /\ result' \in {"ok", "error"}
      /\ fed + n <= Parser!Written /\ n \in Nat
  BY <1>1 DEF Parser!push_data
<1>3. fed' \in Nat /\ fed <= fed' /\ fed' <= Parser!Written
  BY <1>1, <1>2
<1>4. Parser!Written' = Parser!Written
  BY <1>2 DEF Parser!Written
<1>5. Parser!TypeOK'
  BY <1>0, <1>1, <1>2, <1>3, <1>4 DEF Parser!TypeOK
<1>6. EndToEnd'
  BY <1>0, <1>2 DEF EndToEnd, Ordered
<1>7. PICK k \in 0 .. Len(stream) : Split(k)
  BY DEF ParserIInv
<1>8. Offset(k)' = Offset(k)
  BY <1>2 DEF Offset
<1>9. ParseFrom(taken) = "error" => ParseFrom(taken)' = "error"
  <2> SUFFICES ASSUME ParseFrom(taken) = "error" PROVE ParseFrom(taken)' = "error"
    OBVIOUS
  <2>1. taken = Offset(k)
    BY <1>7 DEF Split
  <2>2. ParseFrom(Offset(k))' = "error"
    BY <2>1, <1>0, <1>1, <1>2, <1>3, <1>6, ErrorStays DEF EndToEnd
  <2> QED BY <2>1, <2>2, <1>2, <1>8
<1>10. Split(k)'
  BY <1>2, <1>7, <1>8, <1>9 DEF Split
<1> QED BY <1>2, <1>5, <1>6, <1>7, <1>10 DEF ParserIInv

(* One message, or the answer that there is none. *)
LEMMA TryParseStep ==
  ASSUME ParserIInv, Parser!try_parse
  PROVE  ParserIInv'
<1>0. Parser!TypeOK /\ EndToEnd
  BY DEF ParserIInv
<1>1. /\ stream \in Seq(PlacedFrame) /\ returned \in Seq(PlacedFrame)
      /\ Len(stream) \in Nat /\ DOMAIN stream = 1 .. Len(stream)
      /\ Len(returned) \in Nat /\ DOMAIN returned = 1 .. Len(returned)
      /\ fed \in Nat /\ taken \in Nat /\ taken <= fed
  BY <1>0, ParserTypes
<1>2. /\ UNCHANGED <<stream, fed, clears>>
      /\ IF ParseFrom(taken) = "message"
         THEN /\ taken' = End(FrameAt(stream, taken))
              /\ returned' = Append(returned, FrameAt(stream, taken))
              /\ result' = "ok"
         ELSE result' = ParseFrom(taken) /\ UNCHANGED <<taken, returned>>
  BY ParserRules DEF Parser!try_parse
<1>3. PICK k \in 0 .. Len(stream) : Split(k)
  BY DEF ParserIInv
<1>4. EndToEnd' /\ Parser!Written' = Parser!Written
  BY <1>0, <1>2 DEF EndToEnd, Ordered, Parser!Written
<1>5. \A j : Offset(j)' = Offset(j)
  BY <1>2 DEF Offset
<1>6. CASE ParseFrom(taken) # "message"
  <2>1. ParseFrom(taken) \in {"ok", "none", "error"}
    BY <1>6 DEF ParseFrom, TryParse
  <2>2. Parser!TypeOK'
    BY <2>1, <1>0, <1>2, <1>4, <1>6 DEF Parser!TypeOK
  <2>3. Split(k)'
    BY <1>2, <1>3, <1>5, <1>6 DEF Split, ParseFrom
  <2> QED BY <2>2, <2>3, <1>2, <1>3, <1>4, <1>6 DEF ParserIInv
<1>7. CASE ParseFrom(taken) = "message"
  <2>1. taken = Offset(k) /\ Len(returned) = k
    BY <1>3, <1>7 DEF Split
  <2>2. /\ k + 1 \in DOMAIN stream /\ FrameAt(stream, taken) = stream[k + 1]
        /\ End(stream[k + 1]) <= fed
    BY <2>1, <1>0, <1>7, ParsesNext
  <2>3. stream[k + 1] \in PlacedFrame /\ End(stream[k + 1]) \in Nat
    BY <2>2, <1>1, StreamFacts
  <2>4. taken' = End(stream[k + 1]) /\ returned' = Append(returned, stream[k + 1])
    BY <2>2, <1>2, <1>7
  <2>5. /\ returned' \in Seq(PlacedFrame) /\ Len(returned') = k + 1
        /\ DOMAIN returned' = 1 .. (k + 1)
        /\ \A i \in 1 .. k : returned'[i] = returned[i]
        /\ returned'[k + 1] = stream[k + 1]
    BY <2>1, <2>3, <2>4, <1>1, AppendKeepsFrames
  <2>6. Parser!TypeOK'
    BY <2>2, <2>3, <2>4, <2>5, <1>0, <1>2, <1>4, <1>7, ParserRules DEF Parser!TypeOK
  <2>7. k + 1 \in 0 .. Len(stream') /\ Split(k + 1)'
    <3>1. k + 1 # 0 /\ k + 1 \in 0 .. Len(stream')
      BY <2>2, <1>1, <1>2
    <3>2. Offset(k + 1)' = End(stream[k + 1])
      BY <3>1, <1>2 DEF Offset
    <3>3. taken' = Offset(k + 1)' /\ Len(returned') = k + 1 /\ k + 1 \in Nat
      BY <3>1, <3>2, <2>4, <2>5, <1>1
    <3> QED BY <3>1, <3>3 DEF Split
  <2>8. \A i \in DOMAIN returned' : returned'[i] = stream'[i]
    BY <2>1, <2>5, <1>1, <1>2 DEF ParserIInv
  <2> QED BY <2>6, <2>7, <2>8, <1>4 DEF ParserIInv
<1> QED BY <1>6, <1>7

(* Every whole message of the buffer; on an error, none of them. *)
LEMMA ParseAllStep ==
  ASSUME ParserIInv, Parser!parse_all
  PROVE  ParserIInv'
<1>0. Parser!TypeOK /\ EndToEnd
  BY DEF ParserIInv
<1>1. /\ stream \in Seq(PlacedFrame) /\ returned \in Seq(PlacedFrame)
      /\ Len(stream) \in Nat /\ DOMAIN stream = 1 .. Len(stream)
      /\ Len(returned) \in Nat /\ DOMAIN returned = 1 .. Len(returned)
      /\ fed \in Nat /\ taken \in Nat /\ taken <= fed
  BY <1>0, ParserTypes
<1>2. PICK k \in 0 .. Len(stream) : Split(k)
  BY DEF ParserIInv
<1>3. k \in Nat /\ {j \in DOMAIN stream : stream[j].at < taken} = 1 .. k
  <2>0. k \in Nat
    BY <1>1
  <2>1. taken = Offset(k)
    BY <1>2 DEF Split
  <2>2. {j \in DOMAIN stream : stream[j].at < Offset(k)} = 1 .. k
    BY <1>0, OffsetFacts
  <2> QED BY <2>0, <2>1, <2>2
<1>4. PICK last \in k .. Len(stream), n \in Nat :
        /\ Parser!ParsesUpTo(k + 1, last, n)
        /\ taken' = n
        /\ ParseFrom(n) = "error" => result' = "error" /\ returned' = returned
        /\ ParseFrom(n) # "error" =>
             result' = "ok" /\ returned' = returned \o SubSeq(stream, k + 1, last)
        /\ UNCHANGED <<stream, fed, clears>>
  <2>1. PICK first \in 1 .. (Len(stream) + 1) :
          \E last \in (first - 1) .. Len(stream), n \in 0 .. Parser!Written :
            /\ Parser!ParsesUpTo(first, last, n)
            /\ taken' = n
            /\ IF ParseFrom(n) = "error"
               THEN result' = "error" /\ UNCHANGED returned
               ELSE /\ result' = "ok"
                    /\ returned' = returned \o SubSeq(stream, first, last)
    BY ParserRules DEF Parser!parse_all
  <2>2. PICK last \in (first - 1) .. Len(stream), n \in 0 .. Parser!Written :
          /\ Parser!ParsesUpTo(first, last, n)
          /\ taken' = n
          /\ IF ParseFrom(n) = "error"
             THEN result' = "error" /\ UNCHANGED returned
             ELSE /\ result' = "ok"
                  /\ returned' = returned \o SubSeq(stream, first, last)
    BY <2>1
  <2>3. 1 .. k = 1 .. (first - 1)
    BY <2>2, <1>3 DEF Parser!ParsesUpTo
  <2>4. first = k + 1 /\ first - 1 = k
    <3>1. first - 1 \in Nat
      BY <2>1, <1>1
    <3>2. ~(k < first - 1)
      <4> SUFFICES ASSUME k < first - 1 PROVE FALSE
        OBVIOUS
      <4>1. first - 1 \in 1 .. (first - 1) /\ first - 1 \notin 1 .. k
        BY <3>1, <1>3
      <4> QED BY <4>1, <2>3
    <3>3. ~(first - 1 < k)
      <4> SUFFICES ASSUME first - 1 < k PROVE FALSE
        OBVIOUS
      <4>1. k \in 1 .. k /\ k \notin 1 .. (first - 1)
        BY <3>1, <1>3
      <4> QED BY <4>1, <2>3
    <3> QED BY <3>1, <3>2, <3>3, <1>3, <2>1, <1>1
  <2>5. UNCHANGED <<stream, fed, clears>>
    BY DEF Parser!parse_all
  <2>6. last \in k .. Len(stream) /\ n \in Nat
    <3>1. Parser!Written \in Nat
      BY <1>0, <1>1, ParserTypes, ParserRules
    <3> QED BY <3>1, <2>4, <2>2
  <2> QED BY <2>2, <2>4, <2>5, <2>6
<1>5. /\ n = IF last < k + 1 THEN taken ELSE End(stream[last])
      /\ \A i \in (k + 1) .. last : ParseFrom(stream[i].at) = "message"
  BY <1>4, ParserRules DEF Parser!ParsesUpTo
<1>6. EndToEnd' /\ Parser!Written' = Parser!Written
  BY <1>0, <1>4 DEF EndToEnd, Ordered, Parser!Written
<1>7. \A j : Offset(j)' = Offset(j)
  BY <1>4 DEF Offset
<1>8. ParseFrom(n)' = ParseFrom(n)
  BY <1>4 DEF ParseFrom
<1>9. CASE last < k + 1
  <2>1. n = taken /\ taken' = taken /\ last = k
    BY <1>1, <1>4, <1>5, <1>9
  <2>2. SubSeq(stream, k + 1, last) = <<>>
    BY <1>1, <1>9, SubSeqEmpty
  <2>3. returned' = returned /\ result' \in {"ok", "error"}
    <3>1. returned \o <<>> = returned
      BY <1>1, ConcatEmptySeq
    <3> QED BY <3>1, <2>2, <1>4
  <2>4. Parser!TypeOK'
    BY <2>1, <2>3, <1>0, <1>4, <1>6 DEF Parser!TypeOK
  <2>5. Split(k)'
    BY <2>1, <2>3, <1>2, <1>7, <1>8 DEF Split
  <2> QED BY <2>3, <2>4, <2>5, <1>2, <1>4, <1>6 DEF ParserIInv
<1>10. CASE ~(last < k + 1)
  <2>0. /\ last \in DOMAIN stream /\ k + 1 \in DOMAIN stream /\ k + 1 <= last
        /\ k \in Nat /\ last \in Nat /\ last - 1 \in 0 .. Len(stream)
        /\ last - 1 < Len(stream) /\ last - 1 + 1 = last /\ k < Len(stream)
    BY <1>1, <1>4, <1>10
  <2>1. taken = Offset(k) /\ Len(returned) = k
    <3>1. stream[k + 1].at = Offset(k)
      BY <2>0, <1>0, OffsetFacts
    <3>2. ParseFrom(Offset(k)) = "message"
      BY <3>1, <2>0, <1>5
    <3> QED BY <3>2, <1>2 DEF Split
  <2>2. n = End(stream[last]) /\ n = Offset(last) /\ n \in Nat
    BY <2>0, <1>5, <1>10 DEF Offset
  <2>3. n <= fed
    <3>1. stream[last].at = Offset(last - 1)
      BY <2>0, <1>0, OffsetFacts
    <3>2. ParseFrom(Offset(last - 1)) = "message"
      BY <3>1, <2>0, <1>5
    <3> QED BY <3>2, <2>0, <2>2, <1>0, ParsesNext
  <2>4. /\ returned' \in Seq(PlacedFrame)
        /\ Len(returned') \in {k, last}
        /\ ParseFrom(n) # "error" => Len(returned') = last
        /\ \A i \in DOMAIN returned' : returned'[i] = stream[i]
        /\ result' \in {"ok", "error"}
    <3>1. CASE ParseFrom(n) = "error"
      BY <3>1, <2>1, <1>1, <1>4 DEF ParserIInv
    <3>2. CASE ParseFrom(n) # "error"
      <4> DEFINE s == SubSeq(stream, k + 1, last)
      <4>1. /\ s \in Seq(PlacedFrame) /\ Len(s) = last - k
            /\ \A i \in 1 .. (last - k) : s[i] = stream[k + i]
        <5>1. k + 1 \in Int /\ last \in Int
              /\ \A i \in (k + 1) .. last : stream[i] \in PlacedFrame
          BY <2>0, <1>1
        <5>2. /\ s \in Seq(PlacedFrame)
              /\ Len(s) = IF k + 1 <= last THEN last - (k + 1) + 1 ELSE 0
              /\ \A i \in 1 .. (last - (k + 1) + 1) : s[i] = stream[k + 1 + i - 1]
          BY <5>1, SubSeqProperties
        <5>3. last - (k + 1) + 1 = last - k
          BY <2>0
        <5>4. \A i \in 1 .. (last - k) : k + 1 + i - 1 = k + i
          BY <2>0
        <5> QED BY <5>2, <5>3, <5>4, <2>0
      <4>2. /\ returned \o s \in Seq(PlacedFrame)
            /\ Len(returned \o s) = k + (last - k)
            /\ \A i \in 1 .. (k + (last - k)) :
                 (returned \o s)[i] = IF i <= k THEN returned[i] ELSE s[i - k]
        <5>1. /\ returned \o s \in Seq(PlacedFrame)
              /\ Len(returned \o s) = Len(returned) + Len(s)
              /\ \A i \in 1 .. (Len(returned) + Len(s)) :
                   (returned \o s)[i] = IF i <= Len(returned) THEN returned[i]
                                        ELSE s[i - Len(returned)]
          BY <4>1, <1>1, ConcatProperties
        <5> HIDE DEF s
        <5> QED BY <5>1, <4>1, <2>1
      <4>3. k + (last - k) = last
        BY <2>0
      <4>4. returned' = returned \o s /\ result' = "ok"
        BY <3>2, <1>4
      <4>5. ASSUME NEW i \in 1 .. last
            PROVE  (returned \o s)[i] = stream[i]
        <5>1. CASE i <= k
          <6>1. i \in DOMAIN returned
            BY <5>1, <2>0, <2>1, <1>1
          <6>2. (returned \o s)[i] = returned[i]
            BY <5>1, <4>2, <4>3
          <6> QED BY <6>1, <6>2 DEF ParserIInv
        <5>2. CASE ~(i <= k)
          <6>1. i - k \in 1 .. (last - k) /\ k + (i - k) = i
            BY <5>2, <2>0
          <6>2. s[i - k] = stream[k + (i - k)]
            BY <6>1, <4>1
          <6> QED BY <5>2, <6>1, <6>2, <4>2, <4>3
        <5> QED BY <5>1, <5>2
      <4>6. DOMAIN (returned \o s) = 1 .. last
        BY <4>2, <4>3
      <4> QED BY <4>2, <4>3, <4>4, <4>5, <4>6
    <3> QED BY <3>1, <3>2
  <2>5. Parser!TypeOK'
    BY <2>2, <2>3, <2>4, <1>0, <1>1, <1>4, <1>6, ParserRules DEF Parser!TypeOK
  <2>6. last \in 0 .. Len(stream') /\ Split(last)'
    <3>1. Len(returned') <= last /\ (Len(returned') # last => ParseFrom(n) = "error")
      BY <2>0, <2>4
    <3>2. ParseFrom(taken)' = ParseFrom(n)
      BY <1>4, <1>8
    <3> QED BY <3>1, <3>2, <2>0, <2>2, <1>1, <1>4, <1>7 DEF Split
  <2>7. \A i \in DOMAIN returned' : returned'[i] = stream'[i]
    BY <2>4, <1>4
  <2> QED BY <2>5, <2>6, <2>7, <1>6 DEF ParserIInv
<1> QED BY <1>9, <1>10

(* A cleared parser starts on a new stream. *)
LEMMA ClearStep ==
  ASSUME ParserIInv, Parser!clear
  PROVE  ParserIInv'
<1>1. /\ stream' = <<>> /\ returned' = <<>> /\ fed' = 0 /\ taken' = 0
      /\ result' = "ok" /\ clears < MaxClears /\ clears' = clears + 1
      /\ clears \in 0 .. MaxClears
  BY DEF Parser!clear, ParserIInv, Parser!TypeOK
<1>2. Parser!TypeOK'
  BY <1>1, ParserAssumption DEF Parser!TypeOK, Parser!Written
<1>3. EndToEnd'
  BY <1>1 DEF EndToEnd, Ordered
<1>4. Split(0)'
  BY <1>1 DEF Split, Offset
<1> QED BY <1>1, <1>2, <1>3, <1>4 DEF ParserIInv

----------------------------------------------------------------------------
(* The invariant holds in every state of the parser. *)
THEOREM ParserInvariant == Parser!Spec => []ParserIInv
<1>1. ParserIInv /\ [Parser!Next]_(Parser!vars) => ParserIInv'
  <2> SUFFICES ASSUME ParserIInv, [Parser!Next]_(Parser!vars) PROVE ParserIInv'
    OBVIOUS
  <2>1. CASE UNCHANGED Parser!vars
    BY <2>1 DEF Parser!vars, ParserIInv, Parser!TypeOK, Parser!Written, EndToEnd,
         Ordered, Split, Offset, ParseFrom
  <2>2. CASE Parser!Next
    BY <2>2, ProduceStep, PushStep, TryParseStep, ParseAllStep, ClearStep
       DEF Parser!Next
  <2> QED BY <2>1, <2>2
<1> QED BY ParserInit, <1>1, PTL DEF Parser!Spec

(* The parser's positions and results keep their types, and nothing is parsed
   that push_data has not taken. *)
THEOREM ParserTypeCorrect == Parser!Spec => []Parser!TypeOK
<1>1. ParserIInv => Parser!TypeOK
  BY DEF ParserIInv
<1> QED BY <1>1, ParserInvariant, PTL

(* Whatever the mix of try_parse and parse_all, messages leave the buffer
   whole and are returned in the order of the stream. *)
THEOREM ParserReturnsInOrder == Parser!Spec => []ReturnedInOrder
<1>1. ParserIInv => ReturnedInOrder
  BY DEF ParserIInv, ReturnedInOrder, Split, Offset
<1> QED BY <1>1, ParserInvariant, PTL

(* A message that left the buffer without being returned was dropped by a
   parse_all, and the over-limit frame that stopped it is still at the head. *)
THEOREM ParserLossIsTerminal == Parser!Spec => []LossIsTerminal
<1>1. ParserIInv => LossIsTerminal
  <2> SUFFICES ASSUME ParserIInv, Lost # {} PROVE ParseFrom(taken) = "error"
    BY DEF LossIsTerminal
  <2>1. PICK j \in DOMAIN stream :
          /\ End(stream[j]) <= taken
          /\ ~\E i \in DOMAIN returned : returned[i] = stream[j]
    BY DEF Lost
  <2>2. PICK k \in 0 .. Len(stream) : Split(k)
    BY DEF ParserIInv
  <2>3. j \in 1 .. k
    <3>1. /\ stream[j].at \in Nat /\ End(stream[j]) \in Nat
          /\ stream[j].at < End(stream[j]) /\ taken \in Nat
      BY ParserTypes, StreamFacts DEF ParserIInv
    <3>2. stream[j].at < Offset(k)
      BY <3>1, <2>1, <2>2 DEF Split
    <3> QED BY <3>2, OffsetFacts DEF ParserIInv
  <2>4. j \notin DOMAIN returned
    BY <2>1 DEF ParserIInv
  <2>5. Len(returned) # k
    BY <2>3, <2>4, ParserTypes DEF ParserIInv
  <2> QED BY <2>2, <2>5 DEF Split
<1> QED BY <1>1, ParserInvariant, PTL
=============================================================================
