--------------------------- MODULE MessageParser ---------------------------
(***************************************************************************)
(* The streaming MessageParser used directly: a caller pushes chunks of a   *)
(* byte stream and takes messages out with try_parse or parse_all, in any   *)
(* order, and clears the parser when it gives a stream up for a new one.    *)
(* As in FramedStream, positions in the stream stand for the buffer.        *)
(***************************************************************************)
EXTENDS ParserState

vars == <<stream, fed, taken, returned, result, clears>>

Init ==
  /\ stream = <<>> /\ fed = 0 /\ taken = 0 /\ returned = <<>>
  /\ result = "ok" /\ clears = 0

Written == IF stream = <<>> THEN 0 ELSE End(stream[Len(stream)])
BufferLen == fed - taken

(* The peer that produces the stream. *)
Produce(f) ==
  /\ Len(stream) < MaxMessages
  /\ stream' = Append(stream, Placed(f, Written))
  /\ UNCHANGED <<fed, taken, returned, result, clears>>

push_data(n) ==
  /\ fed + n <= Written
  /\ IF PushAccepts(BufferLen, n)
     THEN fed' = fed + n /\ result' = "ok"
     ELSE fed' = fed /\ result' = "error"
  /\ UNCHANGED <<stream, taken, returned, clears>>

try_parse_TakesAll ==
  /\ LET f == FrameAt(stream, taken) IN
     IF ParseFrom(taken) = "message"
     THEN taken' = fed /\ returned' = Append(returned, f) /\ result' = "ok"
     ELSE result' = ParseFrom(taken) /\ UNCHANGED <<taken, returned>>
  /\ UNCHANGED <<stream, fed, clears>>

try_parse ==
  /\ LET f == FrameAt(stream, taken) IN
     IF ParseFrom(taken) = "message"
     THEN taken' = End(f) /\ returned' = Append(returned, f) /\ result' = "ok"
     ELSE result' = ParseFrom(taken) /\ UNCHANGED <<taken, returned>>
  /\ UNCHANGED <<stream, fed, clears>>

(* The frames that parse_all splits off: frames i..j of the stream, one after
   the other from the head of the buffer, until try_parse stops at offset n. *)
ParsesUpTo(i, j, n) ==
  /\ {k \in DOMAIN stream : stream[k].at < taken} = 1 .. (i - 1)
  /\ n = IF j < i THEN taken ELSE End(stream[j])
  /\ \A k \in i .. j : ParseFrom(stream[k].at) = "message"
  /\ ParseFrom(n) # "message"

(* The loop of parse_all leaves with `?` on an error: the messages that this
   call has already split off are dropped with its local vector. *)
parse_all_LastOnly ==
  /\ \E first \in 1 .. (Len(stream) + 1) :
     \E last \in (first - 1) .. Len(stream), n \in 0 .. Written :
       /\ ParsesUpTo(first, last, n)
       /\ taken' = n
       /\ IF ParseFrom(n) = "error"
          THEN result' = "error" /\ UNCHANGED returned
          ELSE /\ result' = "ok"
               /\ returned' = IF last < first THEN returned ELSE Append(returned, stream[last])
  /\ UNCHANGED <<stream, fed, clears>>

parse_all ==
  /\ \E first \in 1 .. (Len(stream) + 1) :
     \E last \in (first - 1) .. Len(stream), n \in 0 .. Written :
       /\ ParsesUpTo(first, last, n)
       /\ taken' = n
       /\ IF ParseFrom(n) = "error"
          THEN result' = "error" /\ UNCHANGED returned
          ELSE result' = "ok" /\ returned' = returned \o SubSeq(stream, first, last)
  /\ UNCHANGED <<stream, fed, clears>>

(* The caller gives the stream up and starts on a new one. *)
clear ==
  /\ clears < MaxClears
  /\ clears' = clears + 1
  /\ stream' = <<>> /\ fed' = 0 /\ taken' = 0 /\ returned' = <<>>
  /\ result' = "ok"

Next ==
  \/ \E f \in Messages : Produce(f)
  \/ \E n \in 1 .. (Written - fed) : push_data(n)
  \/ try_parse
  \/ parse_all
  \/ clear

Spec == Init /\ [][Next]_vars

----------------------------------------------------------------------------
(* Types; nothing is parsed before it is pushed. *)
TypeOK ==
  /\ stream \in Seq(PlacedFrame) /\ returned \in Seq(PlacedFrame)
  /\ taken \in 0 .. fed /\ fed \in 0 .. Written
  /\ result \in {"ok", "none", "error"}
  /\ clears \in 0 .. MaxClears
=============================================================================
