------------------------------ MODULE WsStream ------------------------------
(***************************************************************************)
(* One direction of a WebSocketTransportStream: the adaptation of WebSocket *)
(* messages to a byte stream.  poll_write turns every buffer it is given    *)
(* into one Binary message; poll_read copies one whole message into the     *)
(* buffer it is given.                                                      *)
(*                                                                         *)
(* The reader is a task that polls as long as poll_read is ready and sleeps *)
(* when it is Pending; it is polled again when the waker that the socket    *)
(* has registered is called.  tungstenite (external) registers the waker    *)
(* when it finds no message in the socket, and only then.                   *)
(*                                                                         *)
(* Bytes are counted: a message of `size` bytes stands at offset `at` of    *)
(* the bytes written.  Text and control messages come from other WebSocket  *)
(* implementations; this one writes Binary and Close.                       *)
(***************************************************************************)
EXTENDS Naturals, Sequences

CONSTANTS
  Sizes,     \* lengths of the buffers given to poll_write
  Rooms,     \* room that a reader's buffer may have
  MaxSends   \* bound on the messages sent

ASSUME WsAssumption ==
  /\ Sizes \subseteq Nat
  /\ Rooms \subseteq Nat \ {0}
  /\ MaxSends \in Nat

VARIABLES
  sent,      \* the messages written, [kind, at, size]
  flushed,   \* how many of them are in the socket
  closing,   \* the sender has started the closing handshake
  broken,    \* the connection has failed
  taken,     \* how many messages poll_next has returned
  read,      \* bytes that poll_read has put into the reader's buffers
  status,    \* "reading", or why the reader stopped: "ended", "failed", "panicked"
  task,      \* the reader's task: "ready" to be polled, or "asleep"
  waker      \* whether the socket holds the task's waker

sender == <<sent, flushed, closing>>
vars == <<sent, flushed, closing, broken, taken, read, status, task, waker>>

Data == {"binary", "text"}
Control == {"ping", "pong"}
Kinds == Data \cup Control \cup {"close"}
Messages == [kind : Kinds, at : Nat, size : Nat]

Init ==
  /\ sent = <<>> /\ flushed = 0 /\ closing = FALSE /\ broken = FALSE
  /\ taken = 0 /\ read = 0
  /\ status = "reading" /\ task = "ready" /\ waker = FALSE

(* Bytes written by the first k messages. *)
Offset(k) == IF k = 0 THEN 0 ELSE sent[k].at + sent[k].size

Message(kind, n) == [kind |-> kind, at |-> Offset(Len(sent)), size |-> n]

----------------------------------------------------------------------------
(* The sender.  start_send puts the buffer, as one message, into the write
   buffer of the WebSocket; after a close it fails. *)
poll_write(n) ==
  /\ ~closing /\ ~broken /\ Len(sent) < MaxSends
  /\ sent' = Append(sent, Message("binary", n))
  /\ UNCHANGED <<flushed, closing, broken, taken, read, status, task, waker>>

(* Another implementation also sends texts, pings and pongs. *)
peer_send(kind, n) ==
  /\ ~closing /\ ~broken /\ Len(sent) < MaxSends
  /\ kind \in Control => n = 0
  /\ sent' = Append(sent, Message(kind, n))
  /\ UNCHANGED <<flushed, closing, broken, taken, read, status, task, waker>>

(* Something for the reader is in the socket: its waker is called, once. *)
Wake ==
  /\ task' = IF waker THEN "ready" ELSE task
  /\ waker' = FALSE

(* poll_flush writes what is buffered, as far as the socket takes it. *)
poll_flush(k) ==
  /\ ~broken /\ k \in (flushed + 1) .. Len(sent)
  /\ flushed' = k
  /\ Wake
  /\ UNCHANGED <<sent, closing, broken, taken, read, status>>

(* close and poll_shutdown: a Close message behind the others, all flushed. *)
poll_shutdown ==
  /\ ~closing /\ ~broken
  /\ sent' = Append(sent, Message("close", 0))
  /\ flushed' = Len(sent')
  /\ closing' = TRUE
  /\ Wake
  /\ UNCHANGED <<broken, taken, read, status>>

(* The connection fails; what is in the socket can still be read. *)
reset ==
  /\ ~broken
  /\ broken' = TRUE
  /\ Wake
  /\ UNCHANGED <<sent, flushed, closing, taken, read, status>>

----------------------------------------------------------------------------
(* poll_read, one action per arm of its match. *)
Polling == status = "reading" /\ task = "ready"
Ready(kinds) ==
  Polling /\ taken < flushed /\ sent[taken + 1].kind \in kinds

(* ready!: there is no message, and the socket keeps the waker. *)
read_pending_NoWaker ==
  /\ Polling /\ taken = flushed /\ ~broken
  /\ task' = "asleep"
  /\ UNCHANGED <<sender, broken, taken, read, status, waker>>

read_pending ==
  /\ Polling /\ taken = flushed /\ ~broken
  /\ task' = "asleep" /\ waker' = TRUE
  /\ UNCHANGED <<sender, broken, taken, read, status>>

(* Binary and Text: the message is copied, whole.  A reader takes a copy of
   no bytes for the end of the stream. *)
read_data_Truncates(room) ==
  LET n == sent[taken + 1].size IN
  /\ Ready(Data)
  /\ taken' = taken + 1
  /\ read' = read + IF n <= room THEN n ELSE room
  /\ status' = IF n = 0 THEN "ended" ELSE status
  /\ UNCHANGED <<sender, broken, task, waker>>

read_data_NonEmpty(room) ==
  LET n == sent[taken + 1].size IN
  /\ Ready(Data) /\ n \in 1 .. room
  /\ taken' = taken + 1
  /\ read' = read + n
  /\ UNCHANGED <<sender, broken, status, task, waker>>

read_data(room) ==
  LET n == sent[taken + 1].size IN
  /\ Ready(Data) /\ n <= room
  /\ taken' = taken + 1
  /\ read' = read + n
  /\ status' = IF n = 0 THEN "ended" ELSE status
  /\ UNCHANGED <<sender, broken, task, waker>>

(* put_slice panics when the message is longer than the room. *)
read_panic_Off(room) ==
  /\ Ready(Data) /\ sent[taken + 1].size >= room
  /\ status' = "panicked"
  /\ UNCHANGED <<sender, broken, taken, read, task, waker>>

read_panic(room) ==
  /\ Ready(Data) /\ sent[taken + 1].size > room
  /\ status' = "panicked"
  /\ UNCHANGED <<sender, broken, taken, read, task, waker>>

(* Close: Ready with nothing copied. *)
read_close ==
  /\ Ready({"close"})
  /\ taken' = taken + 1
  /\ status' = "ended"
  /\ UNCHANGED <<sender, broken, read, task, waker>>

read_err ==
  /\ Polling /\ taken = flushed /\ broken
  /\ status' = "failed"
  /\ UNCHANGED <<sender, broken, taken, read, task, waker>>

(* Everything else is swallowed, and the answer is Pending although poll_next
   was ready: nobody has registered the waker. *)
read_control ==
  /\ Ready(Control)
  /\ taken' = taken + 1
  /\ task' = "asleep"
  /\ UNCHANGED <<sender, broken, read, status, waker>>

PollRead ==
  \/ read_pending \/ read_close \/ read_err \/ read_control
  \/ \E room \in Rooms : read_data(room) \/ read_panic(room)

(* The task is polled for another reason: a timer, a branch of a select. *)
other_wake ==
  /\ task = "asleep"
  /\ task' = "ready"
  /\ UNCHANGED <<sender, broken, taken, read, status, waker>>

Next ==
  \/ \E n \in Sizes : poll_write(n)
  \/ \E kind \in Control \cup {"text"}, n \in Sizes \cup {0} : peer_send(kind, n)
  \/ \E k \in 1 .. Len(sent) : poll_flush(k)
  \/ poll_shutdown \/ reset
  \/ PollRead
  \/ other_wake

Spec == Init /\ [][Next]_vars

(* The executor polls a task that is ready. *)
FairSpec == Spec /\ WF_vars(PollRead)

----------------------------------------------------------------------------
(* Types; nothing is taken before it is flushed. *)
TypeOK ==
  /\ sent \in Seq(Messages)
  /\ flushed \in 0 .. Len(sent) /\ taken \in 0 .. flushed
  /\ closing \in BOOLEAN /\ broken \in BOOLEAN /\ waker \in BOOLEAN
  /\ read \in Nat
  /\ status \in {"reading", "ended", "failed", "panicked"}
  /\ task \in {"ready", "asleep"}

(* The bytes in the reader's buffers are the bytes written, up to the last
   message that poll_read took: none is cut short, none is read twice, and
   control messages add none. *)
BytesExact == read = Offset(taken)

(* The reader stops for one of four reasons: a Close, with every byte written
   before it read; an empty message, which it takes for the end; a failed
   connection, with all that was flushed read; or a message that is longer
   than a buffer. *)
StopsForCause ==
  /\ status = "ended" =>
       /\ taken > 0 /\ read = Offset(taken) /\ sent[taken].size = 0
       /\ sent[taken].kind = "close" => taken = Len(sent)
       /\ sent[taken].kind \notin Control
  /\ status = "failed" => broken /\ taken = flushed
  /\ status = "panicked" => \E room \in Rooms : sent[taken + 1].size > room

(* The task sleeps in front of a message, or of a failed connection, only if
   the last thing it was given was a ping or a pong. *)
NoLostWakeup ==
  task = "asleep" /\ (taken < flushed \/ broken) /\ status = "reading" =>
    taken > 0 /\ sent[taken].kind \in Control

Forgotten == task = "asleep" /\ ~waker

(* A message in the socket is read in the end, unless the reader has stopped
   or sleeps without a waker (by NoLostWakeup: behind a ping or a pong). *)
DataArrives ==
  \A k \in 1 .. MaxSends :
    k <= flushed ~> taken >= k \/ status # "reading" \/ Forgotten
=============================================================================
