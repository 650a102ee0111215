---------------------------- MODULE SharedStream ----------------------------
(***************************************************************************)
(* The handles of a fleximq Peer: a Peer owns an                            *)
(* Arc<RwLock<Framed<..., MessageCodec>>>, split() turns it into a Server   *)
(* and a Client that share the Arc.  Two such ends talk over a transport.   *)
(*                                                                         *)
(* send_message and receive_message take the write half of the lock and     *)
(* hold it over all their awaits; a caller may drop the future at any       *)
(* await (a timeout, a select!).  disconnect drops one reference; the       *)
(* stream is closed when the last one is gone.                              *)
(*                                                                         *)
(* External: tokio's RwLock, which admits writers in the order they came;   *)
(* Framed at the level of messages (its bytes are FramedStream's concern):  *)
(* send feeds a message to the write buffer and flushes it; a transport     *)
(* with room for Window messages that delivers what was written before it   *)
(* reports the end of the stream.  An error of receiving, of the codec or of *)
(* the transport, lasts: what the codec refuses it refuses again (see        *)
(* FramedStream), and a broken transport delivers nothing more.             *)
(***************************************************************************)
EXTENDS Naturals, FiniteSets, SequencesExt

CONSTANTS
  Window,     \* messages the transport holds in one direction
  MaxSends,   \* bound on the calls of send_message, at each end
  Breakable,  \* the ends at which receiving may meet an error
  Splits      \* the ends whose Peer may be split

Ends == {"near", "far"}
Roles == {"peer", "server", "client"}
Handles == Ends \X Roles

ASSUME SharedAssumption ==
  /\ Window \in Nat \ {0} /\ MaxSends \in [Ends -> Nat]
  /\ Breakable \subseteq Ends /\ Splits \subseteq Ends

Other(e) == IF e = "near" THEN "far" ELSE "near"
None == <<"none", "none">>

VARIABLES
  alive,       \* the handles that hold a reference to their end's stream
  op, at,      \* per handle: the call it is in and the step of that call
  msg,         \* per handle: the message it sends
  queue,       \* per end: the handles that wait for the lock
  holder,      \* per end: the handle that has it
  sends,       \* per end: calls of send_message
  buffer,      \* per end: Framed's write buffer
  pipe,        \* per end: messages written by the other end, not yet read
  fed,         \* per end: the messages encoded, in order
  got,         \* per end: the messages received
  acked,       \* per end: the messages whose send returned Ok
  closed,      \* per end: receive_message returned ConnectionClosed
  failed,      \* per end: receive_message returned an error of the stream
  has_errored  \* per end: of Framed, whose next poll returns None

calls == <<op, at, msg, queue, holder>>
io == <<buffer, pipe, fed, got>>
errors == <<failed, has_errored>>
vars == <<alive, op, at, msg, queue, holder, sends, buffer, pipe, fed, got,
          acked, closed, failed, has_errored>>

Init ==
  /\ alive = Ends \X {"peer"}
  /\ op = [h \in Handles |-> "idle"] /\ at = [h \in Handles |-> "idle"]
  /\ msg = [h \in Handles |-> 0]
  /\ queue = [e \in Ends |-> <<>>] /\ holder = [e \in Ends |-> None]
  /\ sends = [e \in Ends |-> 0]
  /\ buffer = [e \in Ends |-> <<>>] /\ pipe = [e \in Ends |-> <<>>]
  /\ fed = [e \in Ends |-> <<>>] /\ got = [e \in Ends |-> <<>>]
  /\ acked = [e \in Ends |-> {}] /\ closed = [e \in Ends |-> FALSE]
  /\ failed = [e \in Ends |-> FALSE] /\ has_errored = [e \in Ends |-> FALSE]

(* The last reference to the stream of end e is gone. *)
Gone(e) == \A h \in alive : h[1] # e

(* The messages end e can still receive of those on the way to it. *)
Unread(e) == IF failed[e] THEN <<>> ELSE pipe[e]

----------------------------------------------------------------------------
(* A call begins by waiting for the lock: self.write().await. *)
Call(h, o) ==
  /\ h \in alive /\ op[h] = "idle"
  /\ op' = [op EXCEPT ![h] = o]
  /\ at' = [at EXCEPT ![h] = "queued"]
  /\ queue' = [queue EXCEPT ![h[1]] = Append(@, h)]
  /\ UNCHANGED holder

send_message(h) ==
  /\ sends[h[1]] < MaxSends[h[1]]
  /\ Call(h, "send")
  /\ sends' = [sends EXCEPT ![h[1]] = @ + 1]
  /\ msg' = [msg EXCEPT ![h] = sends'[h[1]]]
  /\ UNCHANGED <<alive, io, acked, closed, errors>>

receive_message(h) ==
  /\ Call(h, "receive")
  /\ UNCHANGED <<alive, sends, msg, io, acked, closed, errors>>

acquire(h) ==
  /\ queue[h[1]] # <<>> /\ Head(queue[h[1]]) = h
  /\ holder[h[1]] = None
  /\ holder' = [holder EXCEPT ![h[1]] = h]
  /\ queue' = [queue EXCEPT ![h[1]] = Tail(@)]
  /\ at' = [at EXCEPT ![h] = "locked"]
  /\ UNCHANGED <<alive, op, msg, sends, io, acked, closed, errors>>

(* The call returns, or its future is dropped: the guard is released. *)
Finish_KeepsLock(h) ==
  /\ op' = [op EXCEPT ![h] = "idle"]
  /\ at' = [at EXCEPT ![h] = "idle"]
  /\ msg' = [msg EXCEPT ![h] = 0]
  /\ queue' = [queue EXCEPT ![h[1]] = RemoveFirst(@, h)]
  /\ UNCHANGED holder

Finish(h) ==
  /\ op' = [op EXCEPT ![h] = "idle"]
  /\ at' = [at EXCEPT ![h] = "idle"]
  /\ msg' = [msg EXCEPT ![h] = 0]
  /\ holder' = [holder EXCEPT ![h[1]] = IF @ = h THEN None ELSE @]
  /\ queue' = [queue EXCEPT ![h[1]] = RemoveFirst(@, h)]

----------------------------------------------------------------------------
(* SinkExt::send: the message is encoded into the write buffer ... *)
start_send(h) ==
  /\ op[h] = "send" /\ at[h] = "locked"
  /\ buffer' = [buffer EXCEPT ![h[1]] = Append(@, msg[h])]
  /\ fed' = [fed EXCEPT ![h[1]] = Append(@, msg[h])]
  /\ at' = [at EXCEPT ![h] = "fed"]
  /\ UNCHANGED <<alive, op, msg, queue, holder, sends, pipe, got, acked, closed,
                 errors>>

(* ... the buffer is written while the transport has room, what an earlier
   call left in it first ... *)
poll_write_Newest(h) ==
  LET e == h[1] IN
  /\ at[h] = "fed" /\ buffer[e] # <<>>
  /\ ~Gone(Other(e)) /\ Len(pipe[Other(e)]) < Window
  /\ pipe' = [pipe EXCEPT ![Other(e)] = Append(@, Last(buffer[e]))]
  /\ buffer' = [buffer EXCEPT ![e] = Front(@)]
  /\ UNCHANGED <<alive, calls, sends, fed, got, acked, closed, errors>>

poll_write(h) ==
  LET e == h[1] IN
  /\ at[h] = "fed" /\ buffer[e] # <<>>
  /\ ~Gone(Other(e)) /\ Len(pipe[Other(e)]) < Window
  /\ pipe' = [pipe EXCEPT ![Other(e)] = Append(@, Head(buffer[e]))]
  /\ buffer' = [buffer EXCEPT ![e] = Tail(@)]
  /\ UNCHANGED <<alive, calls, sends, fed, got, acked, closed, errors>>

(* ... and send returns Ok once it is empty. *)
send_ok_Unflushed(h) ==
  /\ at[h] = "fed"
  /\ acked' = [acked EXCEPT ![h[1]] = @ \cup {msg[h]}]
  /\ Finish(h)
  /\ UNCHANGED <<alive, sends, io, closed, errors>>

send_ok(h) ==
  /\ at[h] = "fed" /\ buffer[h[1]] = <<>>
  /\ acked' = [acked EXCEPT ![h[1]] = @ \cup {msg[h]}]
  /\ Finish(h)
  /\ UNCHANGED <<alive, sends, io, closed, errors>>

(* Writing to an end that is gone fails. *)
send_err(h) ==
  /\ at[h] = "fed" /\ buffer[h[1]] # <<>> /\ Gone(Other(h[1]))
  /\ Finish(h)
  /\ UNCHANGED <<alive, sends, io, acked, closed, errors>>

(* next() returns a message ... *)
receive_ok(h) ==
  LET e == h[1] IN
  /\ op[h] = "receive" /\ at[h] = "locked" /\ Unread(e) # <<>>
  /\ got' = [got EXCEPT ![e] = Append(@, Head(pipe[e]))]
  /\ pipe' = [pipe EXCEPT ![e] = Tail(@)]
  /\ Finish(h)
  /\ UNCHANGED <<alive, sends, buffer, fed, acked, closed, errors>>

(* ... or an error: the codec refuses what is there or the transport breaks,
   with any part of what was on the way now in Framed's buffer ... *)
receive_err(h) ==
  LET e == h[1] IN
  /\ e \in Breakable
  /\ op[h] = "receive" /\ at[h] = "locked" /\ ~has_errored[e]
  /\ \E n \in 0 .. Len(pipe[e]) :
       pipe' = [pipe EXCEPT ![e] = SubSeq(@, n + 1, Len(@))]
  /\ failed' = [failed EXCEPT ![e] = TRUE]
  /\ has_errored' = [has_errored EXCEPT ![e] = TRUE]
  /\ Finish(h)
  /\ UNCHANGED <<alive, sends, buffer, fed, got, acked, closed>>

(* ... after which Framed gives None once, and None is ConnectionClosed, the
   other end alive or not ... *)
receive_none(h) ==
  LET e == h[1] IN
  /\ op[h] = "receive" /\ at[h] = "locked" /\ has_errored[e]
  /\ has_errored' = [has_errored EXCEPT ![e] = FALSE]
  /\ closed' = [closed EXCEPT ![e] = TRUE]
  /\ Finish(h)
  /\ UNCHANGED <<alive, sends, io, acked, failed>>

(* ... or None at the end of the stream: ConnectionClosed. *)
receive_closed_Early(h) ==
  LET e == h[1] IN
  /\ op[h] = "receive" /\ at[h] = "locked"
  /\ ~has_errored[e] /\ Unread(e) = <<>>
  /\ closed' = [closed EXCEPT ![e] = TRUE]
  /\ Finish(h)
  /\ UNCHANGED <<alive, sends, io, acked, errors>>

receive_closed(h) ==
  LET e == h[1] IN
  /\ op[h] = "receive" /\ at[h] = "locked"
  /\ ~has_errored[e] /\ Unread(e) = <<>> /\ Gone(Other(e))
  /\ closed' = [closed EXCEPT ![e] = TRUE]
  /\ Finish(h)
  /\ UNCHANGED <<alive, sends, io, acked, errors>>

(* A call ends early: its future is dropped, or a send fails in the codec or the
   transport.  A message that was fed stays in the write buffer; a failed send
   leaves has_errored alone, which belongs to Framed's reading half. *)
cancel(h) ==
  /\ op[h] # "idle"
  /\ Finish(h)
  /\ UNCHANGED <<alive, sends, io, acked, closed, errors>>

----------------------------------------------------------------------------
(* disconnect (or a drop) of one handle; with the last one the stream goes,
   and with it what it had buffered in either direction. *)
Release(h) ==
  /\ alive' = alive \ {h}
  /\ LET gone == \A g \in alive' : g[1] # h[1] IN
     /\ buffer' = IF gone THEN [buffer EXCEPT ![h[1]] = <<>>] ELSE buffer
     /\ pipe' = IF gone THEN [pipe EXCEPT ![h[1]] = <<>>] ELSE pipe

disconnect(h) ==
  /\ h \in alive /\ op[h] = "idle"
  /\ Release(h)
  /\ UNCHANGED <<calls, sends, fed, got, acked, closed, errors>>

split(e) ==
  /\ e \in Splits
  /\ <<e, "peer">> \in alive /\ op[<<e, "peer">>] = "idle"
  /\ alive' = (alive \ {<<e, "peer">>}) \cup {<<e, "server">>, <<e, "client">>}
  /\ UNCHANGED <<calls, sends, io, acked, closed, errors>>

Run(h) ==
  /\ op[h] # "idle"
  /\ \/ acquire(h)
     \/ start_send(h) \/ poll_write(h) \/ send_ok(h) \/ send_err(h)
     \/ receive_ok(h) \/ receive_none(h) \/ receive_closed(h)

Next ==
  \/ \E h \in Handles :
       \/ send_message(h) \/ receive_message(h)
       \/ Run(h)
       \/ receive_err(h) \/ cancel(h)
       \/ disconnect(h)
  \/ \E e \in Ends : split(e)

Spec == Init /\ [][Next]_vars

(* A call whose next step is possible is polled.  The lock leaves at most one
   such call at each end.  Nothing makes a stream fail. *)
FairSpec == Spec /\ \A e \in Ends : WF_vars(\E r \in Roles : Run(<<e, r>>))

----------------------------------------------------------------------------
(* Types; the lock has at most one holder at each end, and it is in a call
   of that end past the queue. *)
TypeOK ==
  /\ alive \subseteq Handles
  /\ op \in [Handles -> {"idle", "send", "receive"}]
  /\ at \in [Handles -> {"idle", "queued", "locked", "fed"}]
  /\ msg \in [Handles -> Nat] /\ sends \in [Ends -> Nat]
  /\ \A e \in Ends :
       /\ holder[e] # None => holder[e][1] = e /\ at[holder[e]] \in {"locked", "fed"}
       /\ \A h \in Handles :
            h[1] = e /\ at[h] \in {"locked", "fed"} => holder[e] = h
       /\ queue[e] \in Seq(Handles)
  /\ acked \in [Ends -> SUBSET Nat] /\ closed \in [Ends -> BOOLEAN]
  /\ failed \in [Ends -> BOOLEAN] /\ has_errored \in [Ends -> BOOLEAN]

(* What one end receives is what the other encoded, in that order and each
   message once, however its handles interleave and whatever calls are
   cancelled half-way or fail. *)
InOrderOnce ==
  \A e \in Ends : IsPrefix(got[e] \o Unread(e), fed[Other(e)])

(* Whoever is told ConnectionClosed without having been told of an error has
   received every message that the other end sent with Ok, and the other end
   is gone.  (After an error it means neither: lib.rs:72 makes it of the None
   that Framed gives after any error.) *)
ClosedIsComplete ==
  \A e \in Ends :
    closed[e] /\ ~failed[e] =>
      Gone(Other(e)) /\ acked[Other(e)] \subseteq ToSet(got[e])

(* Each direction between two ends is a message channel: a message is received
   once, after those encoded before it, and none is received after an error or
   ConnectionClosed, whichever handles sent, received, gave up or left. *)
Stopped(e) == failed[e] \/ closed[e]

ToNear == INSTANCE MessageChannel WITH
  written <- fed["far"], delivered <- got["near"], failed <- Stopped("near")
ToFar == INSTANCE MessageChannel WITH
  written <- fed["near"], delivered <- got["far"], failed <- Stopped("far")

ImplementsChannels == ToNear!Spec /\ ToFar!Spec

WaitsForPeer(e) ==
  /\ ~Gone(Other(e)) /\ holder[e] # None
  /\ \/ op[holder[e]] = "receive" /\ ~has_errored[e] /\ Unread(e) = <<>>
     \/ op[holder[e]] = "send" /\ Len(pipe[Other(e)]) = Window

(* A call is held up only while the call that has the lock waits for the other
   end, to send or to read, and that end exists: once its last handle is
   dropped, every queued or waiting call returns. *)
CallsProceed ==
  \A h \in Handles :
    op[h] # "idle" ~> op[h] = "idle" \/ WaitsForPeer(h[1])
=============================================================================
