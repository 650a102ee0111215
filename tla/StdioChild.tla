----------------------------- MODULE StdioChild -----------------------------
(***************************************************************************)
(* A StdioTransportStream and the process at its other end: connect spawns  *)
(* the child (or takes the standard streams of this process), reads and     *)
(* writes go through two pipes, and close shuts stdin down, waits for the    *)
(* child for a limited time and then kills it.                               *)
(*                                                                         *)
(* The child is external: it answers every byte of its input with one byte  *)
(* of output, writes before it reads on, and may exit at any time; it exits  *)
(* at the end of its input unless it is stubborn.  A full pipe blocks its    *)
(* writer.  Whether shutdown of a pipe closes it, or leaves that to the drop, *)
(* is up to the runtime, so both are possible.                               *)
(***************************************************************************)
EXTENDS Naturals, StdioState

CONSTANT Capacity   \* bytes that a pipe holds

ASSUME CapacityAssumption == Capacity \in Nat \ {0}

pipes == <<input, owed, output>>
outside == <<stubborn, closesPipe>>
vars == <<stream, child, handle, closing, result, cutShort, stdin, pipes, outside>>

Init ==
  /\ stream = "none" /\ child = "none" /\ handle = FALSE
  /\ closing = "idle" /\ result = "none" /\ cutShort = "no"
  /\ stdin = FALSE /\ input = 0 /\ owed = 0 /\ output = 0
  /\ stubborn \in BOOLEAN /\ closesPipe \in BOOLEAN

----------------------------------------------------------------------------
(* connect with no command in the URL or the configuration. *)
new_from_self ==
  /\ stream = "none"
  /\ stream' = "self"
  /\ UNCHANGED <<child, handle, closing, result, cutShort, stdin, pipes, outside>>

(* connect with a command: the child is spawned with pipes. *)
new_from_child ==
  /\ stream = "none"
  /\ stream' = "child" /\ child' = "running" /\ handle' = TRUE /\ stdin' = TRUE
  /\ UNCHANGED <<closing, result, cutShort, pipes, outside>>

(* An invalid URL, or a command that cannot be spawned. *)
connect_err ==
  /\ stream = "none"
  /\ stream' = "failed"
  /\ UNCHANGED <<child, handle, closing, result, cutShort, stdin, pipes, outside>>

connect == new_from_self \/ new_from_child \/ connect_err

poll_write ==
  /\ stream = "child" /\ closing = "idle"
  /\ stdin /\ child = "running" /\ input < Capacity
  /\ input' = input + 1
  /\ UNCHANGED <<stream, child, handle, closing, result, cutShort, stdin, owed, output, outside>>

poll_read ==
  /\ stream = "child" /\ closing = "idle"
  /\ output > 0
  /\ output' = output - 1
  /\ UNCHANGED <<stream, child, handle, closing, result, cutShort, stdin, input, owed, outside>>

(* shutdown of the stream alone; the child stays with it. *)
poll_shutdown ==
  /\ stream = "child" /\ closing = "idle"
  /\ stdin' = (stdin /\ ~closesPipe)
  /\ UNCHANGED <<stream, child, handle, closing, result, cutShort, pipes, outside>>

----------------------------------------------------------------------------
(* close, one action per await. *)
close ==
  /\ stream \in {"self", "child"} /\ closing = "idle"
  /\ closing' = "shutdown"
  /\ UNCHANGED <<stream, child, handle, result, cutShort, stdin, pipes, outside>>

(* shutdown has succeeded: the child, if there still is one, is taken out of
   the stream and waited for. *)
close_take ==
  /\ closing = "shutdown"
  /\ stdin' = (stdin /\ ~closesPipe)
  /\ handle' = FALSE
  /\ IF handle THEN closing' = "wait" /\ UNCHANGED result
               ELSE closing' = "idle" /\ result' = "ok"
  /\ UNCHANGED <<stream, child, cutShort, pipes, outside>>

(* shutdown has failed: close returns with the child still in the stream. *)
shutdown_err ==
  /\ closing = "shutdown"
  /\ closing' = "idle" /\ result' = "err"
  /\ UNCHANGED <<stream, child, handle, cutShort, stdin, pipes, outside>>

wait_ok ==
  /\ closing = "wait" /\ child = "exited"
  /\ closing' = "idle" /\ result' = "ok"
  /\ UNCHANGED <<stream, child, handle, cutShort, stdin, pipes, outside>>

(* wait has failed: the child is dropped, which does not end it. *)
wait_err_Ok ==
  /\ closing = "wait"
  /\ closing' = "idle" /\ result' = "ok"
  /\ UNCHANGED <<stream, child, handle, cutShort, stdin, pipes, outside>>

wait_err ==
  /\ closing = "wait"
  /\ closing' = "idle" /\ result' = "err" /\ cutShort' = "failed"
  /\ UNCHANGED <<stream, child, handle, stdin, pipes, outside>>

(* The timeout has passed. *)
timeout_Returns ==
  /\ closing = "wait"
  /\ closing' = "idle" /\ result' = "err"
  /\ UNCHANGED <<stream, child, handle, cutShort, stdin, pipes, outside>>

timeout_Exited ==
  /\ closing = "wait" /\ child = "exited"
  /\ closing' = "kill"
  /\ UNCHANGED <<stream, child, handle, result, cutShort, stdin, pipes, outside>>

timeout ==
  /\ closing = "wait"
  /\ closing' = "kill"
  /\ UNCHANGED <<stream, child, handle, result, cutShort, stdin, pipes, outside>>

(* kill sends the signal and waits for the exit. *)
kill ==
  /\ closing = "kill"
  /\ child' = "exited"
  /\ closing' = "idle" /\ result' = "ok"
  /\ UNCHANGED <<stream, handle, cutShort, stdin, pipes, outside>>

kill_err ==
  /\ closing = "kill"
  /\ closing' = "idle" /\ result' = "err" /\ cutShort' = "failed"
  /\ UNCHANGED <<stream, child, handle, stdin, pipes, outside>>

Close ==
  \/ close_take \/ shutdown_err \/ wait_ok \/ wait_err \/ timeout \/ kill \/ kill_err

(* The future of close is dropped, and with it the child it has taken. *)
cancel ==
  /\ closing # "idle"
  /\ closing' = "idle"
  /\ cutShort' = IF closing = "shutdown" THEN cutShort ELSE "cancelled"
  /\ UNCHANGED <<stream, child, handle, result, stdin, pipes, outside>>

(* The stream is dropped: both pipes close, and the child, if it is still
   held, is let go without being killed. *)
drop_Leaks ==
  /\ stream \in {"self", "child"} /\ closing = "idle"
  /\ stream' = "dropped"
  /\ handle' = FALSE
  /\ cutShort' = IF handle THEN "dropped" ELSE cutShort
  /\ UNCHANGED <<child, closing, result, stdin, pipes, outside>>

drop ==
  /\ stream \in {"self", "child"} /\ closing = "idle"
  /\ stream' = "dropped"
  /\ handle' = FALSE /\ stdin' = FALSE
  /\ cutShort' = IF handle THEN "dropped" ELSE cutShort
  /\ UNCHANGED <<child, closing, result, pipes, outside>>

----------------------------------------------------------------------------
(* The child. *)
child_read ==
  /\ child = "running" /\ owed = 0 /\ input > 0
  /\ input' = input - 1 /\ owed' = 1
  /\ UNCHANGED <<stream, child, handle, closing, result, cutShort, stdin, output, outside>>

(* A write to a pipe that nobody can read ends the child. *)
child_write ==
  /\ child = "running" /\ owed > 0
  /\ IF stream = "dropped"
       THEN child' = "exited" /\ UNCHANGED pipes
       ELSE /\ output < Capacity
            /\ output' = output + 1 /\ owed' = owed - 1
            /\ UNCHANGED <<child, input>>
  /\ UNCHANGED <<stream, handle, closing, result, cutShort, stdin, outside>>

child_eof ==
  /\ child = "running" /\ ~stubborn /\ ~stdin /\ input = 0 /\ owed = 0
  /\ child' = "exited"
  /\ UNCHANGED <<stream, handle, closing, result, cutShort, stdin, pipes, outside>>

child_exit ==
  /\ child = "running"
  /\ child' = "exited"
  /\ UNCHANGED <<stream, handle, closing, result, cutShort, stdin, pipes, outside>>

Next ==
  \/ connect
  \/ poll_write \/ poll_read \/ poll_shutdown
  \/ close \/ Close \/ cancel \/ drop
  \/ child_read \/ child_write \/ child_eof \/ child_exit

Spec == Init /\ [][Next]_vars

(* The task that closes is polled, its timer fires and a signal is delivered;
   the child goes on unless a pipe blocks it. *)
FairSpec ==
  /\ Spec
  /\ WF_vars(close_take) /\ WF_vars(timeout) /\ WF_vars(kill)
  /\ WF_vars(child_read) /\ WF_vars(child_write) /\ WF_vars(child_eof)

----------------------------------------------------------------------------
(* Types; the stream or one close holds the child, never both. *)
TypeOK ==
  /\ stream \in {"none", "self", "child", "failed", "dropped"}
  /\ child \in {"none", "running", "exited"}
  /\ closing \in {"idle", "shutdown", "wait", "kill"}
  /\ result \in {"none", "ok", "err"}
  /\ cutShort \in {"no", "cancelled", "failed", "dropped"}
  /\ handle \in BOOLEAN /\ stdin \in BOOLEAN
  /\ input \in 0 .. Capacity /\ output \in 0 .. Capacity /\ owed \in 0 .. 1
  /\ handle => stream = "child" /\ child # "none" /\ closing \in {"idle", "shutdown"}
  /\ closing \in {"wait", "kill"} => stream = "child"

(* close returns although the child neither reads nor exits, is blocked on a
   full pipe, or never sees the end of its input. *)
CloseReturns == closing # "idle" ~> closing = "idle"

(* A child whose stream is dropped ends by itself, also when it is blocked on
   its output and when a close was dropped before: the drop closes its pipes. *)
DropReachesChild == stream = "dropped" ~> child # "running" \/ stubborn
=============================================================================
