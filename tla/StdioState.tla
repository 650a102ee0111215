----------------------------- MODULE StdioState -----------------------------
(***************************************************************************)
(* The state of a StdioTransportStream and its child process, and what the  *)
(* stream promises about the child.  StdioChild is the behaviour.           *)
(***************************************************************************)
VARIABLES
  stream,      \* "none", "self", "child", "failed", "dropped"
  child,       \* "none", "running", "exited"
  handle,      \* self.child is Some
  closing,     \* close: "idle", "shutdown", "wait", "kill"
  result,      \* what the last close returned: "none", "ok", "err"
  cutShort,    \* history: why the child was let go: "no", "cancelled", "failed", "dropped"
  stdin,       \* the stream's end of the child's input is open
  input,       \* bytes in the pipe to the child
  owed,        \* bytes that the child has read and not answered
  output,      \* bytes in the pipe from the child
  stubborn,    \* the child does not exit at the end of its input
  closesPipe   \* shutdown closes the pipe

----------------------------------------------------------------------------
(* A child runs without anybody who could wait for it or kill it only after a
   close that was dropped behind its first await, a wait or kill that failed,
   or the drop of the stream without a close.  The timeout is no such case. *)
NoOrphan ==
  child = "running" /\ ~handle /\ closing = "idle" => cutShort # "no"

(* When close returns Ok the child has exited.  The exception is a close that
   is called again after one that lost the child: it finds none and succeeds. *)
OkMeansExited ==
  result = "ok" /\ child = "running" => cutShort \in {"cancelled", "failed"}
=============================================================================
