----------------------------- MODULE TcpFrames -----------------------------
(***************************************************************************)
(* The FramedTransport of a TCP stream: write_frame writes a length prefix  *)
(* and the data, read_frame reads a prefix and then that many bytes.  Both  *)
(* run under a timeout, and neither remembers how far it got: a call that   *)
(* ends inside a frame leaves the stream there, and the next call starts    *)
(* with a prefix.                                                           *)
(*                                                                         *)
(* The socket (external) carries the bytes in order, in pieces of any size, *)
(* until it is reset: from then on any read, write or flush may fail.       *)
(* A prefix that is read where none was written is whatever the data        *)
(* happens to be: any length of Lengths.                                    *)
(***************************************************************************)
EXTENDS Naturals, Sequences, SequencesExt

CONSTANTS
  PREFIX,                     \* bytes of the length prefix
  Lengths,                    \* lengths of frames
  DEFAULT_MAX_MESSAGE_SIZE,   \* what write_frame accepts
  read_limit,   \* read_timeout in seconds (30 without one): read_frame compares
                \* the length of a frame with it
  read_timeout, write_timeout,   \* whether the calls run under a timeout
  MaxWrites                   \* bound on the calls of write_frame

ASSUME TcpAssumption ==
  /\ PREFIX \in Nat \ {0} /\ Lengths \subseteq Nat
  /\ DEFAULT_MAX_MESSAGE_SIZE \in Nat /\ read_limit \in Nat
  /\ read_timeout \in BOOLEAN /\ write_timeout \in BOOLEAN
  /\ MaxWrites \in Nat

VARIABLES
  frames,     \* the frames written, [at, size, done]: done bytes of it exist
  sent,       \* bytes in the stream
  writing,    \* a write_frame is in progress, of the last frame
  socket,     \* "open", "shut" by the writer, or "reset"
  pos,        \* bytes read
  stage,      \* of the read_frame in progress: "idle", "prefix" or "data"
  start,      \* where it began
  length,     \* the length it has read
  returned,   \* the frames that read_frame returned, [at, size]
  cut         \* some call has ended inside a frame

writer == <<frames, sent, writing, socket>>
reader == <<pos, stage, start, length, returned>>
vars == <<frames, sent, writing, socket, pos, stage, start, length, returned,
          cut>>

Init ==
  /\ frames = <<>> /\ sent = 0 /\ writing = FALSE /\ socket = "open"
  /\ pos = 0 /\ stage = "idle" /\ start = 0 /\ length = 0
  /\ returned = <<>> /\ cut = FALSE

Whole(f) == f.done = PREFIX + f.size

----------------------------------------------------------------------------
(* write_frame: the length is checked, and write_all begins. *)
write_frame(l) ==
  /\ socket # "shut" /\ ~writing /\ Len(frames) < MaxWrites
  /\ l <= DEFAULT_MAX_MESSAGE_SIZE
  /\ frames' = Append(frames, [at |-> sent, size |-> l, done |-> 0])
  /\ writing' = TRUE
  /\ UNCHANGED <<sent, socket, reader, cut>>

(* The socket takes n bytes; with the last of them the call returns: the flush
   of a socket has nothing to wait for, and one that fails leaves the same. *)
poll_write(n) ==
  LET f == Last(frames) IN
  /\ writing /\ f.done + n <= PREFIX + f.size
  /\ frames' = [frames EXCEPT ![Len(frames)].done = @ + n]
  /\ sent' = sent + n
  /\ writing' = (f.done + n # PREFIX + f.size)
  /\ UNCHANGED <<socket, reader, cut>>

(* A write that is given up leaves what was written: nothing, or a part. *)
GiveUpWrite ==
  /\ writing
  /\ writing' = FALSE
  /\ IF Last(frames).done = 0
     THEN frames' = Front(frames) /\ UNCHANGED cut
     ELSE UNCHANGED frames /\ cut' = TRUE
  /\ UNCHANGED <<sent, socket, reader>>

(* The write timeout drops the future, or write_all fails. *)
write_timed_out == write_timeout /\ GiveUpWrite

write_err == socket = "reset" /\ GiveUpWrite

close ==
  /\ socket = "open" /\ ~writing
  /\ socket' = "shut"
  /\ UNCHANGED <<frames, sent, writing, reader, cut>>

(* The network or the other process fails. *)
reset ==
  /\ socket # "reset"
  /\ socket' = "reset"
  /\ UNCHANGED <<frames, sent, writing, reader, cut>>

----------------------------------------------------------------------------
(* Bytes the current read_exact still wants. *)
Wanted ==
  CASE stage = "prefix" -> start + PREFIX - pos
    [] stage = "data" -> start + PREFIX + length - pos
    [] OTHER -> 0

(* What the bytes at n say as a length. *)
LengthsAt(n) ==
  IF \E k \in DOMAIN frames : frames[k].at = n /\ frames[k].done >= PREFIX
  THEN {frames[k].size : k \in {j \in DOMAIN frames : frames[j].at = n}}
  ELSE Lengths

read_frame ==
  /\ stage = "idle"
  /\ stage' = "prefix"
  /\ start' = pos
  /\ UNCHANGED <<writer, pos, length, returned, cut>>

poll_read(n) ==
  /\ n <= Wanted /\ pos + n <= sent
  /\ pos' = pos + n
  /\ UNCHANGED <<writer, stage, start, length, returned, cut>>

(* The prefix is complete: the frame is refused, its data left unread ... *)
length_refused(l) ==
  /\ stage = "prefix" /\ Wanted = 0
  /\ l \in LengthsAt(start) /\ l > read_limit
  /\ stage' = "idle" /\ length' = 0
  /\ cut' = TRUE
  /\ UNCHANGED <<writer, pos, start, returned>>

(* ... or its data is read ... *)
length_read_NoPrefix(l) ==
  /\ stage = "prefix" /\ Wanted = 0
  /\ l \in LengthsAt(start) /\ l <= read_limit
  /\ length' = IF l >= PREFIX THEN l - PREFIX ELSE 0
  /\ stage' = "data"
  /\ UNCHANGED <<writer, pos, start, returned, cut>>

length_read(l) ==
  /\ stage = "prefix" /\ Wanted = 0
  /\ l \in LengthsAt(start) /\ l <= read_limit
  /\ length' = l
  /\ stage' = "data"
  /\ UNCHANGED <<writer, pos, start, returned, cut>>

(* ... and returned. *)
data_read_NonEmpty ==
  /\ stage = "data" /\ Wanted = 0 /\ length > 0
  /\ returned' = Append(returned, [at |-> start, size |-> length])
  /\ stage' = "idle" /\ length' = 0
  /\ UNCHANGED <<writer, pos, start, cut>>

data_read ==
  /\ stage = "data" /\ Wanted = 0
  /\ returned' = Append(returned, [at |-> start, size |-> length])
  /\ stage' = "idle" /\ length' = 0
  /\ UNCHANGED <<writer, pos, start, cut>>

(* A read that ends without a frame: what it has read is lost. *)
GiveUpRead ==
  /\ Wanted > 0
  /\ stage' = "idle" /\ length' = 0
  /\ cut' = (cut \/ pos # start)
  /\ UNCHANGED <<writer, pos, start, returned>>

(* The read timeout drops the future; its timer is looked at when the read has
   to wait for bytes. *)
read_timed_out == read_timeout /\ pos = sent /\ GiveUpRead

(* read_exact meets the end of the stream, or an error. *)
read_eof == socket = "shut" /\ pos = sent /\ GiveUpRead

read_err == socket = "reset" /\ GiveUpRead

Read ==
  \/ read_frame
  \/ \E n \in 1 .. Wanted : poll_read(n)
  \/ \E l \in Lengths : length_refused(l) \/ length_read(l)
  \/ data_read

Next ==
  \/ \E l \in Lengths : write_frame(l)
  \/ writing /\ \E n \in 1 .. (PREFIX + Last(frames).size) : poll_write(n)
  \/ write_timed_out
  \/ write_err
  \/ close
  \/ reset
  \/ Read
  \/ read_timed_out
  \/ read_eof
  \/ read_err

Spec == Init /\ [][Next]_vars

(* The reader calls read_frame in a loop, and its task is polled when there
   are bytes. *)
FairSpec == Spec /\ WF_vars(Read)

----------------------------------------------------------------------------
Frame == [at : Nat, size : Nat, done : Nat]
Sockets == {"open", "shut", "reset"}

(* Types; nothing is read before it is written. *)
TypeOK ==
  /\ frames \in Seq(Frame) /\ sent \in Nat
  /\ writing \in BOOLEAN /\ socket \in Sockets /\ cut \in BOOLEAN
  /\ pos \in 0 .. sent /\ start \in 0 .. pos /\ length \in Nat
  /\ stage \in {"idle", "prefix", "data"}
  /\ returned \in Seq([at : Nat, size : Nat])

(* As long as no call has ended inside a frame, read_frame has returned the
   frames that were written, whole, in order and each once, and the next call
   starts at the next frame. *)
FramesIntact ==
  ~cut =>
    /\ Len(returned) <= Len(frames)
    /\ \A i \in DOMAIN returned :
         /\ Whole(frames[i])
         /\ returned[i] = [at |-> frames[i].at, size |-> frames[i].size]
    /\ stage = "idle" /\ pos < sent =>
         /\ Len(returned) < Len(frames)
         /\ frames[Len(returned) + 1].at = pos

(* A frame that was written whole is returned in the end, unless some call
   has ended inside a frame or the connection was reset. *)
FramesArrive ==
  \A k \in 1 .. MaxWrites :
    (k <= Len(frames) /\ Whole(frames[k])) ~>
      (Len(returned) >= k \/ cut \/ socket = "reset")
=============================================================================
