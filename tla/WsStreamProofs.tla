--------------------------- MODULE WsStreamProofs ---------------------------
(***************************************************************************)
(* Proofs of the invariants of WsStream for all buffer lengths, all rooms   *)
(* and any number of messages.                                              *)
(***************************************************************************)
EXTENDS WsStream, TLAPS

(* The messages lie end to end in the bytes written; those that carry no data
   have no length; a Close is the last. *)
Layout ==
  \A i \in 1 .. Len(sent) :
    /\ sent[i].at = Offset(i - 1)
    /\ sent[i].kind \notin Data => sent[i].size = 0
    /\ sent[i].kind = "close" => closing /\ i = Len(sent)

(* The message that a reader panicked on is in the socket. *)
PanicInSocket == status = "panicked" => taken < flushed

(* A task that sleeps is known to the socket, which has nothing for it; or a
   control message was the last thing it was given. *)
Asleep ==
  task = "asleep" /\ status = "reading" =>
    \/ taken > 0 /\ sent[taken].kind \in Control
    \/ waker /\ taken = flushed /\ ~broken

IInv ==
  TypeOK /\ Layout /\ BytesExact /\ StopsForCause /\ PanicInSocket /\ Asleep

USE WsAssumption

(* The initial states satisfy the invariant. *)
LEMMA InitIInv == Init => IInv
<1> SUFFICES ASSUME Init PROVE IInv OBVIOUS
<1>1. closing \in BOOLEAN /\ broken \in BOOLEAN /\ waker \in BOOLEAN
  BY Zenon DEF Init
<1>2. sent = <<>> /\ flushed = 0 /\ taken = 0 /\ read = 0 /\ status = "reading" /\ task = "ready"
  BY DEF Init
<1>3. TypeOK BY <1>1, <1>2 DEF TypeOK
<1>4. Layout /\ BytesExact BY <1>2 DEF Layout, BytesExact, Offset
<1>5. StopsForCause /\ PanicInSocket /\ Asleep
  BY <1>2 DEF StopsForCause, PanicInSocket, Asleep
<1>6. QED BY <1>3, <1>4, <1>5 DEF IInv

(* Offsets are numbers. *)
LEMMA OffsetType == ASSUME TypeOK, NEW k \in 0 .. Len(sent) PROVE Offset(k) \in Nat
<1>1. CASE k = 0 BY <1>1 DEF Offset
<1>2. CASE k # 0
  <2>1. sent \in Seq(Messages) BY DEF TypeOK
  <2>2. k \in 1 .. Len(sent) BY <1>2, <2>1
  <2>3. sent[k] \in Messages BY <2>1, <2>2
  <2>4. QED BY <1>2, <2>3 DEF Offset, Messages
<1>3. QED BY <1>1, <1>2

(* One more message: the others stay where they are. *)
Appends(kind, n) == sent' = Append(sent, Message(kind, n))

LEMMA AppendKeeps ==
  ASSUME TypeOK, NEW kind \in Kinds, NEW n \in Nat, Appends(kind, n)
  PROVE  /\ sent' \in Seq(Messages)
         /\ Len(sent') = Len(sent) + 1
         /\ \A i \in 1 .. Len(sent) : sent'[i] = sent[i]
         /\ \A i \in 0 .. Len(sent) : Offset(i)' = Offset(i)
         /\ sent'[Len(sent) + 1] = Message(kind, n)
<1>1. Offset(Len(sent)) \in Nat
  BY OffsetType DEF TypeOK
<1>2. Message(kind, n) \in Messages
  BY <1>1 DEF Message, Messages
<1>3. sent \in Seq(Messages) BY DEF TypeOK
<1>4. sent' \in Seq(Messages) /\ Len(sent') = Len(sent) + 1
  BY <1>2, <1>3 DEF Appends
<1>5. \A i \in 1 .. Len(sent) : sent'[i] = sent[i]
  BY <1>2, <1>3 DEF Appends
<1>6. sent'[Len(sent) + 1] = Message(kind, n)
  BY <1>2, <1>3 DEF Appends
<1>7. \A i \in 0 .. Len(sent) : Offset(i)' = Offset(i)
  BY <1>5, <1>3 DEF Offset
<1>8. QED BY <1>4, <1>5, <1>6, <1>7

(* A message that is written keeps the layout. *)
LEMMA AppendLayout ==
  ASSUME TypeOK, Layout, NEW kind \in Kinds, NEW n \in Nat, Appends(kind, n), ~closing,
         kind \notin Data => n = 0, kind = "close" => closing'
  PROVE  Layout'
<1> SUFFICES ASSUME NEW i \in 1 .. Len(sent')
             PROVE  /\ sent'[i].at = Offset(i - 1)'
                    /\ sent'[i].kind \notin Data => sent'[i].size = 0
                    /\ sent'[i].kind = "close" => closing' /\ i = Len(sent')
  BY DEF Layout, Offset
<1>1. Len(sent) \in Nat /\ Len(sent') = Len(sent) + 1 BY AppendKeeps DEF TypeOK
<1>2. CASE i \in 1 .. Len(sent)
  <2>1. sent'[i] = sent[i] /\ Offset(i - 1)' = Offset(i - 1)
    BY <1>1, <1>2, AppendKeeps
  <2>2. QED BY <1>2, <2>1 DEF Layout
<1>3. CASE i = Len(sent) + 1
  <2>1. sent'[i] = Message(kind, n) /\ Offset(i - 1)' = Offset(i - 1)
    BY <1>1, <1>3, AppendKeeps
  <2>2. QED BY <1>1, <1>3, <2>1 DEF Message
<1>4. QED BY <1>1, <1>2, <1>3

(* What the reader has got, and why it stopped, stay when the messages do. *)
LEMMA ReaderKept ==
  ASSUME IInv, UNCHANGED <<taken, read, status>>,
         Len(sent') \in Nat, Len(sent') >= Len(sent), flushed' >= flushed,
         flushed' \in Nat,
         \A i \in 1 .. Len(sent) : sent'[i] = sent[i],
         \A i \in 0 .. Len(sent) : Offset(i)' = Offset(i),
         closing => Len(sent') = Len(sent),
         broken => broken' /\ flushed' = flushed
  PROVE  /\ BytesExact' /\ StopsForCause' /\ PanicInSocket'
         /\ taken \in 0 .. Len(sent)
         /\ taken > 0 => sent'[taken] = sent[taken]
<1>1. taken \in 0 .. Len(sent) /\ Len(sent) \in Nat /\ flushed \in Nat
  BY DEF IInv, TypeOK
<1>2. status = "panicked" => taken + 1 \in 1 .. Len(sent)
  BY <1>1 DEF IInv, TypeOK, PanicInSocket
<1>3. BytesExact' BY <1>1 DEF IInv, BytesExact
<1>4. taken > 0 => sent'[taken] = sent[taken] BY <1>1
<1>5. PanicInSocket' BY <1>1 DEF IInv, PanicInSocket
<1>6. (status = "panicked" => \E room \in Rooms : sent[taken + 1].size > room)'
  BY <1>1, <1>2 DEF IInv, StopsForCause
<1>7. (status = "failed" => broken /\ taken = flushed)'
  BY DEF IInv, StopsForCause
<1>8. ASSUME status = "ended"
      PROVE  /\ taken > 0 /\ (read = Offset(taken))' /\ sent'[taken].size = 0
             /\ sent'[taken].kind = "close" => taken = Len(sent')
             /\ sent'[taken].kind \notin Control
  <2>1. taken > 0 /\ sent[taken].size = 0 /\ sent[taken].kind \notin Control
    BY <1>8 DEF IInv, StopsForCause
  <2>2. sent[taken].kind = "close" => closing /\ taken = Len(sent)
    BY <1>1, <2>1 DEF IInv, Layout
  <2>3. QED BY <1>3, <1>4, <2>1, <2>2 DEF BytesExact
<1>9. StopsForCause' BY <1>6, <1>7, <1>8 DEF StopsForCause
<1>10. QED BY <1>1, <1>3, <1>4, <1>5, <1>9

(* A message that is written, and not yet flushed, disturbs nothing. *)
LEMMA WriteStep ==
  ASSUME IInv, NEW kind \in Kinds \ {"close"}, NEW n \in Nat, Appends(kind, n),
         kind \notin Data => n = 0, ~closing,
         UNCHANGED <<flushed, closing, broken, taken, read, status, task, waker>>
  PROVE  IInv'
<1>1. TypeOK /\ Layout BY DEF IInv
<1>2a. Len(sent) \in Nat /\ kind \in Kinds BY <1>1 DEF TypeOK
<1>2. /\ sent' \in Seq(Messages)
      /\ Len(sent') = Len(sent) + 1
      /\ \A i \in 1 .. Len(sent) : sent'[i] = sent[i]
      /\ \A i \in 0 .. Len(sent) : Offset(i)' = Offset(i)
  BY <1>2a, <1>1, AppendKeeps
<1>3. Layout' BY <1>2a, <1>1, AppendLayout
<1>4. TypeOK' BY <1>2a, <1>1, <1>2 DEF TypeOK
<1>5. flushed \in Nat BY <1>2a, <1>1 DEF TypeOK
<1>6. /\ BytesExact' /\ StopsForCause' /\ PanicInSocket'
      /\ taken > 0 => sent'[taken] = sent[taken]
  BY <1>2a, <1>2, <1>5, ReaderKept
<1>7. Asleep' BY <1>6 DEF IInv, Asleep
<1>8. QED BY <1>3, <1>4, <1>6, <1>7 DEF IInv

(* A wake-up leaves no task asleep that the socket knows. *)
LEMMA WakeStep ==
  ASSUME IInv, Wake, UNCHANGED <<taken, status>>, taken > 0 => sent'[taken] = sent[taken]
  PROVE  Asleep' /\ waker' \in BOOLEAN /\ task' \in {"ready", "asleep"}
<1>1. waker' \in BOOLEAN BY Zenon DEF Wake
<1>2. task' \in {"ready", "asleep"} BY DEF Wake, IInv, TypeOK
<1>3. ASSUME waker PROVE Asleep' BY <1>3 DEF Wake, Asleep
<1>4. ASSUME ~waker PROVE Asleep'
  <2>1. task' = task BY <1>4 DEF Wake
  <2>2. task = "asleep" /\ status = "reading" => taken > 0 /\ sent[taken].kind \in Control
    BY <1>4, Zenon DEF Asleep, IInv
  <2>3. QED BY <2>1, <2>2 DEF Asleep
<1>5. QED BY <1>1, <1>2, <1>3, <1>4

(* What the sender and the connection do to what is in the socket. *)
LEMMA SenderStep ==
  ASSUME IInv, (\E k \in 1 .. Len(sent) : poll_flush(k)) \/ poll_shutdown \/ reset
  PROVE  IInv'
<1>1. TypeOK /\ Layout BY DEF IInv
<1>2. sent \in Seq(Messages) /\ Len(sent) \in Nat
      /\ flushed \in 0 .. Len(sent) /\ taken \in 0 .. flushed /\ read \in Nat
      /\ status \in {"reading", "ended", "failed", "panicked"}
  BY <1>1 DEF TypeOK
<1>3. ASSUME NEW k \in 1 .. Len(sent), poll_flush(k) PROVE IInv'
  <2>1. UNCHANGED <<sent, taken, read, status>> /\ flushed' = k /\ k > flushed
        /\ k \in Nat
    BY <1>2, <1>3 DEF poll_flush
  <2>2. ~broken /\ Wake /\ UNCHANGED <<closing, broken>> BY <1>3 DEF poll_flush
  <2>3. \A i \in 0 .. Len(sent) : Offset(i)' = Offset(i) BY <2>1 DEF Offset
  <2>4. BytesExact' /\ StopsForCause' /\ PanicInSocket'
    BY <1>2, <2>1, <2>2, <2>3, ReaderKept
  <2>5. Asleep' /\ waker' \in BOOLEAN /\ task' \in {"ready", "asleep"}
    BY <2>1, <2>2, WakeStep
  <2>6. Layout' BY <1>1, <2>1, <2>2, <2>3 DEF Layout, Offset
  <2>7. closing' \in BOOLEAN /\ broken' \in BOOLEAN BY <1>1, <2>2 DEF TypeOK
  <2>8. TypeOK' BY <1>2, <2>1, <2>5, <2>7 DEF TypeOK
  <2>9. QED BY <2>4, <2>5, <2>6, <2>8 DEF IInv
<1>4. ASSUME poll_shutdown PROVE IInv'
  <2>1. Appends("close", 0) /\ flushed' = Len(sent') /\ UNCHANGED <<taken, read, status>>
    BY <1>4 DEF poll_shutdown, Appends
  <2>2. ~closing /\ ~broken /\ Wake /\ UNCHANGED broken BY <1>4 DEF poll_shutdown
  <2>3. closing' \in BOOLEAN /\ closing' BY <1>4, Zenon DEF poll_shutdown
  <2>4. "close" \in Kinds /\ 0 \in Nat BY DEF Kinds
  <2>5. /\ sent' \in Seq(Messages)
        /\ Len(sent') = Len(sent) + 1
        /\ \A i \in 1 .. Len(sent) : sent'[i] = sent[i]
        /\ \A i \in 0 .. Len(sent) : Offset(i)' = Offset(i)
    BY <1>1, <2>1, <2>4, AppendKeeps
  <2>6. Layout' BY <1>1, <2>1, <2>2, <2>3, <2>4, AppendLayout
  <2>7. /\ BytesExact' /\ StopsForCause' /\ PanicInSocket'
        /\ taken > 0 => sent'[taken] = sent[taken]
    <3>1. flushed' \in Nat /\ flushed' >= flushed /\ Len(sent') \in Nat /\ Len(sent') >= Len(sent)
      BY <1>2, <2>1, <2>5
    <3>2. QED BY <2>1, <2>2, <2>5, <3>1, ReaderKept
  <2>8. Asleep' /\ waker' \in BOOLEAN /\ task' \in {"ready", "asleep"}
    BY <2>1, <2>2, <2>7, WakeStep
  <2>9. broken' \in BOOLEAN BY <1>1, <2>2 DEF TypeOK
  <2>10. TypeOK' BY <1>2, <2>1, <2>3, <2>5, <2>8, <2>9 DEF TypeOK
  <2>11. QED BY <2>6, <2>7, <2>8, <2>10 DEF IInv
<1>5. ASSUME reset PROVE IInv'
  <2>1. UNCHANGED <<sent, flushed, taken, read, status>> BY <1>5 DEF reset
  <2>2. broken' \in BOOLEAN /\ broken' BY <1>5, Zenon DEF reset
  <2>3. ~broken /\ Wake /\ UNCHANGED closing BY <1>5 DEF reset
  <2>4. \A i \in 0 .. Len(sent) : Offset(i)' = Offset(i) BY <2>1 DEF Offset
  <2>5. BytesExact' /\ StopsForCause' /\ PanicInSocket'
    BY <1>2, <2>1, <2>2, <2>3, <2>4, ReaderKept
  <2>6. Asleep' /\ waker' \in BOOLEAN /\ task' \in {"ready", "asleep"}
    BY <2>1, <2>3, WakeStep
  <2>7. Layout' BY <1>1, <2>1, <2>3, <2>4 DEF Layout, Offset
  <2>8. closing' \in BOOLEAN BY <1>1, <2>3 DEF TypeOK
  <2>9. TypeOK' BY <1>2, <2>1, <2>2, <2>6, <2>8 DEF TypeOK
  <2>10. QED BY <2>5, <2>6, <2>7, <2>9 DEF IInv
<1>6. QED BY <1>3, <1>4, <1>5

----------------------------------------------------------------------------
(* poll_read of the next message, which has n bytes. *)
Takes(n) == taken < flushed /\ n = sent[taken + 1].size /\ taken' = taken + 1 /\ read' = read + n

(* The bytes that were read stay exact when the next message is taken. *)
LEMMA TakeExact ==
  ASSUME IInv, NEW n, Takes(n), UNCHANGED sent
  PROVE  /\ BytesExact' /\ taken' \in 1 .. flushed /\ read' \in Nat
         /\ sent'[taken'] = sent[taken + 1]
<1>1. /\ sent \in Seq(Messages) /\ Len(sent) \in Nat
      /\ flushed \in 0 .. Len(sent) /\ taken \in 0 .. flushed /\ read \in Nat
  BY DEF IInv, TypeOK
<1>2. taken + 1 \in 1 .. Len(sent) /\ taken' = taken + 1 /\ taken' # 0
      /\ n = sent[taken + 1].size /\ read' = read + n /\ taken < flushed
  BY <1>1 DEF Takes
<1>3. sent[taken + 1] \in Messages BY <1>1, <1>2
<1>4. n \in Nat /\ sent[taken + 1].at \in Nat BY <1>2, <1>3 DEF Messages
<1>5. sent[taken + 1].at = Offset(taken)
  BY <1>1, <1>2 DEF IInv, Layout
<1>6. read = Offset(taken) BY DEF IInv, BytesExact
<1>7. Offset(taken)' = sent[taken + 1].at + sent[taken + 1].size
  BY <1>2 DEF Offset
<1>8. BytesExact' BY <1>2, <1>4, <1>5, <1>6, <1>7 DEF BytesExact
<1>9. QED BY <1>1, <1>2, <1>4, <1>8

(* A step of the reader leaves the sender's part of the invariant alone. *)
LEMMA ReaderLayout ==
  ASSUME IInv, UNCHANGED <<sent, flushed, closing, broken>>
  PROVE  /\ Layout' /\ sent' \in Seq(Messages) /\ flushed' \in 0 .. Len(sent')
         /\ closing' \in BOOLEAN /\ broken' \in BOOLEAN
<1>1. closing' \in BOOLEAN /\ broken' \in BOOLEAN BY DEF IInv, TypeOK
<1>2. Layout' BY DEF IInv, Layout, Offset
<1>3. sent' \in Seq(Messages) /\ flushed' \in 0 .. Len(sent') BY DEF IInv, TypeOK
<1>4. QED BY <1>1, <1>2, <1>3

(* Nothing is taken while the reader finds nothing, fails or panics. *)
LEMMA NothingTaken ==
  ASSUME IInv, UNCHANGED <<sent, taken, read>>
  PROVE  BytesExact' /\ taken' \in 0 .. flushed /\ read' \in Nat
BY DEF IInv, TypeOK, BytesExact, Offset

(* One step per arm of poll_read. *)
LEMMA ReadStep == ASSUME IInv, PollRead PROVE IInv'
<1>1. ASSUME read_pending PROVE IInv'
  <2>1. UNCHANGED <<sent, flushed, closing, broken, taken, read, status>> /\ status = "reading"
        /\ task' = "asleep" /\ taken = flushed /\ ~broken
    BY <1>1 DEF read_pending, sender, Polling
  <2>2. waker' /\ waker' \in BOOLEAN BY <1>1, Zenon DEF read_pending
  <2>3. Asleep' BY <2>1, <2>2 DEF Asleep
  <2>4. StopsForCause' /\ PanicInSocket' BY <2>1 DEF StopsForCause, PanicInSocket
  <2>5. TypeOK' BY <2>1, <2>2, ReaderLayout, NothingTaken DEF TypeOK
  <2>6. QED BY <2>1, <2>3, <2>4, <2>5, ReaderLayout, NothingTaken DEF IInv
<1>2. ASSUME read_err PROVE IInv'
  <2>1. UNCHANGED <<sent, flushed, closing, broken, taken, read, task, waker>>
        /\ status' = "failed" /\ taken = flushed /\ broken
    BY <1>2 DEF read_err, sender, Polling
  <2>2. StopsForCause' /\ PanicInSocket' /\ Asleep'
    BY <2>1 DEF StopsForCause, PanicInSocket, Asleep
  <2>3. waker' \in BOOLEAN /\ task' \in {"ready", "asleep"} BY <2>1 DEF IInv, TypeOK
  <2>4. TypeOK' BY <2>1, <2>3, ReaderLayout, NothingTaken DEF TypeOK
  <2>5. QED BY <2>1, <2>2, <2>4, ReaderLayout, NothingTaken DEF IInv
<1>3. ASSUME NEW room \in Rooms, read_panic(room) PROVE IInv'
  <2>1. UNCHANGED <<sent, flushed, closing, broken, taken, read, task, waker>>
        /\ status' = "panicked" /\ taken < flushed /\ sent[taken + 1].size > room
    BY <1>3 DEF read_panic, sender, Polling, Ready
  <2>2. StopsForCause' /\ PanicInSocket' /\ Asleep'
    BY <2>1 DEF StopsForCause, PanicInSocket, Asleep
  <2>3. waker' \in BOOLEAN /\ task' \in {"ready", "asleep"} BY <2>1 DEF IInv, TypeOK
  <2>4. TypeOK' BY <2>1, <2>3, ReaderLayout, NothingTaken DEF TypeOK
  <2>5. QED BY <2>1, <2>2, <2>4, ReaderLayout, NothingTaken DEF IInv
<1>4. ASSUME NEW room \in Rooms, read_data(room) PROVE IInv'
  <2> DEFINE n == sent[taken + 1].size
  <2>1. UNCHANGED <<sent, flushed, closing, broken, task, waker>>
        /\ Takes(n) /\ status = "reading" /\ task = "ready"
        /\ sent[taken + 1].kind \in Data
        /\ status' = IF n = 0 THEN "ended" ELSE status
    BY <1>4 DEF read_data, sender, Polling, Ready, Takes
  <2> HIDE DEF n
  <2>2. /\ BytesExact' /\ taken' \in 1 .. flushed /\ read' \in Nat
        /\ sent'[taken'] = sent[taken + 1] /\ n = sent[taken + 1].size
    BY <2>1, TakeExact DEF Takes
  <2>3. flushed \in Nat BY DEF IInv, TypeOK
  <2>4. StopsForCause'
    BY <2>1, <2>2, <2>3 DEF StopsForCause, BytesExact, Data, Control
  <2>5. PanicInSocket' /\ Asleep' BY <2>1 DEF PanicInSocket, Asleep
  <2>6. waker' \in BOOLEAN /\ task' \in {"ready", "asleep"} BY <2>1 DEF IInv, TypeOK
  <2>7. TypeOK' BY <2>1, <2>2, <2>3, <2>6, ReaderLayout DEF TypeOK
  <2>8. QED BY <2>1, <2>2, <2>4, <2>5, <2>7, ReaderLayout DEF IInv
<1>5. ASSUME read_close \/ read_control PROVE IInv'
  <2>1. UNCHANGED <<sent, flushed, closing, broken, read, waker>>
        /\ taken < flushed /\ taken' = taken + 1
        /\ sent[taken + 1].kind \in {"close"} \cup Control
    BY <1>5 DEF read_close, read_control, sender, Polling, Ready
  <2>2. taken + 1 \in 1 .. Len(sent) /\ read \in Nat /\ flushed \in Nat
    BY <2>1 DEF IInv, TypeOK
  <2>3. sent[taken + 1].size = 0 BY <2>1, <2>2 DEF IInv, Layout, Data, Control
  <2>4. Takes(0) BY <2>1, <2>2, <2>3 DEF Takes
  <2>5. /\ BytesExact' /\ taken' \in 1 .. flushed /\ read' \in Nat
        /\ sent'[taken'] = sent[taken + 1]
    BY <2>1, <2>4, TakeExact
  <2>6. /\ StopsForCause' /\ PanicInSocket' /\ Asleep'
        /\ task' \in {"ready", "asleep"} /\ status' \in {"reading", "ended"}
    <3>1. CASE read_close
      <4>1. status' = "ended" /\ task' = "ready" /\ sent[taken + 1].kind = "close"
        BY <3>1 DEF read_close, Polling, Ready
      <4>2. taken + 1 = Len(sent) BY <2>2, <4>1 DEF IInv, Layout
      <4>3. QED BY <2>1, <2>2, <2>3, <2>5, <4>1, <4>2
               DEF StopsForCause, PanicInSocket, Asleep, BytesExact, Control
    <3>2. CASE read_control
      <4>1. status' = "reading" /\ task' = "asleep" /\ sent[taken + 1].kind \in Control
        BY <3>2 DEF read_control, Polling, Ready
      <4>2. StopsForCause' /\ PanicInSocket' BY <4>1 DEF StopsForCause, PanicInSocket
      <4>3. taken' > 0 /\ sent'[taken'].kind \in Control BY <2>2, <2>5, <4>1
      <4>4. Asleep' BY <4>3, Zenon DEF Asleep
      <4>5. QED BY <4>1, <4>2, <4>4
    <3>3. QED BY <1>5, <3>1, <3>2
  <2>7. waker' \in BOOLEAN BY <2>1 DEF IInv, TypeOK
  <2>8. TypeOK' BY <2>1, <2>2, <2>5, <2>6, <2>7, ReaderLayout DEF TypeOK
  <2>9. QED BY <2>1, <2>5, <2>6, <2>8, ReaderLayout DEF IInv
<1>6. QED BY <1>1, <1>2, <1>3, <1>4, <1>5 DEF PollRead

(* Every step keeps the invariant. *)
LEMMA NextIInv == ASSUME IInv, [Next]_vars PROVE IInv'
<1>1. ASSUME NEW n \in Sizes, poll_write(n) PROVE IInv'
  <2>1. Appends("binary", n) /\ ~closing
        /\ UNCHANGED <<flushed, closing, broken, taken, read, status, task, waker>>
    BY <1>1 DEF poll_write, Appends
  <2>2. n \in Nat /\ "binary" \in Kinds \ {"close"} /\ "binary" \in Data BY DEF Kinds, Data
  <2>3. QED BY <2>1, <2>2, WriteStep
<1>2. ASSUME NEW kind \in Control \cup {"text"}, NEW n \in Sizes \cup {0}, peer_send(kind, n)
      PROVE  IInv'
  <2>1. Appends(kind, n) /\ ~closing /\ (kind \in Control => n = 0)
        /\ UNCHANGED <<flushed, closing, broken, taken, read, status, task, waker>>
    BY <1>2 DEF peer_send, Appends
  <2>2. n \in Nat /\ kind \in Kinds \ {"close"} /\ (kind \notin Data => kind \in Control)
    BY DEF Kinds, Data, Control
  <2>3. QED BY <2>1, <2>2, WriteStep
<1>3. ASSUME other_wake PROVE IInv'
  <2>1. UNCHANGED <<sent, flushed, closing, broken, taken, read, status, waker>> /\ task' = "ready"
    BY <1>3 DEF other_wake, sender
  <2>2. StopsForCause' /\ PanicInSocket'
    BY <2>1 DEF IInv, StopsForCause, PanicInSocket, Offset
  <2>3. Asleep' BY <2>1 DEF Asleep
  <2>4. waker' \in BOOLEAN /\ status' \in {"reading", "ended", "failed", "panicked"}
    BY <2>1 DEF IInv, TypeOK
  <2>5. TypeOK' BY <2>1, <2>4, ReaderLayout, NothingTaken DEF TypeOK
  <2>6. QED BY <2>1, <2>2, <2>3, <2>5, ReaderLayout, NothingTaken DEF IInv
<1>4. CASE UNCHANGED vars
  <2>1. UNCHANGED <<sent, flushed, closing, broken, taken, read, status, task, waker>>
    BY <1>4 DEF vars
  <2>2. TypeOK' BY <2>1 DEF IInv, TypeOK
  <2>3. Layout' /\ BytesExact' /\ StopsForCause' /\ PanicInSocket' /\ Asleep'
    BY <2>1 DEF IInv, Layout, BytesExact, StopsForCause, PanicInSocket, Asleep, Offset
  <2>4. QED BY <2>2, <2>3 DEF IInv
<1>5. QED BY <1>1, <1>2, <1>3, <1>4, SenderStep, ReadStep DEF Next

(* The invariant holds in every reachable state. *)
LEMMA Inductive == Spec => []IInv
BY InitIInv, NextIInv, PTL DEF Spec

(* Types are kept, and nothing is read before it is flushed, for any messages
   and buffers. *)
THEOREM TypeCorrect == Spec => []TypeOK
<1>1. IInv => TypeOK BY DEF IInv
<1>2. QED BY <1>1, Inductive, PTL

(* poll_read copies exactly the bytes written. *)
THEOREM ReadBytesAreExact == Spec => []BytesExact
<1>1. IInv => BytesExact BY DEF IInv
<1>2. QED BY <1>1, Inductive, PTL

(* The reader stops only for a close, an empty message, a failure or a message
   that is longer than its buffer. *)
THEOREM StopsHaveACause == Spec => []StopsForCause
<1>1. IInv => StopsForCause BY DEF IInv
<1>2. QED BY <1>1, Inductive, PTL

(* A task sleeps in front of something to read only behind a ping or a pong. *)
THEOREM OnlyControlLosesWakeups == Spec => []NoLostWakeup
<1>1. IInv => NoLostWakeup
  <2> SUFFICES ASSUME IInv, task = "asleep", taken < flushed \/ broken, status = "reading"
               PROVE  taken > 0 /\ sent[taken].kind \in Control
    BY DEF NoLostWakeup
  <2>1. taken \in Nat /\ flushed \in Nat BY DEF IInv, TypeOK
  <2>2. ~(taken = flushed /\ ~broken) BY <2>1
  <2>3. QED BY <2>2, Zenon DEF IInv, Asleep
<1>2. QED BY <1>1, Inductive, PTL
=============================================================================
