------------------------- MODULE SharedStreamProofs -------------------------
(***************************************************************************)
(* Proofs of the invariants of SharedStream for every window of the transport *)
(* and every number of calls: whatever is cancelled, disconnected or split, *)
(* messages arrive in the order of their encoding and once; ConnectionClosed, *)
(* unless an error was reported before it, comes behind all that was        *)
(* acknowledged; and each direction implements MessageChannel.              *)
(***************************************************************************)
EXTENDS SharedStream, TLAPS, WellFoundedInduction

(* The types of the calls in progress, and the lock: its holder is in a call
   of its end past the queue, and nobody else is. *)
CallTypes ==
  /\ alive \subseteq Handles
  /\ op \in [Handles -> {"idle", "send", "receive"}]
  /\ at \in [Handles -> {"idle", "queued", "locked", "fed"}]
  /\ msg \in [Handles -> Nat]
  /\ holder \in [Ends -> Handles \cup {None}]
  /\ queue \in [Ends -> Seq(Handles)]
  /\ \A e \in Ends : holder[e] # None =>
       holder[e][1] = e /\ at[holder[e]] \in {"locked", "fed"}
  /\ \A h \in Handles : at[h] \in {"locked", "fed"} => holder[h[1]] = h

(* The types of what the two ends have sent and received. *)
IoTypes ==
  /\ sends \in [Ends -> Nat]
  /\ buffer \in [Ends -> Seq(Nat)] /\ pipe \in [Ends -> Seq(Nat)]
  /\ fed \in [Ends -> Seq(Nat)] /\ got \in [Ends -> Seq(Nat)]
  /\ acked \in [Ends -> SUBSET Nat] /\ closed \in [Ends -> BOOLEAN]
  /\ failed \in [Ends -> BOOLEAN] /\ has_errored \in [Ends -> BOOLEAN]
  /\ \A e \in Ends : has_errored[e] => failed[e]

(* A call is made through a reference; a message that was fed is in the
   history of its end. *)
CallsOK ==
  \A h \in Handles :
    /\ op[h] = "idle" => at[h] = "idle"
    /\ op[h] # "idle" => h \in alive
    /\ at[h] = "fed" => \E i \in 1 .. Len(fed[h[1]]) : fed[h[1]][i] = msg[h]

(* g and p, one after the other, are a prefix of f; with b they are all of f. *)
Delivered(g, p, f) ==
  /\ Len(g) + Len(p) <= Len(f)
  /\ \A i \in 1 .. Len(g) : g[i] = f[i]
  /\ \A i \in 1 .. Len(p) : p[i] = f[Len(g) + i]
Complete(g, p, b, f) ==
  /\ Len(g) + Len(p) + Len(b) = Len(f)
  /\ \A i \in 1 .. Len(b) : b[i] = f[Len(g) + Len(p) + i]

(* What end e has received and what it can still receive are the first messages
   that the other end encoded; while both ends exist and receiving has met no
   error, the write buffer of the other has the rest. *)
Flow(e) ==
  /\ Delivered(got[e], Unread(e), fed[Other(e)])
  /\ ~Gone(e) /\ ~Gone(Other(e)) /\ ~failed[e] =>
       Complete(got[e], pipe[e], buffer[Other(e)], fed[Other(e)])

FlowOK == \A e \in Ends : Flow(e)

(* A message whose send returned Ok has left the buffer for an end that exists;
   and who has seen the end of the stream, no error before it, has received
   them all. *)
HasLeft(A, g, p, f) ==
  \A m \in A : \E i \in 1 .. (Len(g) + Len(p)) : f[i] = m

Acked(e) ==
  /\ ~Gone(e) /\ ~failed[e] =>
       HasLeft(acked[Other(e)], got[e], pipe[e], fed[Other(e)])
  /\ closed[e] /\ ~failed[e] =>
       Gone(Other(e)) /\ acked[Other(e)] \subseteq ToSet(got[e])

AckedOK == \A e \in Ends : Acked(e)

IInv == CallTypes /\ IoTypes /\ CallsOK /\ FlowOK /\ AckedOK

----------------------------------------------------------------------------
(* The two ends are each other's other end; a handle is at one of them. *)
LEMMA EndFacts ==
  /\ \A e \in Ends : Other(e) \in Ends /\ Other(e) # e /\ Other(Other(e)) = e
  /\ \A e, f \in Ends : f = e \/ f = Other(e)
  /\ \A h \in Handles : h[1] \in Ends /\ h # None
  BY DEF Ends, Other, Handles, Roles, None

(* A set of naturals that is not empty has a least element. *)
LEMMA LeastElement ==
  ASSUME NEW I \in SUBSET Nat, I # {}
  PROVE  \E n \in I : \A m \in I : n <= m
<1> DEFINE R == {p \in Nat \X Nat : p[1] < p[2]}
<1>1. IsWellFoundedOn(R, Nat)
  <2>1. OpToRel(<, Nat) = R
    BY DEF OpToRel
  <2> QED BY <2>1, NatLessThanWellFounded, Zenon
<1>2. \A n, m \in Nat : n < m => <<n, m>> \in R
  OBVIOUS
<1> HIDE DEF R
<1>3. PICK n \in I : \A m \in I : ~(<<m, n>> \in R)
  BY <1>1, WFMin
<1>4. \A m \in I : n \in Nat /\ m \in Nat /\ ~(m < n)
  BY <1>2, <1>3, Zenon
<1>5. \A m \in I : n <= m
  BY <1>4
<1> QED BY <1>5

(* RemoveFirst leaves a sequence of the same elements. *)
LEMMA RemoveFirstType ==
  ASSUME NEW S, NEW s \in Seq(S), NEW x
  PROVE  RemoveFirst(s, x) \in Seq(S)
<1> DEFINE I == {i \in 1 .. Len(s) : s[i] = x}
           k == Min(I)
<1>1. CASE I = {}
  BY <1>1 DEF RemoveFirst
<1>2. CASE I # {}
  <2>1. PICK n \in I : \A m \in I : n <= m
    <3>1. I \in SUBSET Nat /\ I # {}
      BY <1>2
    <3> HIDE DEF I
    <3> QED BY <3>1, LeastElement
  <2>2. k \in 1 .. Len(s)
    BY <2>1 DEF Min
  <2>3. SelectInSeq(s, LAMBDA v : v = x) = k
    BY <1>2 DEF SelectInSeq
  <2>4. RemoveFirst(s, x) = SubSeq(s, 1, k - 1) \o SubSeq(s, k + 1, Len(s))
    BY <1>2, <2>3 DEF RemoveFirst, RemoveAt
  <2> HIDE DEF k
  <2> QED BY <2>2, <2>4
<1> QED BY <1>1, <1>2

(* The initial states satisfy the invariant. *)
LEMMA InitIInv == Init => IInv
<1> SUFFICES ASSUME Init PROVE IInv
  OBVIOUS
<1> USE DEF Init
<1>1. CallTypes
  BY EndFacts DEF CallTypes, Handles, Roles
<1>2. IoTypes
  <2>1. /\ closed \in [Ends -> BOOLEAN] /\ failed \in [Ends -> BOOLEAN]
        /\ has_errored \in [Ends -> BOOLEAN] /\ \A e \in Ends : ~has_errored[e]
    BY Zenon
  <2> QED BY <2>1 DEF IoTypes
<1>3. CallsOK
  BY DEF CallsOK
<1>4. FlowOK
  BY EndFacts DEF FlowOK, Flow, Delivered, Complete, Unread
<1>5. AckedOK
  <2>1. \A e \in Ends : ~closed[e] /\ acked[Other(e)] = {}
    BY EndFacts, Zenon
  <2> QED BY <2>1 DEF AckedOK, Acked, HasLeft
<1> QED BY <1>1, <1>2, <1>3, <1>4, <1>5 DEF IInv

----------------------------------------------------------------------------
(* What the invariant says of one handle. *)
LEMMA HandleFacts ==
  ASSUME IInv, NEW h \in Handles
  PROVE  /\ h[1] \in Ends /\ Other(h[1]) \in Ends /\ Other(h[1]) # h[1]
         /\ Other(Other(h[1])) = h[1] /\ h # None
         /\ op[h] # "idle" => h \in alive /\ ~Gone(h[1])
  BY EndFacts DEF IInv, CallsOK, Gone

(* The sequences stay as they are: what reached either end does, too. *)
LEMMA FlowFrame ==
  ASSUME IInv, UNCHANGED <<alive, io, errors>>
  PROVE  FlowOK'
  BY DEF IInv, FlowOK, Flow, Gone, Unread, io, errors

(* ... and what was acknowledged or closed. *)
LEMMA AckedFrame ==
  ASSUME IInv, UNCHANGED <<alive, io, acked, closed, errors>>
  PROVE  AckedOK'
  BY DEF IInv, AckedOK, Acked, Gone, io, errors

(* A call joins the queue of its end's lock. *)
LEMMA CallStep ==
  ASSUME IInv, NEW h \in Handles, NEW o \in {"send", "receive"}, NEW n \in Nat,
         Call(h, o), msg' = msg \/ msg' = [msg EXCEPT ![h] = n],
         UNCHANGED <<alive, io>>
  PROVE  CallTypes' /\ CallsOK'
<1>1. /\ op' = [op EXCEPT ![h] = o] /\ at' = [at EXCEPT ![h] = "queued"]
      /\ holder' = holder /\ alive' = alive /\ fed' = fed
      /\ queue' = [queue EXCEPT ![h[1]] = Append(@, h)]
      /\ op[h] = "idle" /\ h \in alive
  BY DEF Call, io
<1>2. at[h] = "idle" /\ h[1] \in Ends
  BY <1>1, HandleFacts DEF IInv, CallsOK
<1>3. msg' \in [Handles -> Nat] /\ \A g \in Handles : g # h => msg'[g] = msg[g]
  BY DEF IInv, CallTypes
<1>4. \A g \in Handles : /\ at'[g] = IF g = h THEN "queued" ELSE at[g]
                         /\ op'[g] = IF g = h THEN o ELSE op[g]
  BY <1>1 DEF IInv, CallTypes
<1>5. queue' \in [Ends -> Seq(Handles)]
  BY <1>1, <1>2 DEF IInv, CallTypes
<1>6. CallTypes'
  <2>1. ASSUME NEW e \in Ends, holder[e] # None
        PROVE  holder[e][1] = e /\ at'[holder[e]] \in {"locked", "fed"}
    <3>1. holder[e] \in Handles /\ at[holder[e]] \in {"locked", "fed"}
      BY <2>1 DEF IInv, CallTypes
    <3> QED BY <2>1, <3>1, <1>2, <1>4 DEF IInv, CallTypes
  <2>2. \A g \in Handles : at'[g] \in {"locked", "fed"} => holder[g[1]] = g
    BY <1>4 DEF IInv, CallTypes
  <2>3. /\ op' \in [Handles -> {"idle", "send", "receive"}]
        /\ at' \in [Handles -> {"idle", "queued", "locked", "fed"}]
        /\ alive' \subseteq Handles /\ holder' \in [Ends -> Handles \cup {None}]
    BY <1>1 DEF IInv, CallTypes
  <2> QED BY <2>1, <2>2, <2>3, <1>1, <1>3, <1>5 DEF CallTypes
<1>7. CallsOK'
  BY <1>1, <1>2, <1>3, <1>4 DEF IInv, CallsOK
<1> QED BY <1>6, <1>7

(* A call ends, and the lock with it if the call had it. *)
LEMMA FinishStep ==
  ASSUME IInv, NEW h \in Handles, Finish(h), UNCHANGED <<alive, fed>>
  PROVE  CallTypes' /\ CallsOK'
<1>1. /\ op' = [op EXCEPT ![h] = "idle"] /\ at' = [at EXCEPT ![h] = "idle"]
      /\ msg' = [msg EXCEPT ![h] = 0]
      /\ holder' = [holder EXCEPT ![h[1]] = IF @ = h THEN None ELSE @]
      /\ queue' = [queue EXCEPT ![h[1]] = RemoveFirst(@, h)]
  BY DEF Finish
<1>2. h[1] \in Ends
  BY HandleFacts
<1>3. queue' \in [Ends -> Seq(Handles)]
  <2>1. RemoveFirst(queue[h[1]], h) \in Seq(Handles)
    BY <1>2, RemoveFirstType DEF IInv, CallTypes
  <2> QED BY <1>1, <2>1 DEF IInv, CallTypes
<1>4. \A g \in Handles : /\ at'[g] = IF g = h THEN "idle" ELSE at[g]
                         /\ op'[g] = IF g = h THEN "idle" ELSE op[g]
                         /\ g # h => msg'[g] = msg[g]
  BY <1>1 DEF IInv, CallTypes
<1>5. /\ holder' \in [Ends -> Handles \cup {None}]
      /\ \A e \in Ends : holder'[e] = IF e = h[1] /\ holder[e] = h THEN None ELSE holder[e]
  BY <1>1, <1>2 DEF IInv, CallTypes
<1>6. /\ op' \in [Handles -> {"idle", "send", "receive"}]
      /\ at' \in [Handles -> {"idle", "queued", "locked", "fed"}]
      /\ msg' \in [Handles -> Nat] /\ alive' \subseteq Handles
  BY <1>1 DEF IInv, CallTypes
<1>7. CallTypes'
  <2>1. ASSUME NEW e \in Ends, holder'[e] # None
        PROVE  holder'[e][1] = e /\ at'[holder'[e]] \in {"locked", "fed"}
    <3>1. holder'[e] = holder[e] /\ holder[e] \in Handles /\ holder[e][1] = e
      BY <2>1, <1>5 DEF IInv, CallTypes
    <3>2. holder[e] # h
      BY <2>1, <3>1, <1>5
    <3> QED BY <3>1, <3>2, <1>4, <2>1 DEF IInv, CallTypes
  <2>2. ASSUME NEW g \in Handles, at'[g] \in {"locked", "fed"}
        PROVE  holder'[g[1]] = g
    <3>1. g # h /\ at[g] \in {"locked", "fed"}
      BY <2>2, <1>4
    <3> QED BY <3>1, <1>5, EndFacts DEF IInv, CallTypes
  <2> QED BY <2>1, <2>2, <1>3, <1>5, <1>6 DEF CallTypes
<1>8. CallsOK'
  BY <1>4 DEF IInv, CallsOK
<1> QED BY <1>7, <1>8

(* A call is at another step: the lock and the calls stay consistent if the step
   is one past the queue just when the call has the lock. *)
LEMMA AtStep ==
  ASSUME IInv, NEW h \in Handles, NEW a \in {"locked", "fed"},
         op[h] # "idle", at' = [at EXCEPT ![h] = a],
         holder' = [holder EXCEPT ![h[1]] = h],
         holder[h[1]] \in {None, h},
         queue' \in [Ends -> Seq(Handles)],
         UNCHANGED <<alive, op, msg>>,
         \A e \in Ends : \A i \in 1 .. Len(fed[e]) :
           i \in 1 .. Len(fed'[e]) /\ fed'[e][i] = fed[e][i],
         a = "fed" => \E i \in 1 .. Len(fed'[h[1]]) : fed'[h[1]][i] = msg[h]
  PROVE  CallTypes' /\ CallsOK'
<1>1. h[1] \in Ends /\ h # None
  BY HandleFacts
<1>2. \A g \in Handles : at'[g] = IF g = h THEN a ELSE at[g]
  BY DEF IInv, CallTypes
<1>3. \A e \in Ends : holder'[e] = IF e = h[1] THEN h ELSE holder[e]
  BY <1>1 DEF IInv, CallTypes
<1>4. CallTypes'
  <2>1. ASSUME NEW e \in Ends, holder'[e] # None
        PROVE  holder'[e][1] = e /\ at'[holder'[e]] \in {"locked", "fed"}
    <3>1. CASE e = h[1]
      BY <3>1, <1>2, <1>3
    <3>2. CASE e # h[1]
      <4>1. holder'[e] = holder[e] /\ holder[e] \in Handles /\ holder[e][1] = e
        BY <2>1, <3>2, <1>3 DEF IInv, CallTypes
      <4> QED BY <2>1, <3>2, <4>1, <1>2 DEF IInv, CallTypes
    <3> QED BY <3>1, <3>2
  <2>2. ASSUME NEW g \in Handles, at'[g] \in {"locked", "fed"}
        PROVE  holder'[g[1]] = g
    <3>1. CASE g = h
      BY <3>1, <1>1, <1>3
    <3>2. CASE g # h
      <4>1. holder[g[1]] = g /\ g # None /\ g[1] \in Ends
        BY <2>2, <3>2, <1>2, EndFacts DEF IInv, CallTypes
      <4> QED BY <3>2, <4>1, <1>3
    <3> QED BY <3>1, <3>2
  <2>3. /\ at' \in [Handles -> {"idle", "queued", "locked", "fed"}]
        /\ holder' \in [Ends -> Handles \cup {None}]
    BY DEF IInv, CallTypes
  <2> QED BY <2>1, <2>2, <2>3 DEF IInv, CallTypes
<1>5. CallsOK'
  <2>1. ASSUME NEW g \in Handles, at'[g] = "fed"
        PROVE  \E i \in 1 .. Len(fed'[g[1]]) : fed'[g[1]][i] = msg[g]
    <3>1. CASE g = h
      BY <2>1, <3>1, <1>2
    <3>2. CASE g # h
      <4>1. PICK i \in 1 .. Len(fed[g[1]]) : fed[g[1]][i] = msg[g]
        BY <2>1, <3>2, <1>2 DEF IInv, CallsOK
      <4> QED BY <4>1, EndFacts
    <3> QED BY <3>1, <3>2
  <2> QED BY <2>1, <1>2 DEF IInv, CallsOK
<1> QED BY <1>4, <1>5

(* acquire: the first in the queue has the lock, which was free. *)
LEMMA AcquireStep ==
  ASSUME IInv, NEW h \in Handles, op[h] # "idle", acquire(h)
  PROVE  IInv'
<1>1. /\ queue[h[1]] # <<>> /\ holder[h[1]] = None
      /\ holder' = [holder EXCEPT ![h[1]] = h]
      /\ queue' = [queue EXCEPT ![h[1]] = Tail(@)]
      /\ at' = [at EXCEPT ![h] = "locked"]
      /\ UNCHANGED <<alive, op, msg, sends, io, acked, closed, errors>>
  BY DEF acquire
<1>2. queue' \in [Ends -> Seq(Handles)]
  BY <1>1, HandleFacts DEF IInv, CallTypes
<1>3. fed' = fed
  BY <1>1 DEF io
<1>4. CallTypes' /\ CallsOK'
  BY <1>1, <1>2, <1>3, AtStep
<1>5. IoTypes'
  BY <1>1 DEF IInv, IoTypes, io, errors
<1> QED BY <1>1, <1>4, <1>5, FlowFrame, AckedFrame DEF IInv

(* A call begins. *)
LEMMA BeginStep ==
  ASSUME IInv, NEW h \in Handles, send_message(h) \/ receive_message(h)
  PROVE  IInv'
<1>1. UNCHANGED <<alive, io, acked, closed, errors>>
  BY DEF send_message, receive_message
<1>2. CASE send_message(h)
  <2>1. /\ Call(h, "send") /\ sends' = [sends EXCEPT ![h[1]] = @ + 1]
        /\ msg' = [msg EXCEPT ![h] = sends'[h[1]]]
    BY <1>2 DEF send_message
  <2>2. sends' \in [Ends -> Nat] /\ sends'[h[1]] \in Nat
    BY <2>1, HandleFacts DEF IInv, IoTypes
  <2>3. CallTypes' /\ CallsOK'
    BY <1>1, <2>1, <2>2, CallStep
  <2>4. IoTypes'
    BY <1>1, <2>2 DEF IInv, IoTypes, io, errors
  <2> QED BY <1>1, <2>3, <2>4, FlowFrame, AckedFrame DEF IInv
<1>3. CASE receive_message(h)
  <2>1. Call(h, "receive") /\ msg' = msg /\ sends' = sends
    BY <1>3 DEF receive_message
  <2>2. CallTypes' /\ CallsOK'
    BY <1>1, <2>1, CallStep
  <2>3. IoTypes'
    BY <1>1, <2>1 DEF IInv, IoTypes, io, errors
  <2> QED BY <1>1, <2>2, <2>3, FlowFrame, AckedFrame DEF IInv
<1> QED BY <1>2, <1>3

(* A call is dropped, or its write fails: what was fed stays in the buffer. *)
LEMMA CancelStep ==
  ASSUME IInv, NEW h \in Handles, cancel(h) \/ send_err(h)
  PROVE  IInv'
<1>1. Finish(h) /\ UNCHANGED <<alive, sends, io, acked, closed, errors>>
  BY DEF cancel, send_err
<1>2. CallTypes' /\ CallsOK'
  BY <1>1, FinishStep DEF io
<1>3. IoTypes'
  BY <1>1 DEF IInv, IoTypes, io, errors
<1> QED BY <1>1, <1>2, <1>3, FlowFrame, AckedFrame DEF IInv

----------------------------------------------------------------------------
(* Appending to a sequence. *)
LEMMA AppendFacts ==
  ASSUME NEW s \in Seq(Nat), NEW m \in Nat
  PROVE  /\ Append(s, m) \in Seq(Nat) /\ Len(s) \in Nat
         /\ Len(Append(s, m)) = Len(s) + 1 /\ Append(s, m)[Len(s) + 1] = m
         /\ \A i \in 1 .. Len(s) : Append(s, m)[i] = s[i]
  OBVIOUS

(* Taking the first element from a sequence. *)
LEMMA TailFacts ==
  ASSUME NEW s \in Seq(Nat), s # <<>>
  PROVE  /\ Tail(s) \in Seq(Nat) /\ Len(Tail(s)) \in Nat
         /\ Len(s) = Len(Tail(s)) + 1
         /\ Head(s) \in Nat /\ Head(s) = s[1]
         /\ \A i \in 1 .. Len(Tail(s)) : Tail(s)[i] = s[i + 1]
  OBVIOUS

(* A shorter range of positions is part of a longer one. *)
LEMMA RangeMono ==
  ASSUME NEW j \in Nat, NEW k \in Nat, j <= k
  PROVE  \A i \in 1 .. j : i \in 1 .. k
  OBVIOUS

(* A message is encoded: it is last in the history and in the buffer. *)
LEMMA FeedSeq ==
  ASSUME NEW g \in Seq(Nat), NEW p \in Seq(Nat), NEW b \in Seq(Nat),
         NEW f \in Seq(Nat), NEW m \in Nat, Delivered(g, p, f)
  PROVE  /\ Delivered(g, p, Append(f, m))
         /\ Complete(g, p, b, f) => Complete(g, p, Append(b, m), Append(f, m))
<1> DEFINE f2 == Append(f, m)
           b2 == Append(b, m)
<1>1. PICK G \in Nat, P \in Nat, B \in Nat, F \in Nat :
        G = Len(g) /\ P = Len(p) /\ B = Len(b) /\ F = Len(f)
  OBVIOUS
<1>2. Len(f2) = F + 1 /\ f2[F + 1] = m /\ \A i \in 1 .. F : f2[i] = f[i]
  BY <1>1, AppendFacts
<1>3. Len(b2) = B + 1 /\ b2[B + 1] = m /\ \A i \in 1 .. B : b2[i] = b[i]
  BY <1>1, AppendFacts
<1> HIDE DEF f2, b2
<1>4. Delivered(g, p, f2)
  <2>1. /\ G + P <= F /\ \A i \in 1 .. G : g[i] = f[i]
        /\ \A i \in 1 .. P : p[i] = f[G + i]
    BY <1>1 DEF Delivered
  <2>2. /\ G + P <= F + 1 /\ \A i \in 1 .. G : i \in 1 .. F
        /\ \A i \in 1 .. P : G + i \in 1 .. F
    BY <2>1
  <2>3. /\ \A i \in 1 .. G : g[i] = f2[i]
        /\ \A i \in 1 .. P : p[i] = f2[G + i]
    BY <1>2, <2>1, <2>2, Zenon
  <2> QED BY <1>1, <1>2, <2>2, <2>3 DEF Delivered
<1>5. ASSUME Complete(g, p, b, f) PROVE Complete(g, p, b2, f2)
  <2>1. G + P + B = F /\ \A i \in 1 .. B : b[i] = f[G + P + i]
    BY <1>1, <1>5 DEF Complete
  <2>2. /\ G + P + (B + 1) = F + 1
        /\ \A i \in 1 .. B : G + P + i \in 1 .. F
        /\ \A i \in 1 .. (B + 1) : i \in 1 .. B \/ i = B + 1
    BY <2>1
  <2>3. \A i \in 1 .. (B + 1) : b2[i] = f2[G + P + i]
    BY <1>2, <1>3, <2>1, <2>2, Zenon
  <2> QED BY <1>1, <1>2, <1>3, <2>2, <2>3 DEF Complete
<1> QED BY <1>4, <1>5 DEF f2, b2

(* The first message of the buffer is written. *)
LEMMA WriteSeq ==
  ASSUME NEW g \in Seq(Nat), NEW p \in Seq(Nat), NEW b \in Seq(Nat),
         NEW f \in Seq(Nat), b # <<>>, Delivered(g, p, f), Complete(g, p, b, f)
  PROVE  /\ Delivered(g, Append(p, Head(b)), f)
         /\ Complete(g, Append(p, Head(b)), Tail(b), f)
<1> DEFINE x == Head(b)
           p2 == Append(p, x)
           b2 == Tail(b)
<1>1. /\ Len(b2) \in Nat /\ Len(b) = Len(b2) + 1 /\ x \in Nat /\ x = b[1]
      /\ \A i \in 1 .. Len(b2) : b2[i] = b[i + 1]
  BY TailFacts
<1>2. /\ Len(p) \in Nat /\ Len(p2) = Len(p) + 1 /\ p2[Len(p) + 1] = x
      /\ \A i \in 1 .. Len(p) : p2[i] = p[i]
  BY <1>1, AppendFacts
<1>3. Len(g) \in Nat /\ Len(f) \in Nat
  OBVIOUS
<1> HIDE DEF x, p2, b2
<1>4. /\ Len(g) + Len(p) + Len(b) = Len(f)
      /\ \A i \in 1 .. Len(b) : b[i] = f[Len(g) + Len(p) + i]
  BY DEF Complete
<1>5. Delivered(g, p2, f)
  <2>1. \A i \in 1 .. Len(p) : p2[i] = f[Len(g) + i]
    BY <1>2 DEF Delivered
  <2>2. p2[Len(p) + 1] = f[Len(g) + (Len(p) + 1)]
    <3>1. 1 \in 1 .. Len(b) /\ Len(g) + Len(p) + 1 = Len(g) + (Len(p) + 1)
      BY <1>1, <1>2, <1>3
    <3> QED BY <1>1, <1>2, <1>4, <3>1
  <2>3. \A i \in 1 .. Len(p2) : i \in 1 .. Len(p) \/ i = Len(p) + 1
    BY <1>2
  <2>4. Len(g) + Len(p2) <= Len(f)
    BY <1>1, <1>2, <1>3, <1>4
  <2> QED BY <2>1, <2>2, <2>3, <2>4 DEF Delivered
<1>6. Complete(g, p2, b2, f)
  <2>1. ASSUME NEW i \in 1 .. Len(b2) PROVE b2[i] = f[Len(g) + Len(p2) + i]
    <3>1. i + 1 \in 1 .. Len(b) /\ Len(g) + Len(p) + (i + 1) = Len(g) + Len(p2) + i
      BY <1>1, <1>2, <1>3
    <3> QED BY <1>1, <1>4, <3>1
  <2>2. Len(g) + Len(p2) + Len(b2) = Len(f)
    BY <1>1, <1>2, <1>3, <1>4
  <2> QED BY <2>1, <2>2 DEF Complete
<1> QED BY <1>5, <1>6 DEF p2, b2, x

(* The first message on the way is read. *)
LEMMA ReadSeq ==
  ASSUME NEW g \in Seq(Nat), NEW p \in Seq(Nat), NEW b \in Seq(Nat),
         NEW f \in Seq(Nat), p # <<>>, Delivered(g, p, f)
  PROVE  /\ Delivered(Append(g, Head(p)), Tail(p), f)
         /\ Complete(g, p, b, f) => Complete(Append(g, Head(p)), Tail(p), b, f)
         /\ Len(Append(g, Head(p))) + Len(Tail(p)) = Len(g) + Len(p)
         /\ ToSet(g) \subseteq ToSet(Append(g, Head(p)))
<1> DEFINE x == Head(p)
           g2 == Append(g, x)
           p2 == Tail(p)
<1>1. /\ Len(p2) \in Nat /\ Len(p) = Len(p2) + 1 /\ x \in Nat /\ x = p[1]
      /\ \A i \in 1 .. Len(p2) : p2[i] = p[i + 1]
  BY TailFacts
<1>2. /\ Len(g) \in Nat /\ Len(g2) = Len(g) + 1 /\ g2[Len(g) + 1] = x
      /\ \A i \in 1 .. Len(g) : g2[i] = g[i]
      /\ g2 \in Seq(Nat)
  BY <1>1, AppendFacts
<1>3. Len(f) \in Nat /\ Len(b) \in Nat
  OBVIOUS
<1> HIDE DEF x, g2, p2
<1>4. /\ Len(g) + Len(p) <= Len(f)
      /\ \A i \in 1 .. Len(g) : g[i] = f[i]
      /\ \A i \in 1 .. Len(p) : p[i] = f[Len(g) + i]
  BY DEF Delivered
<1>5. Len(g2) + Len(p2) = Len(g) + Len(p)
  BY <1>1, <1>2
<1>6. Delivered(g2, p2, f)
  <2>1. \A i \in 1 .. Len(g) : g2[i] = f[i]
    BY <1>2, <1>4
  <2>2. g2[Len(g) + 1] = f[Len(g) + 1]
    <3>1. 1 \in 1 .. Len(p)
      BY <1>1
    <3> QED BY <1>1, <1>2, <1>4, <3>1
  <2>3. \A i \in 1 .. Len(g2) : i \in 1 .. Len(g) \/ i = Len(g) + 1
    BY <1>2
  <2>4. ASSUME NEW i \in 1 .. Len(p2) PROVE p2[i] = f[Len(g2) + i]
    <3>1. i + 1 \in 1 .. Len(p) /\ Len(g) + (i + 1) = Len(g2) + i
      BY <1>1, <1>2
    <3> QED BY <1>1, <1>4, <3>1
  <2> QED BY <1>4, <1>5, <2>1, <2>2, <2>3, <2>4 DEF Delivered
<1>7. Complete(g, p, b, f) => Complete(g2, p2, b, f)
  BY <1>5 DEF Complete
<1>8. ToSet(g) \subseteq ToSet(g2)
  <2>1. DOMAIN g = 1 .. Len(g) /\ DOMAIN g2 = 1 .. Len(g2)
    BY <1>2
  <2>2. 1 .. Len(g) \subseteq 1 .. Len(g2)
    BY <1>2
  <2>3. \A i \in DOMAIN g : i \in DOMAIN g2 /\ g2[i] = g[i]
    BY <1>2, <2>1, <2>2, Zenon
  <2> QED BY <2>3, Zenon DEF ToSet
<1> QED BY <1>5, <1>6, <1>7, <1>8 DEF g2, p2, x

(* The reader goes away, and with it what was on the way. *)
LEMMA DropSeq ==
  ASSUME NEW g \in Seq(Nat), NEW p \in Seq(Nat), NEW f \in Seq(Nat),
         Delivered(g, p, f)
  PROVE  Delivered(g, <<>>, f)
  BY DEF Delivered

(* got \o pipe is a prefix of the history. *)
LEMMA PrefixSeq ==
  ASSUME NEW g \in Seq(Nat), NEW p \in Seq(Nat), NEW f \in Seq(Nat),
         Delivered(g, p, f)
  PROVE  IsPrefix(g \o p, f)
<1> DEFINE q == g \o p
<1>1. q \in Seq(Nat) /\ Len(q) = Len(g) + Len(p) /\ Len(q) <= Len(f)
  BY DEF Delivered
<1>2. \A i \in 1 .. Len(q) : q[i] = f[i]
  <2> SUFFICES ASSUME NEW i \in 1 .. Len(q) PROVE q[i] = f[i]
    OBVIOUS
  <2>1. CASE i <= Len(g)
    BY <1>1, <2>1 DEF Delivered
  <2>2. CASE i > Len(g)
    BY <1>1, <2>2 DEF Delivered
  <2> QED BY <2>1, <2>2
<1> HIDE DEF q
<1>3. SubSeq(q, 1, Len(q)) = SubSeq(f, 1, Len(q))
  <2> DEFINE n == Len(q)
  <2>1. n \in Nat /\ n <= Len(f) /\ Len(f) \in Nat
    BY <1>1
  <2> HIDE DEF n
  <2>2. \A i \in 1 .. n : q[i] = f[i]
    BY <1>2 DEF n
  <2>3. SubSeq(q, 1, n) = SubSeq(f, 1, n)
    BY <2>1, <2>2
  <2> QED BY <2>3 DEF n
<1> QED BY <1>1, <1>3 DEF IsPrefix, q

----------------------------------------------------------------------------
(* start_send appends one message to the history and to the buffer. *)
LEMMA StartSendStep ==
  ASSUME IInv, NEW h \in Handles, op[h] # "idle", start_send(h)
  PROVE  IInv'
<1> DEFINE e == h[1]
           m == msg[h]
<1>1. /\ at[h] = "locked" /\ at' = [at EXCEPT ![h] = "fed"]
      /\ buffer' = [buffer EXCEPT ![e] = Append(@, m)]
      /\ fed' = [fed EXCEPT ![e] = Append(@, m)]
      /\ UNCHANGED <<alive, op, msg, queue, holder, sends, pipe, got, acked, closed, errors>>
  BY DEF start_send
<1>2. e \in Ends /\ m \in Nat
  BY HandleFacts DEF IInv, CallTypes
<1>3. /\ \A f \in Ends : f # e => fed'[f] = fed[f] /\ buffer'[f] = buffer[f]
      /\ fed'[e] = Append(fed[e], m) /\ buffer'[e] = Append(buffer[e], m)
  BY <1>1, <1>2 DEF IInv, IoTypes
<1>4. \A f \in Ends : \A i \in 1 .. Len(fed[f]) :
        i \in 1 .. Len(fed'[f]) /\ fed'[f][i] = fed[f][i]
  <2> SUFFICES ASSUME NEW f \in Ends, NEW i \in 1 .. Len(fed[f])
               PROVE  i \in 1 .. Len(fed'[f]) /\ fed'[f][i] = fed[f][i]
    OBVIOUS
  <2> HIDE DEF e, m
  <2>1. CASE f = e
    <3>1. fed[e] \in Seq(Nat)
      BY <1>2 DEF IInv, IoTypes
    <3>2. Len(fed'[e]) = Len(fed[e]) + 1 /\ \A j \in 1 .. Len(fed[e]) : fed'[e][j] = fed[e][j]
      BY <1>2, <1>3, <3>1, AppendFacts
    <3> QED BY <2>1, <3>1, <3>2
  <2>2. CASE f # e
    BY <1>3, <2>2
  <2> QED BY <2>1, <2>2
<1>5. CallTypes' /\ CallsOK'
  <2>1. holder[e] = h /\ holder' = [holder EXCEPT ![e] = h]
    BY <1>1, <1>2 DEF IInv, CallTypes
  <2>2. queue' \in [Ends -> Seq(Handles)]
    BY <1>1 DEF IInv, CallTypes
  <2>3. \E i \in 1 .. Len(fed'[e]) : fed'[e][i] = m
    <3> HIDE DEF e, m
    <3>1. Len(fed[e]) + 1 \in 1 .. Len(fed'[e]) /\ fed'[e][Len(fed[e]) + 1] = m
      BY <1>2, <1>3 DEF IInv, IoTypes
    <3> QED BY <3>1
  <2> QED BY <1>1, <1>4, <2>1, <2>2, <2>3, AtStep
<1>6. IoTypes'
  BY <1>1, <1>2 DEF IInv, IoTypes, errors
<1>7. FlowOK'
  <2> SUFFICES ASSUME NEW d \in Ends PROVE Flow(d)'
    BY DEF FlowOK
  <2>1. /\ Flow(d) /\ UNCHANGED <<got, pipe, alive, failed>>
        /\ Unread(d)' = Unread(d) /\ Unread(d) \in Seq(Nat)
        /\ got[d] \in Seq(Nat) /\ pipe[d] \in Seq(Nat)
        /\ buffer[Other(d)] \in Seq(Nat) /\ fed[Other(d)] \in Seq(Nat)
    BY <1>1, EndFacts DEF IInv, FlowOK, IoTypes, Unread, errors
  <2>2. CASE Other(d) # e
    <3>1. fed'[Other(d)] = fed[Other(d)] /\ buffer'[Other(d)] = buffer[Other(d)]
      BY <1>3, <2>2, EndFacts
    <3> QED BY <2>1, <3>1 DEF Flow, Gone
  <2>3. CASE Other(d) = e
    <3> HIDE DEF e, m
    <3>1. Delivered(got[d], Unread(d), fed'[e])
      BY <1>2, <1>3, <2>1, <2>3, FeedSeq DEF Flow
    <3>2. ASSUME ~failed[d], Complete(got[d], pipe[d], buffer[e], fed[e])
          PROVE  Complete(got[d], pipe[d], buffer'[e], fed'[e])
      <4>1. Delivered(got[d], pipe[d], fed[e])
        BY <2>1, <2>3, <3>2 DEF Flow, Unread
      <4> QED BY <1>2, <1>3, <2>1, <2>3, <3>2, <4>1, FeedSeq
    <3> QED BY <2>1, <2>3, <3>1, <3>2 DEF Flow, Gone
  <2> QED BY <2>2, <2>3
<1>8. AckedOK'
  <2> SUFFICES ASSUME NEW d \in Ends PROVE Acked(d)'
    BY DEF AckedOK
  <2>1. /\ Acked(d) /\ UNCHANGED <<got, pipe, alive, acked, closed, failed>>
        /\ got[d] \in Seq(Nat) /\ pipe[d] \in Seq(Nat) /\ Other(d) \in Ends
        /\ fed[Other(d)] \in Seq(Nat)
    BY <1>1, EndFacts DEF IInv, AckedOK, IoTypes, errors
  <2>2. CASE failed[d]
    BY <2>1, <2>2 DEF Acked
  <2>3. CASE ~failed[d]
    <3> DEFINE n == Len(got[d]) + Len(pipe[d])
               k == Len(fed[Other(d)])
    <3>1. Len(got[d]) + Len(pipe[d]) <= Len(fed[Other(d)])
      BY <2>3 DEF IInv, FlowOK, Flow, Delivered, Unread
    <3>2. n \in Nat /\ k \in Nat /\ n <= k
      <4>1. Len(got[d]) \in Nat /\ Len(pipe[d]) \in Nat /\ k \in Nat
        BY <2>1
      <4>2. \A a, b \in Nat : a + b \in Nat
        OBVIOUS
      <4> QED BY <3>1, <4>1, <4>2, Zenon
    <3>3. \A i \in 1 .. n : i \in 1 .. k
      <4> HIDE DEF n, k
      <4> QED BY <3>2, RangeMono
    <3>4. \A i \in 1 .. n : fed'[Other(d)][i] = fed[Other(d)][i]
      BY <1>4, <2>1, <3>3, Zenon
    <3>5. \A A : HasLeft(A, got[d], pipe[d], fed[Other(d)]) =>
                   HasLeft(A, got[d], pipe[d], fed'[Other(d)])
      BY <3>4 DEF HasLeft
    <3> QED BY <2>1, <3>5 DEF Acked, Gone
  <2> QED BY <2>2, <2>3
<1> QED BY <1>5, <1>6, <1>7, <1>8 DEF IInv

(* poll_write moves the first message of the buffer into the transport. *)
LEMMA WriteStep ==
  ASSUME IInv, NEW h \in Handles, op[h] # "idle", poll_write(h)
  PROVE  IInv'
<1> DEFINE e == h[1]
           o == Other(h[1])
<1>1. /\ buffer[e] # <<>> /\ ~Gone(o)
      /\ pipe' = [pipe EXCEPT ![o] = Append(@, Head(buffer[e]))]
      /\ buffer' = [buffer EXCEPT ![e] = Tail(@)]
      /\ UNCHANGED <<alive, calls, sends, fed, got, acked, closed, errors>>
  BY DEF poll_write
<1>2. e \in Ends /\ o \in Ends /\ o # e /\ Other(o) = e /\ Other(e) = o /\ ~Gone(e)
  BY HandleFacts
<1> HIDE DEF e, o
<1>3. /\ got[o] \in Seq(Nat) /\ pipe[o] \in Seq(Nat) /\ buffer[e] \in Seq(Nat)
      /\ fed[e] \in Seq(Nat)
      /\ Delivered(got[o], Unread(o), fed[e])
      /\ ~failed[o] => /\ Delivered(got[o], pipe[o], fed[e])
                       /\ Complete(got[o], pipe[o], buffer[e], fed[e])
      /\ failed' = failed
  BY <1>1, <1>2 DEF IInv, IoTypes, FlowOK, Flow, Unread, errors
<1>4. /\ pipe'[o] = Append(pipe[o], Head(buffer[e])) /\ buffer'[e] = Tail(buffer[e])
      /\ pipe'[e] = pipe[e] /\ buffer'[o] = buffer[o]
  BY <1>1, <1>2 DEF IInv, IoTypes
<1>5. Head(buffer[e]) \in Nat /\ Tail(buffer[e]) \in Seq(Nat)
  BY <1>1, <1>3, TailFacts
<1>6. CallTypes' /\ CallsOK'
  BY <1>1 DEF IInv, CallTypes, CallsOK, calls
<1>7. IoTypes'
  <2>1. Append(pipe[o], Head(buffer[e])) \in Seq(Nat)
    BY <1>3, <1>5
  <2>2. buffer' \in [Ends -> Seq(Nat)] /\ pipe' \in [Ends -> Seq(Nat)]
    BY <1>1, <1>2, <1>5, <2>1 DEF IInv, IoTypes
  <2> QED BY <1>1, <2>2 DEF IInv, IoTypes, errors
<1>8. Flow(o)' /\ Flow(e)'
  <2>1. ~failed[o] => /\ Delivered(got[o], pipe'[o], fed[e])
                      /\ Complete(got[o], pipe'[o], buffer'[e], fed[e])
    BY <1>1, <1>3, <1>4, WriteSeq
  <2>2. Flow(e)'
    BY <1>1, <1>2, <1>3, <1>4 DEF IInv, FlowOK, Flow, Gone, Unread
  <2>3. Delivered(got[o], Unread(o)', fed[e])
    BY <1>3, <2>1 DEF Unread
  <2> QED BY <1>1, <1>2, <1>3, <2>1, <2>2, <2>3 DEF Flow, Gone
<1>9. Acked(o)' /\ Acked(e)'
  <2>1. Acked(o) /\ Acked(e)
    BY <1>2 DEF IInv, AckedOK
  <2> DEFINE n == Len(got[o]) + Len(pipe[o])
             k == Len(got[o]) + Len(pipe'[o])
  <2>2. \A i \in 1 .. n : i \in 1 .. k
    <3>1. n \in Nat /\ k \in Nat /\ n <= k
      <4>1. Len(pipe'[o]) = Len(pipe[o]) + 1 /\ Len(pipe[o]) \in Nat
        BY <1>3, <1>4, <1>5, AppendFacts
      <4>2. Len(got[o]) \in Nat
        BY <1>3
      <4>3. \A a, b, c \in Nat : c = b + 1 => a + b \in Nat /\ a + c \in Nat /\ a + b <= a + c
        OBVIOUS
      <4>4. Len(pipe'[o]) \in Nat
        BY <4>1
      <4> QED BY <4>1, <4>2, <4>3, <4>4
    <3> HIDE DEF n, k
    <3> QED BY <3>1, RangeMono
  <2>5. \A A : HasLeft(A, got[o], pipe[o], fed[e]) => HasLeft(A, got[o], pipe'[o], fed[e])
    BY <2>2 DEF HasLeft
  <2>3. Acked(o)'
    BY <1>1, <1>2, <1>3, <2>1, <2>5 DEF Acked, Gone
  <2>4. Acked(e)'
    BY <1>1, <1>2, <1>3, <1>4, <2>1 DEF Acked, Gone
  <2> QED BY <2>3, <2>4
<1>10. FlowOK' /\ AckedOK'
  BY <1>2, <1>8, <1>9, EndFacts DEF FlowOK, AckedOK
<1> QED BY <1>6, <1>7, <1>10 DEF IInv

(* send returns Ok when the buffer is empty: the message has left it. *)
LEMMA SendOkStep ==
  ASSUME IInv, NEW h \in Handles, op[h] # "idle", send_ok(h)
  PROVE  IInv'
<1> DEFINE e == h[1]
           o == Other(h[1])
<1>1. /\ at[h] = "fed" /\ buffer[e] = <<>> /\ Finish(h)
      /\ acked' = [acked EXCEPT ![e] = @ \cup {msg[h]}]
      /\ UNCHANGED <<alive, sends, io, closed, errors>>
  BY DEF send_ok
<1>2. e \in Ends /\ o \in Ends /\ o # e /\ Other(o) = e /\ Other(e) = o /\ ~Gone(e)
  BY HandleFacts
<1>3. msg[h] \in Nat /\ \E i \in 1 .. Len(fed[e]) : fed[e][i] = msg[h]
  BY <1>1 DEF IInv, CallTypes, CallsOK
<1> HIDE DEF e, o
<1>4. CallTypes' /\ CallsOK'
  BY <1>1, FinishStep DEF io
<1>5. IoTypes'
  BY <1>1, <1>2, <1>3 DEF IInv, IoTypes, io, errors
<1>6. FlowOK'
  BY <1>1, FlowFrame DEF io, errors
<1>7. acked'[e] = acked[e] \cup {msg[h]} /\ acked'[o] = acked[o]
  BY <1>1, <1>2 DEF IInv, IoTypes
<1>8. Acked(e)'
  BY <1>1, <1>2, <1>7 DEF IInv, AckedOK, Acked, Gone, io, errors
<1>9. Acked(o)'
  <2>1. UNCHANGED <<alive, got, pipe, fed, closed, failed>>
    BY <1>1 DEF io, errors
  <2>2. ~closed[o] \/ failed[o]
    BY <1>2 DEF IInv, AckedOK, Acked
  <2>3. ASSUME ~Gone(o), ~failed[o], NEW m \in acked'[e]
        PROVE  \E i \in 1 .. (Len(got[o]) + Len(pipe[o])) : fed[e][i] = m
    <3>1. CASE m \in acked[e]
      BY <1>2, <2>3, <3>1 DEF IInv, AckedOK, Acked, HasLeft
    <3>2. CASE m = msg[h]
      <4>1. Complete(got[o], pipe[o], buffer[e], fed[e])
        BY <1>2, <2>3 DEF IInv, FlowOK, Flow
      <4>2. Len(got[o]) + Len(pipe[o]) = Len(fed[e])
        BY <1>1, <1>2, <4>1 DEF IInv, IoTypes, Complete
      <4> QED BY <1>3, <3>2, <4>2
    <3> QED BY <3>1, <3>2, <1>7
  <2>4. ~Gone(o) /\ ~failed[o] => HasLeft(acked'[e], got[o], pipe[o], fed[e])
    BY <2>3 DEF HasLeft
  <2> QED BY <1>2, <2>1, <2>2, <2>4 DEF Acked, Gone
<1>10. AckedOK'
  BY <1>2, <1>8, <1>9, EndFacts DEF AckedOK
<1> QED BY <1>4, <1>5, <1>6, <1>10 DEF IInv

(* receive_message returns the first message on the way. *)
LEMMA ReceiveStep ==
  ASSUME IInv, NEW h \in Handles, op[h] # "idle", receive_ok(h)
  PROVE  IInv'
<1> DEFINE e == h[1]
           o == Other(h[1])
<1>1. /\ ~failed[e] /\ pipe[e] # <<>> /\ Finish(h)
      /\ got' = [got EXCEPT ![e] = Append(@, Head(pipe[e]))]
      /\ pipe' = [pipe EXCEPT ![e] = Tail(@)]
      /\ UNCHANGED <<alive, sends, buffer, fed, acked, closed, errors>>
  BY DEF receive_ok, Unread
<1>2. e \in Ends /\ o \in Ends /\ o # e /\ Other(o) = e /\ Other(e) = o
  BY HandleFacts
<1> HIDE DEF e, o
<1>3. /\ got[e] \in Seq(Nat) /\ pipe[e] \in Seq(Nat) /\ buffer[o] \in Seq(Nat)
      /\ fed[o] \in Seq(Nat) /\ Delivered(got[e], pipe[e], fed[o])
      /\ failed' = failed
  BY <1>1, <1>2 DEF IInv, IoTypes, FlowOK, Flow, Unread, errors
<1>4. /\ pipe'[e] = Tail(pipe[e]) /\ got'[e] = Append(got[e], Head(pipe[e]))
      /\ pipe'[o] = pipe[o] /\ got'[o] = got[o]
  BY <1>1, <1>2 DEF IInv, IoTypes
<1>5. CallTypes' /\ CallsOK'
  BY <1>1, FinishStep
<1>6. IoTypes'
  <2>1. Head(pipe[e]) \in Nat /\ Tail(pipe[e]) \in Seq(Nat)
    BY <1>1, <1>3, TailFacts
  <2>2. Append(got[e], Head(pipe[e])) \in Seq(Nat)
    BY <1>3, <2>1
  <2> QED BY <1>1, <2>1, <2>2 DEF IInv, IoTypes, errors
<1>7. /\ Delivered(got'[e], pipe'[e], fed[o])
      /\ Complete(got[e], pipe[e], buffer[o], fed[o]) =>
           Complete(got'[e], pipe'[e], buffer[o], fed[o])
      /\ Len(got'[e]) + Len(pipe'[e]) = Len(got[e]) + Len(pipe[e])
      /\ ToSet(got[e]) \subseteq ToSet(got'[e])
  BY <1>1, <1>3, <1>4, ReadSeq
<1>8. Flow(e)' /\ Flow(o)'
  <2>1. Delivered(got'[e], Unread(e)', fed[o]) /\ Unread(o)' = Unread(o)
    BY <1>1, <1>3, <1>4, <1>7 DEF Unread
  <2> QED BY <1>1, <1>2, <1>3, <1>4, <1>7, <2>1 DEF IInv, FlowOK, Flow, Gone
<1>9. Acked(e)' /\ Acked(o)'
  <2>1. \A A : HasLeft(A, got[e], pipe[e], fed[o]) => HasLeft(A, got'[e], pipe'[e], fed[o])
    BY <1>7 DEF HasLeft
  <2> QED BY <1>1, <1>2, <1>3, <1>4, <1>7, <2>1 DEF IInv, AckedOK, Acked, Gone
<1>10. FlowOK' /\ AckedOK'
  BY <1>2, <1>8, <1>9, EndFacts DEF FlowOK, AckedOK
<1> QED BY <1>5, <1>6, <1>10 DEF IInv

(* receive_message returns an error: of what was on the way nothing will be
   received. *)
LEMMA ErrorStep ==
  ASSUME IInv, NEW h \in Handles, receive_err(h)
  PROVE  IInv'
<1> DEFINE e == h[1]
           o == Other(h[1])
<1>1. /\ Finish(h)
      /\ failed' = [failed EXCEPT ![e] = TRUE]
      /\ has_errored' = [has_errored EXCEPT ![e] = TRUE]
      /\ UNCHANGED <<alive, sends, buffer, fed, got, acked, closed>>
  BY DEF receive_err
<1>2. PICK n \in 0 .. Len(pipe[e]) :
        pipe' = [pipe EXCEPT ![e] = SubSeq(@, n + 1, Len(@))]
  BY DEF receive_err
<1>3. e \in Ends /\ o \in Ends /\ o # e /\ Other(o) = e /\ Other(e) = o
  BY HandleFacts
<1> HIDE DEF e, o
<1>4. /\ failed' \in [Ends -> BOOLEAN] /\ has_errored' \in [Ends -> BOOLEAN]
      /\ failed'[e] = TRUE /\ failed'[o] = failed[o]
      /\ has_errored'[o] = has_errored[o]
  BY <1>1, <1>3, Zenon DEF IInv, IoTypes
<1>5. pipe' \in [Ends -> Seq(Nat)] /\ pipe'[o] = pipe[o]
  <2>1. pipe[e] \in Seq(Nat)
    BY <1>3 DEF IInv, IoTypes
  <2>2. SubSeq(pipe[e], n + 1, Len(pipe[e])) \in Seq(Nat)
    BY <2>1
  <2> QED BY <1>2, <1>3, <2>2 DEF IInv, IoTypes
<1>6. CallTypes' /\ CallsOK'
  BY <1>1, FinishStep
<1>7. IoTypes'
  <2>1. \A d \in Ends : has_errored'[d] => failed'[d]
    BY <1>3, <1>4, EndFacts DEF IInv, IoTypes
  <2> QED BY <1>1, <1>4, <1>5, <2>1 DEF IInv, IoTypes
<1>8. Flow(e)' /\ Flow(o)'
  <2>1. Unread(e)' = <<>> /\ Unread(o)' = Unread(o)
    BY <1>4, <1>5 DEF Unread
  <2>2. /\ Flow(e) /\ Flow(o) /\ got[e] \in Seq(Nat) /\ Unread(e) \in Seq(Nat)
        /\ fed[o] \in Seq(Nat)
    BY <1>3 DEF IInv, FlowOK, IoTypes, Unread
  <2>3. Delivered(got[e], <<>>, fed[o])
    BY <1>3, <2>2, DropSeq DEF Flow
  <2>4. Flow(e)'
    BY <1>1, <1>3, <1>4, <2>1, <2>3 DEF Flow
  <2>5. Flow(o)'
    BY <1>1, <1>3, <1>4, <1>5, <2>1, <2>2 DEF Flow, Gone
  <2> QED BY <2>4, <2>5
<1>9. Acked(e)' /\ Acked(o)'
  BY <1>1, <1>3, <1>4, <1>5 DEF IInv, AckedOK, Acked, Gone
<1>10. FlowOK' /\ AckedOK'
  BY <1>3, <1>8, <1>9, EndFacts DEF FlowOK, AckedOK
<1> QED BY <1>6, <1>7, <1>10 DEF IInv

(* The None after an error: nothing changes of what can be received. *)
LEMMA NoneStep ==
  ASSUME IInv, NEW h \in Handles, receive_none(h)
  PROVE  IInv'
<1> DEFINE e == h[1]
           o == Other(h[1])
<1>1. /\ has_errored[e] /\ Finish(h)
      /\ has_errored' = [has_errored EXCEPT ![e] = FALSE]
      /\ closed' = [closed EXCEPT ![e] = TRUE]
      /\ UNCHANGED <<alive, sends, io, acked, failed>>
  BY DEF receive_none
<1>2. e \in Ends /\ o \in Ends /\ o # e /\ Other(o) = e /\ Other(e) = o
  BY HandleFacts
<1> HIDE DEF e, o
<1>3. /\ has_errored' \in [Ends -> BOOLEAN] /\ closed' \in [Ends -> BOOLEAN]
      /\ has_errored'[e] = FALSE /\ has_errored'[o] = has_errored[o]
      /\ closed'[o] = closed[o]
  BY <1>1, <1>2, Zenon DEF IInv, IoTypes
<1>4. failed[e]
  BY <1>1, <1>2 DEF IInv, IoTypes
<1>5. CallTypes' /\ CallsOK'
  BY <1>1, FinishStep DEF io
<1>6. IoTypes'
  <2>1. \A d \in Ends : has_errored'[d] => failed'[d]
    BY <1>1, <1>2, <1>3, EndFacts DEF IInv, IoTypes
  <2> QED BY <1>1, <1>3, <2>1 DEF IInv, IoTypes, io
<1>7. FlowOK'
  BY <1>1 DEF IInv, FlowOK, Flow, Gone, Unread, io
<1>8. Acked(e)' /\ Acked(o)'
  BY <1>1, <1>2, <1>3, <1>4 DEF IInv, AckedOK, Acked, Gone, io
<1>9. AckedOK'
  BY <1>2, <1>8, EndFacts DEF AckedOK
<1> QED BY <1>5, <1>6, <1>7, <1>9 DEF IInv

(* The end of the stream: the other end is gone and nothing is on the way. *)
LEMMA ClosedStep ==
  ASSUME IInv, NEW h \in Handles, op[h] # "idle", receive_closed(h)
  PROVE  IInv'
<1> DEFINE e == h[1]
           o == Other(h[1])
<1>1. /\ Unread(e) = <<>> /\ Gone(o) /\ Finish(h)
      /\ closed' = [closed EXCEPT ![e] = TRUE]
      /\ UNCHANGED <<alive, sends, io, acked, errors>>
  BY DEF receive_closed
<1>2. e \in Ends /\ o \in Ends /\ o # e /\ Other(o) = e /\ Other(e) = o /\ ~Gone(e)
  BY HandleFacts
<1> HIDE DEF e, o
<1>3. CallTypes' /\ CallsOK'
  BY <1>1, FinishStep DEF io
<1>4. closed' \in [Ends -> BOOLEAN] /\ closed'[o] = closed[o]
  BY <1>1, <1>2, Zenon DEF IInv, IoTypes
<1>5. IoTypes'
  BY <1>1, <1>4 DEF IInv, IoTypes, io, errors
<1>6. FlowOK'
  BY <1>1, FlowFrame DEF io, errors
<1>7. ~failed[e] => acked[o] \subseteq ToSet(got[e])
  <2> SUFFICES ASSUME ~failed[e], NEW m \in acked[o] PROVE m \in ToSet(got[e])
    OBVIOUS
  <2>1. got[e] \in Seq(Nat) /\ Len(pipe[e]) = 0 /\ Len(got[e]) \in Nat
    BY <1>1, <1>2 DEF IInv, IoTypes, Unread
  <2>6. HasLeft(acked[o], got[e], pipe[e], fed[o])
    BY <1>2 DEF IInv, AckedOK, Acked
  <2>2. PICK i \in 1 .. (Len(got[e]) + Len(pipe[e])) : fed[o][i] = m
    BY <2>6, Zenon DEF HasLeft
  <2>3. i \in 1 .. Len(got[e])
    <3>1. Len(got[e]) + Len(pipe[e]) = Len(got[e])
      BY <2>1
    <3> QED BY <2>2, <3>1
  <2>4. got[e][i] = m
    BY <1>2, <2>2, <2>3 DEF IInv, FlowOK, Flow, Delivered, Unread
  <2>5. i \in DOMAIN got[e]
    BY <2>1, <2>3
  <2> QED BY <2>4, <2>5 DEF ToSet
<1>8. Acked(e)' /\ Acked(o)'
  BY <1>1, <1>2, <1>4, <1>7 DEF IInv, AckedOK, Acked, Gone, io, errors
<1>9. AckedOK'
  BY <1>2, <1>8, EndFacts DEF AckedOK
<1> QED BY <1>3, <1>5, <1>6, <1>9 DEF IInv

----------------------------------------------------------------------------
(* A handle is dropped; with the last one the end goes. *)
LEMMA DisconnectStep ==
  ASSUME IInv, NEW h \in Handles, disconnect(h)
  PROVE  IInv'
<1> DEFINE e == h[1]
           o == Other(h[1])
<1>1. /\ h \in alive /\ op[h] = "idle" /\ alive' = alive \ {h}
      /\ UNCHANGED <<calls, sends, fed, got, acked, closed, errors>>
  BY DEF disconnect, Release
<1>2. e \in Ends /\ o \in Ends /\ o # e /\ Other(o) = e /\ Other(e) = o
  BY HandleFacts
<1>3. /\ Gone(e)' <=> \A g \in alive' : g[1] # e
      /\ Gone(o)' <=> Gone(o)
  BY <1>1, <1>2 DEF Gone
<1>4. /\ buffer' = IF Gone(e)' THEN [buffer EXCEPT ![e] = <<>>] ELSE buffer
      /\ pipe' = IF Gone(e)' THEN [pipe EXCEPT ![e] = <<>>] ELSE pipe
  BY <1>3 DEF disconnect, Release
<1>5. ~Gone(e)
  BY <1>1 DEF Gone
<1> HIDE DEF e, o
<1>6. /\ buffer' \in [Ends -> Seq(Nat)] /\ pipe' \in [Ends -> Seq(Nat)]
      /\ buffer'[o] = buffer[o] /\ pipe'[o] = pipe[o]
      /\ ~Gone(e)' => buffer' = buffer /\ pipe' = pipe
      /\ Gone(e)' => pipe'[e] = <<>>
      /\ failed' = failed /\ has_errored' = has_errored
  BY <1>1, <1>2, <1>4 DEF IInv, IoTypes, errors
<1>7. CallTypes' /\ CallsOK'
  BY <1>1 DEF IInv, CallTypes, CallsOK, calls
<1>8. IoTypes'
  BY <1>1, <1>6 DEF IInv, IoTypes
<1>9. Flow(e)'
  <2>1. got[e] \in Seq(Nat) /\ Unread(e) \in Seq(Nat) /\ fed[o] \in Seq(Nat)
    BY <1>2 DEF IInv, IoTypes, Unread
  <2>2. Delivered(got[e], Unread(e), fed[o]) /\ Delivered(got[e], <<>>, fed[o])
    BY <1>2, <2>1, DropSeq DEF IInv, FlowOK, Flow
  <2>3. Unread(e)' = Unread(e) \/ Unread(e)' = <<>>
    BY <1>6 DEF Unread
  <2> QED BY <1>1, <1>2, <1>3, <1>5, <1>6, <2>2, <2>3 DEF IInv, FlowOK, Flow
<1>10. Flow(o)'
  BY <1>1, <1>2, <1>3, <1>5, <1>6 DEF IInv, FlowOK, Flow, Unread
<1>11. Acked(e)' /\ Acked(o)'
  BY <1>1, <1>2, <1>3, <1>5, <1>6 DEF IInv, AckedOK, Acked
<1>12. FlowOK' /\ AckedOK'
  BY <1>2, <1>9, <1>10, <1>11, EndFacts DEF FlowOK, AckedOK
<1> QED BY <1>7, <1>8, <1>12 DEF IInv

(* split replaces one reference by two. *)
LEMMA SplitStep ==
  ASSUME IInv, NEW e \in Ends, split(e)
  PROVE  IInv'
<1>1. /\ <<e, "peer">> \in alive /\ op[<<e, "peer">>] = "idle"
      /\ alive' = (alive \ {<<e, "peer">>}) \cup {<<e, "server">>, <<e, "client">>}
      /\ UNCHANGED <<calls, sends, io, acked, closed, errors>>
  BY DEF split
<1>2. \A f \in Ends : Gone(f)' <=> Gone(f)
  <2> DEFINE p == <<e, "peer">>
             s == <<e, "server">>
             c == <<e, "client">>
  <2>1. p[1] = e /\ s[1] = e /\ c[1] = e
    OBVIOUS
  <2>2. p \in alive /\ alive' = (alive \ {p}) \cup {s, c}
    BY <1>1
  <2> HIDE DEF p, s, c
  <2> QED BY <2>1, <2>2, Zenon DEF Gone
<1>3. CallTypes' /\ CallsOK'
  <2>1. UNCHANGED <<op, at, msg, queue, holder, fed>>
    BY <1>1 DEF calls, io
  <2>2. alive' \subseteq Handles
    BY <1>1 DEF IInv, CallTypes, Handles, Roles
  <2>3. CallTypes'
    BY <2>1, <2>2 DEF IInv, CallTypes
  <2>4. \A h \in Handles : op[h] # "idle" => h \in alive'
    BY <1>1 DEF IInv, CallsOK
  <2>5. CallsOK'
    BY <2>1, <2>4 DEF IInv, CallsOK
  <2> QED BY <2>3, <2>5
<1>4. IoTypes'
  BY <1>1 DEF IInv, IoTypes, io, errors
<1>5. ASSUME NEW d \in Ends PROVE Flow(d)' /\ Acked(d)'
  <2>1. /\ UNCHANGED <<buffer, pipe, fed, got, acked, closed, failed>>
        /\ Unread(d)' = Unread(d)
        /\ Gone(d)' <=> Gone(d)
        /\ Gone(Other(d))' <=> Gone(Other(d))
    BY <1>1, <1>2, EndFacts DEF io, errors, Unread
  <2>2. Flow(d) /\ Acked(d)
    BY DEF IInv, FlowOK, AckedOK
  <2>3. Flow(d)'
    BY <2>1, <2>2 DEF Flow
  <2>4. Acked(d)'
    BY <2>1, <2>2 DEF Acked
  <2> QED BY <2>3, <2>4
<1> QED BY <1>3, <1>4, <1>5 DEF IInv, FlowOK, AckedOK

(* The invariant holds in every behaviour. *)
THEOREM Invariant == Spec => []IInv
<1>1. IInv /\ [Next]_vars => IInv'
  <2> SUFFICES ASSUME IInv, [Next]_vars PROVE IInv'
    OBVIOUS
  <2>1. CASE UNCHANGED vars
    <3>1. /\ UNCHANGED <<alive, op, at, msg, queue, holder, sends>>
          /\ UNCHANGED <<alive, io, acked, closed, errors>>
      BY <2>1 DEF vars, io, errors
    <3>2. CallTypes' /\ CallsOK' /\ IoTypes'
      BY <3>1 DEF IInv, CallTypes, CallsOK, IoTypes, io, errors
    <3> QED BY <3>1, <3>2, FlowFrame, AckedFrame DEF IInv
  <2>2. ASSUME NEW h \in Handles, Run(h) PROVE IInv'
    BY <2>2, AcquireStep, StartSendStep, WriteStep, SendOkStep, CancelStep,
       ReceiveStep, NoneStep, ClosedStep DEF Run
  <2>3. CASE Next
    BY <2>2, <2>3, BeginStep, ErrorStep, CancelStep, DisconnectStep, SplitStep
       DEF Next
  <2> QED BY <2>1, <2>3
<1> QED BY <1>1, InitIInv, PTL DEF Spec

(* Type correctness. *)
THEOREM TypeCorrect == Spec => []TypeOK
<1>1. IInv => TypeOK
  BY DEF IInv, CallTypes, IoTypes, TypeOK
<1> QED BY <1>1, Invariant, PTL

(* Messages arrive in the order they were encoded, each once. *)
THEOREM ArriveInOrderOnce == Spec => []InOrderOnce
<1>1. IInv => InOrderOnce
  <2> SUFFICES ASSUME IInv, NEW e \in Ends
               PROVE  IsPrefix(got[e] \o Unread(e), fed[Other(e)])
    BY DEF InOrderOnce
  <2>1. /\ got[e] \in Seq(Nat) /\ Unread(e) \in Seq(Nat) /\ fed[Other(e)] \in Seq(Nat)
        /\ Delivered(got[e], Unread(e), fed[Other(e)])
    BY EndFacts DEF IInv, IoTypes, FlowOK, Flow, Unread
  <2> QED BY <2>1, PrefixSeq
<1> QED BY <1>1, Invariant, PTL

(* ConnectionClosed, if no error was reported before it, means that the other
   end is gone and nothing acknowledged is missing. *)
THEOREM NothingAckedIsMissing == Spec => []ClosedIsComplete
<1>1. IInv => ClosedIsComplete
  BY DEF IInv, AckedOK, Acked, ClosedIsComplete
<1> QED BY <1>1, Invariant, PTL

----------------------------------------------------------------------------
(* Who was told ConnectionClosed has seen an error, or has nothing on the way to
   it and the other end, which could send more, no longer exists. *)
Over(e) == closed[e] => failed[e] \/ (Gone(Other(e)) /\ pipe[e] = <<>>)

EndIsFinal == \A e \in Ends : Over(e)

(* No step puts anything behind the end of a stream. *)
LEMMA EndStaysFinal ==
  ASSUME IInv, EndIsFinal, [Next]_vars
  PROVE  EndIsFinal'
<1>1. ASSUME UNCHANGED <<alive, pipe, closed, failed>>
      PROVE  EndIsFinal'
  BY <1>1 DEF EndIsFinal, Over, Gone
<1>2. ASSUME NEW h \in Handles,
             \/ send_message(h) \/ receive_message(h) \/ acquire(h) \/ start_send(h)
             \/ send_ok(h) \/ send_err(h) \/ cancel(h)
      PROVE  EndIsFinal'
  <2>1. UNCHANGED <<alive, pipe, closed, failed>>
    BY <1>2 DEF send_message, receive_message, acquire, start_send, send_ok,
         send_err, cancel, io, errors
  <2> QED BY <2>1, <1>1
<1>3. ASSUME NEW h \in Handles, op[h] # "idle", poll_write(h)
      PROVE  EndIsFinal'
  <2> SUFFICES ASSUME NEW d \in Ends PROVE Over(d)'
    BY DEF EndIsFinal
  <2>1. /\ UNCHANGED <<alive, closed, failed>>
        /\ pipe' = [pipe EXCEPT ![Other(h[1])] = Append(@, Head(buffer[h[1]]))]
    BY <1>3 DEF poll_write, errors
  <2>2. h[1] \in Ends /\ ~Gone(h[1])
    BY <1>3, HandleFacts
  <2>3. Over(d)
    BY DEF EndIsFinal
  <2>4. CASE Other(d) = h[1]
    BY <2>1, <2>2, <2>3, <2>4 DEF Over, Gone
  <2>5. CASE Other(d) # h[1]
    <3>1. d # Other(h[1])
      BY <2>2, <2>5, EndFacts
    <3>2. pipe'[d] = pipe[d]
      BY <2>1, <3>1 DEF IInv, IoTypes
    <3> QED BY <2>1, <2>3, <3>2 DEF Over, Gone
  <2> QED BY <2>4, <2>5
<1>4. ASSUME NEW h \in Handles, receive_ok(h)
      PROVE  EndIsFinal'
  <2> SUFFICES ASSUME NEW d \in Ends PROVE Over(d)'
    BY DEF EndIsFinal
  <2>1. /\ UNCHANGED <<alive, closed, failed>> /\ pipe[h[1]] # <<>> /\ ~failed[h[1]]
        /\ pipe' = [pipe EXCEPT ![h[1]] = Tail(@)]
    BY <1>4 DEF receive_ok, Unread, errors
  <2>2. Over(d)
    BY DEF EndIsFinal
  <2>3. d # h[1] => pipe'[d] = pipe[d]
    BY <2>1 DEF IInv, IoTypes
  <2> QED BY <2>1, <2>2, <2>3 DEF Over, Gone
<1>5. ASSUME NEW h \in Handles, receive_closed(h)
      PROVE  EndIsFinal'
  <2> SUFFICES ASSUME NEW d \in Ends PROVE Over(d)'
    BY DEF EndIsFinal
  <2>1. /\ UNCHANGED <<alive, pipe, failed>> /\ Gone(Other(h[1]))
        /\ failed[h[1]] \/ pipe[h[1]] = <<>>
        /\ closed' = [closed EXCEPT ![h[1]] = TRUE]
    BY <1>5 DEF receive_closed, Unread, io, errors
  <2>2. Over(d)
    BY DEF EndIsFinal
  <2>3. d # h[1] => closed'[d] = closed[d]
    BY <2>1, Zenon DEF IInv, IoTypes
  <2> QED BY <2>1, <2>2, <2>3 DEF Over, Gone
<1>6. ASSUME NEW h \in Handles, disconnect(h)
      PROVE  EndIsFinal'
  <2> SUFFICES ASSUME NEW d \in Ends PROVE Over(d)'
    BY DEF EndIsFinal
  <2>1. alive' = alive \ {h} /\ closed' = closed /\ failed' = failed
    BY <1>6 DEF disconnect, Release, errors
  <2>2. pipe' = [pipe EXCEPT ![h[1]] = <<>>] \/ pipe' = pipe
    BY <1>6 DEF disconnect, Release
  <2>3. pipe'[d] = <<>> \/ pipe'[d] = pipe[d]
    BY <2>2 DEF IInv, IoTypes
  <2>4. Over(d)
    BY DEF EndIsFinal
  <2> QED BY <2>1, <2>3, <2>4 DEF Over, Gone
<1>7. ASSUME NEW e \in Ends, split(e)
      PROVE  EndIsFinal'
  <2> SUFFICES ASSUME NEW d \in Ends PROVE Over(d)'
    BY DEF EndIsFinal
  <2> DEFINE p == <<e, "peer">>
             s == <<e, "server">>
             c == <<e, "client">>
  <2>1. /\ p \in alive /\ alive' = (alive \ {p}) \cup {s, c}
        /\ pipe' = pipe /\ closed' = closed /\ failed' = failed
    BY <1>7 DEF split, io, errors
  <2>2. p[1] = e /\ s[1] = e /\ c[1] = e
    OBVIOUS
  <2>3. Over(d)
    BY DEF EndIsFinal
  <2> HIDE DEF p, s, c
  <2>4. Gone(Other(d)) => Gone(Other(d))'
    BY <2>1, <2>2, Zenon DEF Gone
  <2> QED BY <2>1, <2>3, <2>4 DEF Over
<1>9. ASSUME NEW h \in Handles, receive_err(h)
      PROVE  EndIsFinal'
  <2> SUFFICES ASSUME NEW d \in Ends PROVE Over(d)'
    BY DEF EndIsFinal
  <2>1. /\ UNCHANGED <<alive, closed>>
        /\ failed' = [failed EXCEPT ![h[1]] = TRUE]
        /\ \E n \in 0 .. Len(pipe[h[1]]) :
             pipe' = [pipe EXCEPT ![h[1]] = SubSeq(@, n + 1, Len(@))]
    BY <1>9 DEF receive_err
  <2>2. Over(d)
    BY DEF EndIsFinal
  <2>3. CASE d = h[1]
    <3>1. failed'[d]
      BY <2>1, <2>3, Zenon DEF IInv, IoTypes
    <3> QED BY <3>1 DEF Over
  <2>4. CASE d # h[1]
    <3>1. failed'[d] = failed[d]
      BY <2>1, <2>4, Zenon DEF IInv, IoTypes
    <3>2. pipe'[d] = pipe[d]
      BY <2>1, <2>4 DEF IInv, IoTypes
    <3> QED BY <2>1, <2>2, <3>1, <3>2 DEF Over, Gone
  <2> QED BY <2>3, <2>4
<1>10. ASSUME NEW h \in Handles, receive_none(h)
       PROVE  EndIsFinal'
  <2> SUFFICES ASSUME NEW d \in Ends PROVE Over(d)'
    BY DEF EndIsFinal
  <2>1. /\ UNCHANGED <<alive, pipe, failed>> /\ has_errored[h[1]]
        /\ closed' = [closed EXCEPT ![h[1]] = TRUE]
    BY <1>10 DEF receive_none, io
  <2>2. Over(d)
    BY DEF EndIsFinal
  <2>3. failed[h[1]]
    BY <2>1, HandleFacts DEF IInv, IoTypes
  <2>4. d # h[1] => closed'[d] = closed[d]
    BY <2>1, Zenon DEF IInv, IoTypes
  <2> QED BY <2>1, <2>2, <2>3, <2>4 DEF Over, Gone
<1>8. CASE UNCHANGED vars
  BY <1>1, <1>8 DEF vars
<1> QED
  BY <1>2, <1>3, <1>4, <1>5, <1>6, <1>7, <1>8, <1>9, <1>10 DEF Next, Run

(* What a step does to the direction towards end e: nothing, or it encodes a
   message, receives the next one, or reports the end. *)
LEMMA DirectionStep ==
  ASSUME IInv, EndIsFinal, [Next]_vars, NEW e \in Ends
  PROVE  \/ UNCHANGED <<fed[Other(e)], got[e], Stopped(e)>>
         \/ /\ Len(fed'[Other(e)]) = Len(fed[Other(e)]) + 1
            /\ \A k \in DOMAIN fed[Other(e)] : fed'[Other(e)][k] = fed[Other(e)][k]
            /\ got'[e] = got[e] /\ Stopped(e)' = Stopped(e)
         \/ /\ ~Stopped(e)
            /\ Len(got[e]) < Len(fed[Other(e)])
            /\ got'[e] = Append(got[e], fed[Other(e)][Len(got[e]) + 1])
            /\ fed'[Other(e)] = fed[Other(e)] /\ Stopped(e)' = Stopped(e)
         \/ /\ Stopped(e)' = TRUE
            /\ fed'[Other(e)] = fed[Other(e)] /\ got'[e] = got[e]
<1> DEFINE Quiet == closed' = closed /\ failed' = failed
           Still == fed' = fed /\ got' = got /\ Quiet
<1>0. /\ Other(e) \in Ends
      /\ got[e] \in Seq(Nat) /\ pipe[e] \in Seq(Nat) /\ fed[Other(e)] \in Seq(Nat)
  BY EndFacts DEF IInv, IoTypes
<1>1. ASSUME NEW h \in Handles,
             \/ send_message(h) \/ receive_message(h) \/ acquire(h) \/ poll_write(h)
             \/ send_ok(h) \/ send_err(h) \/ cancel(h) \/ disconnect(h)
      PROVE  Still
  BY <1>1 DEF send_message, receive_message, acquire, poll_write, send_ok,
       send_err, cancel, disconnect, io, errors
<1>2. ASSUME NEW d \in Ends, split(d) PROVE Still
  BY <1>2 DEF split, io, errors
<1>3. ASSUME UNCHANGED vars PROVE Still
  BY <1>3 DEF vars
<1>4. ASSUME NEW h \in Handles, start_send(h)
      PROVE  \/ Still
             \/ fed'[Other(e)] = fed[Other(e)] /\ got' = got /\ Quiet
             \/ /\ Len(fed'[Other(e)]) = Len(fed[Other(e)]) + 1
                /\ \A k \in DOMAIN fed[Other(e)] : fed'[Other(e)][k] = fed[Other(e)][k]
                /\ got' = got /\ Quiet
  <2>1. /\ fed' = [fed EXCEPT ![h[1]] = Append(@, msg[h])]
        /\ got' = got /\ Quiet
    BY <1>4 DEF start_send, errors
  <2>2. CASE Other(e) # h[1]
    BY <2>1, <2>2, <1>0 DEF IInv, IoTypes
  <2>3. CASE Other(e) = h[1]
    <3>1. fed'[Other(e)] = Append(fed[Other(e)], msg[h])
      BY <2>1, <2>3, <1>0 DEF IInv, IoTypes
    <3>2. msg[h] \in Nat
      BY DEF IInv, CallTypes
    <3>3. DOMAIN fed[Other(e)] = 1 .. Len(fed[Other(e)])
      BY <1>0
    <3> QED BY <3>1, <3>2, <3>3, <2>1, <1>0, AppendFacts
  <2> QED BY <2>2, <2>3
<1>5. ASSUME NEW h \in Handles, receive_ok(h)
      PROVE  \/ Still
             \/ fed' = fed /\ got'[e] = got[e] /\ Quiet
             \/ /\ ~Stopped(e)
                /\ Len(got[e]) < Len(fed[Other(e)])
                /\ got'[e] = Append(got[e], fed[Other(e)][Len(got[e]) + 1])
                /\ fed' = fed /\ Quiet
  <2>1. /\ got' = [got EXCEPT ![h[1]] = Append(@, Head(pipe[h[1]]))]
        /\ pipe[h[1]] # <<>> /\ ~failed[h[1]] /\ fed' = fed /\ Quiet
    BY <1>5 DEF receive_ok, Unread, errors
  <2>2. CASE e # h[1]
    BY <2>1, <2>2 DEF IInv, IoTypes
  <2>3. CASE e = h[1]
    <3>1. ~Stopped(e)
      BY <2>1, <2>3 DEF EndIsFinal, Over, Stopped
    <3>2. got'[e] = Append(got[e], Head(pipe[e]))
      BY <2>1, <2>3 DEF IInv, IoTypes
    <3>3. Delivered(got[e], pipe[e], fed[Other(e)])
      BY <2>1, <2>3 DEF IInv, FlowOK, Flow, Unread
    <3>4. Len(pipe[e]) \in Nat /\ 1 \in 1 .. Len(pipe[e]) /\ Head(pipe[e]) = pipe[e][1]
      BY <2>1, <2>3, <1>0, TailFacts
    <3>5. /\ Head(pipe[e]) = fed[Other(e)][Len(got[e]) + 1]
          /\ Len(got[e]) < Len(fed[Other(e)])
      <4>1. pipe[e][1] = fed[Other(e)][Len(got[e]) + 1]
        BY <3>3, <3>4 DEF Delivered
      <4>2. Len(got[e]) + Len(pipe[e]) <= Len(fed[Other(e)])
        BY <3>3 DEF Delivered
      <4>3. Len(got[e]) \in Nat /\ Len(fed[Other(e)]) \in Nat /\ Len(pipe[e]) >= 1
        BY <3>4, <1>0
      <4>4. \A a, b, c \in Nat : a + b <= c /\ b >= 1 => a < c
        OBVIOUS
      <4>5. Len(pipe[e]) \in Nat /\ Head(pipe[e]) = pipe[e][1]
        BY <3>4
      <4> QED BY <4>1, <4>2, <4>3, <4>4, <4>5
    <3> QED BY <3>1, <3>2, <3>5, <2>1
  <2> QED BY <2>2, <2>3
<1>6. ASSUME NEW h \in Handles, receive_err(h) \/ receive_none(h) \/ receive_closed(h)
      PROVE  /\ fed' = fed /\ got' = got
             /\ Stopped(e)' = Stopped(e) \/ Stopped(e)' = TRUE
  <2>1. /\ fed' = fed /\ got' = got
        /\ closed' = [closed EXCEPT ![h[1]] = TRUE] \/ closed' = closed
        /\ failed' = [failed EXCEPT ![h[1]] = TRUE] \/ failed' = failed
    BY <1>6 DEF receive_err, receive_none, receive_closed, io, errors
  <2>2. /\ closed'[e] = closed[e] \/ closed'[e] = TRUE
        /\ failed'[e] = failed[e] \/ failed'[e] = TRUE
    BY <2>1, Zenon DEF IInv, IoTypes
  <2> QED BY <2>1, <2>2, Zenon DEF Stopped
<1>7. CASE \E h \in Handles : start_send(h)
  BY <1>4, <1>7 DEF Stopped
<1>8. CASE \E h \in Handles : receive_ok(h)
  BY <1>5, <1>8 DEF Stopped
<1>9. CASE \E h \in Handles : receive_err(h) \/ receive_none(h) \/ receive_closed(h)
  BY <1>6, <1>9
<1>10. CASE Still
  BY <1>10 DEF Stopped
<1>11. \/ Still
       \/ \E h \in Handles : start_send(h)
       \/ \E h \in Handles : receive_ok(h)
       \/ \E h \in Handles : receive_err(h) \/ receive_none(h) \/ receive_closed(h)
  <2> HIDE DEF Still
  <2>1. CASE Next
    BY <2>1, <1>1, <1>2 DEF Next, Run
  <2>2. CASE UNCHANGED vars
    BY <2>2, <1>3
  <2> QED BY <2>1, <2>2
<1> QED BY <1>7, <1>8, <1>9, <1>10, <1>11

(* Both directions between two ends implement the message channel: whatever
   the handles do, each message is received once, in the order of its
   encoding, and none after receive_message answered with an error or with
   ConnectionClosed. *)
THEOREM DirectionsAreChannels == Spec => ImplementsChannels
<1>1. Init => EndIsFinal /\ ToNear!Init /\ ToFar!Init
  <2> SUFFICES ASSUME Init PROVE EndIsFinal /\ ToNear!Init /\ ToFar!Init
    OBVIOUS
  <2>1. \A e \in Ends : closed[e] = FALSE /\ failed[e] = FALSE /\ Stopped(e) = FALSE
    BY Zenon DEF Init, Stopped
  <2>2. "near" \in Ends /\ "far" \in Ends
    BY DEF Ends
  <2>3. \A e \in Ends : fed[e] = <<>> /\ got[e] = <<>>
    BY DEF Init
  <2>4. EndIsFinal
    BY <2>1 DEF EndIsFinal, Over
  <2> QED BY <2>1, <2>2, <2>3, <2>4 DEF ToNear!Init, ToFar!Init
<1>2. IInv /\ EndIsFinal /\ [Next]_vars => EndIsFinal'
  BY EndStaysFinal
<1>3. IInv /\ EndIsFinal /\ [Next]_vars =>
        [ToNear!Next]_(ToNear!vars) /\ [ToFar!Next]_(ToFar!vars)
  <2> SUFFICES ASSUME IInv, EndIsFinal, [Next]_vars
               PROVE  [ToNear!Next]_(ToNear!vars) /\ [ToFar!Next]_(ToFar!vars)
    OBVIOUS
  <2>1. "near" \in Ends /\ "far" \in Ends /\ Other("near") = "far" /\ Other("far") = "near"
    BY DEF Ends, Other
  <2>2. [ToNear!Next]_(ToNear!vars)
    BY <2>1, DirectionStep
       DEF ToNear!Next, ToNear!vars, ToNear!Write, ToNear!Deliver, ToNear!Fail
  <2>3. [ToFar!Next]_(ToFar!vars)
    BY <2>1, DirectionStep
       DEF ToFar!Next, ToFar!vars, ToFar!Write, ToFar!Deliver, ToFar!Fail
  <2> QED BY <2>2, <2>3
<1> QED
  BY <1>1, <1>2, <1>3, Invariant, PTL
     DEF Spec, ImplementsChannels, ToNear!Spec, ToFar!Spec
=============================================================================
