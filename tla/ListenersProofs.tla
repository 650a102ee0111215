-------------------------- MODULE ListenersProofs --------------------------
(***************************************************************************)
(* Proofs of the invariants of Listeners for every set of listens and       *)
(* clients, every URL and every backlog.  The invariant has two halves: what *)
(* is behind the addresses (FilesInv), which only listen, close and drop    *)
(* change, and where the connections are (ConnsInv), which needs of the other *)
(* half only that whoever is behind an address listens there.               *)
(***************************************************************************)
EXTENDS Listeners, TLAPS

FileTypes ==
  /\ transport \in Transports
  /\ owner \in [Addresses -> Listens \cup {Nobody, Stale}]
  /\ lpc \in [Listens -> {"new", "unlinked", "open", "failed", "dropped"}]
  /\ closed \subseteq Listens
  /\ overlapped \subseteq SUBSET Listens

ConnTypes ==
  /\ queue \in [Listens -> Seq(Clients)]
  /\ \A l \in Listens : Len(queue[l]) <= Backlog
  /\ setup \in [Listens -> Clients \cup {Nobody}]
  /\ transport # "ws" => \A l \in Listens : setup[l] = Nobody
  /\ accepted \in [Listens -> SUBSET Clients]
  /\ lost \subseteq Clients /\ dropped \subseteq lost
  /\ cpc \in [Clients -> {"new", "connecting", "open", "refused", "gone"}]

(* Who is behind an address listens there, and every listener that got past the
   parser has a valid URL. *)
OwnersListen ==
  /\ \A a \in Addresses, l \in Listens : owner[a] = l => lpc[l] = "open" /\ Addr(l) = a
  /\ \A l \in Listens : lpc[l] \in {"unlinked", "open", "dropped"} => url[l].valid

(* Two listens were between their two steps together. *)
Met(l, m) == {l, m} \in overlapped

(* While an IPC listen is between its two steps, those that are there with it
   have met it, and whoever has taken its path is one of them. *)
Unlinked ==
  /\ \A l \in Listens : lpc[l] = "unlinked" => transport = "ipc"
  /\ \A l, m \in Listens :
       lpc[l] = "unlinked" /\ lpc[m] = "unlinked" /\ l # m /\ Addr(l) = Addr(m) =>
         Met(l, m)
  /\ \A l \in Listens :
       lpc[l] = "unlinked" /\ owner[Addr(l)] # Nobody => \E m \in Listens \ {l} : Met(l, m)

(* BindFailsOnlyInRace, with Met. *)
Raced ==
  \A l \in Listens :
    transport = "ipc" /\ url[l].valid /\ lpc[l] = "failed" => \E m \in Listens \ {l} : Met(l, m)

FilesInv ==
  FileTypes /\ OwnersListen /\ Unlinked /\ CutOffOnlyByOthers /\ Raced

(* x is in q; nobody is twice in q. *)
In(x, q) == \E i \in 1 .. Len(q) : q[i] = x
Distinct(q) == \A i, j \in 1 .. Len(q) : q[i] = q[j] => i = j

(* The places of a connection exclude each other and lie at its address. *)
OnePlace ==
  /\ \A l \in Listens : Distinct(queue[l])
  /\ \A c \in Clients : \A l, m \in Listens :
       /\ Queued(c, l) => /\ Queued(c, m) => l = m
                          /\ setup[m] # c /\ c \notin accepted[m] /\ c \notin lost
       /\ setup[l] = c => /\ setup[m] = c => l = m
                          /\ c \notin accepted[m] /\ c \notin lost
       /\ c \in accepted[l] => /\ c \in accepted[m] => l = m
                               /\ c \notin lost

(* A client is at a listener; it has arrived somewhere exactly if connect has
   reached a listener, and everywhere it is, is its address. *)
At(c, l) == Queued(c, l) \/ setup[l] = c \/ c \in accepted[l]
Arrived(c) == c \in lost \/ \E l \in Listens : At(c, l)

Arrivals ==
  \A c \in Clients :
    /\ \A l \in Listens : At(c, l) => Addr(l) = Addr(c)
    /\ cpc[c] = "new" => ~Arrived(c)
    /\ cpc[c] \in {"connecting", "open", "gone"} => Arrived(c)

ConnsInv == ConnTypes /\ OnePlace /\ Arrivals

IInv == FilesInv /\ ConnsInv
----------------------------------------------------------------------------
(* Every listener and client has an address, and keeps it: the transport never
   changes. *)
LEMMA AddrFacts ==
  /\ \A p \in Listens \cup Clients : Addr(p) \in Addresses
  /\ transport' = transport => \A p : Addr(p)' = Addr(p)
  /\ \A l, m : Met(l, m) <=> Met(m, l)
  /\ overlapped \subseteq overlapped' => \A l, m : Met(l, m) => Met(l, m)'
<1>1. \A p \in Listens \cup Clients : Addr(p) \in Addresses
  BY DEF Addr, Addresses
<1>2. transport' = transport => \A p : Addr(p)' = Addr(p)
  BY DEF Addr
<1>3. \A l, m : {l, m} = {m, l}
  OBVIOUS
<1>4. \A l, m : Met(l, m) <=> Met(m, l)
  BY <1>3 DEF Met
<1>5. overlapped \subseteq overlapped' => \A l, m : Met(l, m) => Met(l, m)'
  BY DEF Met
<1> QED BY <1>1, <1>2, <1>4, <1>5

(* The model values are no listeners. *)
LEMMA Values ==
  /\ Nobody \notin Listens /\ Nobody \notin Clients /\ Stale \notin Listens
  /\ Nobody # Stale
  BY ListenersAssumption

(* What does not touch the files keeps their invariant. *)
LEMMA FilesFrame ==
  FilesInv /\ UNCHANGED <<transport, files>> => FilesInv'
<1> SUFFICES ASSUME FilesInv, UNCHANGED <<transport, files>> PROVE FilesInv'
  OBVIOUS
<1>1. UNCHANGED <<transport, owner, lpc, closed, overlapped>>
  BY DEF files
<1>2. \A p : Addr(p)' = Addr(p) /\ \A m : Met(p, m) => Met(p, m)'
  BY <1>1, AddrFacts
<1>3. FileTypes' /\ OwnersListen'
  BY <1>1, <1>2 DEF FilesInv, FileTypes, OwnersListen
<1>4. Unlinked'
  BY <1>1, <1>2 DEF FilesInv, Unlinked
<1>5. CutOffOnlyByOthers' /\ Raced'
  BY <1>1, <1>2 DEF FilesInv, CutOffOnlyByOthers, Raced
<1> QED BY <1>3, <1>4, <1>5 DEF FilesInv

(* bind, for a listen that may have waited between its two steps. *)
LEMMA BindStep ==
  ASSUME FilesInv, NEW l \in Listens, Bind(l), url[l].valid,
         lpc[l] \in {"new", "unlinked"},
         transport = "ipc" => lpc[l] = "unlinked"
  PROVE  FilesInv'
<1> USE Values
<1>1. /\ Addr(l) \in Addresses
      /\ \A p : Addr(p)' = Addr(p) /\ \A m : Met(p, m) => Met(p, m)'
      /\ UNCHANGED <<transport, closed, overlapped>>
  BY AddrFacts DEF Bind
<1> USE <1>1
<1>2. /\ owner \in [Addresses -> Listens \cup {Nobody, Stale}]
      /\ lpc \in [Listens -> {"new", "unlinked", "open", "failed", "dropped"}]
  BY DEF FilesInv, FileTypes
<1>3. CASE owner[Addr(l)] = Nobody
  <2>1. /\ lpc' = [lpc EXCEPT ![l] = "open"]
        /\ owner' = [owner EXCEPT ![Addr(l)] = l]
    BY <1>3 DEF Bind
  <2>2. /\ \A k \in Listens : lpc'[k] = IF k = l THEN "open" ELSE lpc[k]
        /\ \A a \in Addresses : owner'[a] = IF a = Addr(l) THEN l ELSE owner[a]
    BY <1>2, <2>1
  <2>3. FileTypes'
    BY <1>2, <2>1 DEF FilesInv, FileTypes
  <2>4. OwnersListen'
    BY <1>3, <2>2 DEF FilesInv, OwnersListen
  <2>5. Unlinked'
    BY <2>2, AddrFacts DEF FilesInv, Unlinked
  <2>6. CutOffOnlyByOthers'
    BY <1>3, <2>2, AddrFacts DEF FilesInv, CutOffOnlyByOthers
  <2>7. Raced'
    BY <2>2 DEF FilesInv, Raced
  <2> QED BY <2>3, <2>4, <2>5, <2>6, <2>7 DEF FilesInv
<1>4. CASE owner[Addr(l)] # Nobody
  <2>1. lpc' = [lpc EXCEPT ![l] = "failed"] /\ owner' = owner
    BY <1>4 DEF Bind
  <2>2. \A k \in Listens : lpc'[k] = IF k = l THEN "failed" ELSE lpc[k]
    BY <1>2, <2>1
  <2>3. FileTypes'
    BY <1>2, <2>1 DEF FilesInv, FileTypes
  <2>4. OwnersListen'
    BY <2>1, <2>2 DEF FilesInv, OwnersListen
  <2>5. Unlinked'
    BY <2>1, <2>2 DEF FilesInv, Unlinked
  <2>6. CutOffOnlyByOthers'
    BY <2>1, <2>2 DEF FilesInv, CutOffOnlyByOthers
  <2>7. transport = "ipc" => \E m \in Listens \ {l} : Met(l, m)
    BY <1>4 DEF FilesInv, Unlinked
  <2>8. Raced'
    BY <2>1, <2>2, <2>7 DEF FilesInv, Raced
  <2> QED BY <2>3, <2>4, <2>5, <2>6, <2>8 DEF FilesInv
<1> QED BY <1>3, <1>4

(* The first step of listen of IPC. *)
LEMMA UnlinkStep ==
  ASSUME FilesInv, NEW l \in Listens, listen_unlink(l)
  PROVE  FilesInv'
<1> USE Values
<1>1. /\ Addr(l) \in Addresses
      /\ \A p : Addr(p)' = Addr(p) /\ \A m : Met(p, m) => Met(p, m)'
      /\ UNCHANGED <<transport, closed>>
      /\ transport = "ipc" /\ url[l].valid /\ lpc[l] = "new"
  BY AddrFacts DEF listen_unlink
<1> USE <1>1
<1>2. /\ owner \in [Addresses -> Listens \cup {Nobody, Stale}]
      /\ lpc \in [Listens -> {"new", "unlinked", "open", "failed", "dropped"}]
  BY DEF FilesInv, FileTypes
<1>3. /\ lpc' = [lpc EXCEPT ![l] = "unlinked"]
      /\ owner' = [owner EXCEPT ![Addr(l)] = Nobody]
      /\ overlapped' = overlapped \cup Overlaps(l)
  BY DEF listen_unlink
<1>4. /\ \A k \in Listens : lpc'[k] = IF k = l THEN "unlinked" ELSE lpc[k]
      /\ \A a \in Addresses : owner'[a] = IF a = Addr(l) THEN Nobody ELSE owner[a]
  BY <1>2, <1>3
<1>5. FileTypes'
  BY <1>2, <1>3 DEF FilesInv, FileTypes, Overlaps
<1>6. OwnersListen'
  BY <1>4 DEF FilesInv, OwnersListen
<1>7. Unlinked'
  <2>1. \A k \in Listens : lpc[k] = "unlinked" /\ Addr(k) = Addr(l) =>
          Met(l, k)'
    BY <1>3 DEF Overlaps, Met
  <2>2. \A k : Met(l, k)' <=> Met(k, l)'
    <3>1. \A k : {l, k} = {k, l}
      OBVIOUS
    <3> QED BY <3>1 DEF Met
  <2>4. \A k \in Listens : lpc'[k] = "unlinked" => transport' = "ipc"
    OBVIOUS
  <2>5. \A k, m \in Listens :
          lpc'[k] = "unlinked" /\ lpc'[m] = "unlinked" /\ k # m /\ Addr(k) = Addr(m) =>
            Met(k, m)'
    BY <1>4, <2>1, <2>2 DEF FilesInv, Unlinked
  <2>6. \A k \in Listens :
          lpc'[k] = "unlinked" /\ owner'[Addr(k)] # Nobody =>
            \E m \in Listens \ {k} : Met(k, m)'
    BY <1>4, AddrFacts DEF FilesInv, Unlinked
  <2> QED BY <2>4, <2>5, <2>6 DEF Unlinked
<1>8. CutOffOnlyByOthers'
  BY <1>4, AddrFacts DEF FilesInv, CutOffOnlyByOthers
<1>9. Raced'
  BY <1>3, <1>4 DEF FilesInv, Raced
<1> QED BY <1>5, <1>6, <1>7, <1>8, <1>9 DEF FilesInv

(* A URL that does not parse. *)
LEMMA InvalidStep ==
  ASSUME FilesInv, NEW l \in Listens, listen_invalid(l)
  PROVE  FilesInv'
<1>1. /\ \A p : Addr(p)' = Addr(p) /\ \A m : Met(p, m) => Met(p, m)'
      /\ UNCHANGED <<transport, owner, closed, overlapped>>
      /\ ~url[l].valid /\ lpc[l] = "new"
      /\ lpc' = [lpc EXCEPT ![l] = "failed"]
  BY AddrFacts DEF listen_invalid
<1>2. lpc \in [Listens -> {"new", "unlinked", "open", "failed", "dropped"}]
  BY DEF FilesInv, FileTypes
<1>3. \A k \in Listens : lpc'[k] = IF k = l THEN "failed" ELSE lpc[k]
  BY <1>1, <1>2
<1>4. FileTypes'
  BY <1>1, <1>2 DEF FilesInv, FileTypes
<1>5. OwnersListen'
  BY <1>1, <1>3 DEF FilesInv, OwnersListen
<1>6. Unlinked'
  BY <1>1, <1>3 DEF FilesInv, Unlinked
<1>7. CutOffOnlyByOthers'
  BY <1>1, <1>3 DEF FilesInv, CutOffOnlyByOthers
<1>8. Raced'
  BY <1>1, <1>3 DEF FilesInv, Raced
<1> QED BY <1>4, <1>5, <1>6, <1>7, <1>8 DEF FilesInv

(* close of any listener: whoever was behind its path is cut off by it. *)
LEMMA CloseStep ==
  ASSUME FilesInv, NEW l \in Listens, close_ipc(l) \/ close_tcp(l)
  PROVE  FilesInv'
<1> USE Values
<1>1. /\ Addr(l) \in Addresses
      /\ \A p : Addr(p)' = Addr(p) /\ \A m : Met(p, m) => Met(p, m)'
      /\ UNCHANGED <<transport, lpc, overlapped>>
      /\ lpc[l] = "open" /\ url[l].valid
      /\ closed' = closed \cup {l}
  BY AddrFacts DEF close_ipc, close_tcp, FilesInv, OwnersListen
<1>2. owner \in [Addresses -> Listens \cup {Nobody, Stale}]
  BY DEF FilesInv, FileTypes
<1>3. CASE owner' = owner
  <2>1. FileTypes' /\ OwnersListen'
    BY <1>1, <1>3 DEF FilesInv, FileTypes, OwnersListen
  <2>2. Unlinked'
    BY <1>1, <1>3 DEF FilesInv, Unlinked
  <2>3. CutOffOnlyByOthers' /\ Raced'
    BY <1>1, <1>3 DEF FilesInv, CutOffOnlyByOthers, Raced
  <2> QED BY <2>1, <2>2, <2>3 DEF FilesInv
<1>4. CASE transport = "ipc" /\ owner' = [owner EXCEPT ![Addr(l)] = Nobody]
  <2>1. \A a \in Addresses : owner'[a] = IF a = Addr(l) THEN Nobody ELSE owner[a]
    BY <1>2, <1>4
  <2>2. FileTypes'
    BY <1>1, <1>2, <1>4 DEF FilesInv, FileTypes
  <2>3. OwnersListen'
    BY <1>1, <2>1 DEF FilesInv, OwnersListen
  <2>4. Unlinked'
    BY <1>1, <2>1, AddrFacts DEF FilesInv, Unlinked
  <2>5. CutOffOnlyByOthers'
    BY <1>1, <1>4, <2>1, AddrFacts DEF FilesInv, CutOffOnlyByOthers
  <2>6. Raced'
    BY <1>1 DEF FilesInv, Raced
  <2> QED BY <2>2, <2>3, <2>4, <2>5, <2>6 DEF FilesInv
<1> QED BY <1>3, <1>4 DEF close_ipc, close_tcp

(* A listener is dropped: it leaves its own address, and no other. *)
LEMMA DropFiles ==
  ASSUME FilesInv, NEW l \in Listens, drop(l)
  PROVE  FilesInv'
<1> USE Values
<1>1. /\ \A p : Addr(p)' = Addr(p) /\ \A m : Met(p, m) => Met(p, m)'
      /\ UNCHANGED <<transport, closed, overlapped>>
      /\ lpc[l] = "open"
      /\ lpc' = [lpc EXCEPT ![l] = "dropped"]
      /\ owner' = [a \in Addresses |->
                     IF owner[a] # l THEN owner[a]
                     ELSE IF transport = "ipc" THEN Stale ELSE Nobody]
  BY AddrFacts DEF drop
<1>2. /\ owner \in [Addresses -> Listens \cup {Nobody, Stale}]
      /\ lpc \in [Listens -> {"new", "unlinked", "open", "failed", "dropped"}]
  BY DEF FilesInv, FileTypes
<1>3. \A k \in Listens : lpc'[k] = IF k = l THEN "dropped" ELSE lpc[k]
  BY <1>1, <1>2
<1>4. \A a \in Addresses :
        owner'[a] = IF owner[a] # l THEN owner[a]
                    ELSE IF transport = "ipc" THEN Stale ELSE Nobody
  BY <1>1
<1>5. FileTypes'
  BY <1>1, <1>2 DEF FilesInv, FileTypes
<1>6. OwnersListen'
  BY <1>1, <1>3, <1>4 DEF FilesInv, OwnersListen
<1>7. Unlinked'
  BY <1>1, <1>3, <1>4, AddrFacts DEF FilesInv, Unlinked
<1>8. CutOffOnlyByOthers'
  BY <1>1, <1>3, <1>4, AddrFacts DEF FilesInv, CutOffOnlyByOthers
<1>9. Raced'
  BY <1>1, <1>3 DEF FilesInv, Raced
<1> QED BY <1>5, <1>6, <1>7, <1>8, <1>9 DEF FilesInv
----------------------------------------------------------------------------
(* The oldest connection is taken out of a queue. *)
LEMMA TailFacts ==
  ASSUME NEW S, NEW q \in Seq(S), q # <<>>, Distinct(q)
  PROVE  /\ Head(q) \in S /\ Tail(q) \in Seq(S) /\ Len(Tail(q)) <= Len(q)
         /\ Distinct(Tail(q))
         /\ In(Head(q), q)
         /\ \A x : In(x, Tail(q)) <=> In(x, q) /\ x # Head(q)
<1>1. PICK n \in Nat : n = Len(q)
  OBVIOUS
<1>2. /\ Len(q) > 0 /\ Head(q) = q[1] /\ Head(q) \in S
      /\ Tail(q) \in Seq(S) /\ Len(Tail(q)) = n - 1
      /\ \A i \in 1 .. (n - 1) : Tail(q)[i] = q[i + 1]
  BY <1>1
<1>3. Distinct(Tail(q))
  BY <1>1, <1>2 DEF Distinct
<1>4. In(Head(q), q)
  BY <1>1, <1>2 DEF In
<1>5. ASSUME NEW x PROVE In(x, Tail(q)) <=> In(x, q) /\ x # Head(q)
  <2>1. ASSUME In(x, Tail(q)) PROVE In(x, q) /\ x # Head(q)
    <3>1. PICK i \in 1 .. (n - 1) : Tail(q)[i] = x
      BY <1>2, <2>1 DEF In
    <3>2. i + 1 \in 1 .. n /\ 1 \in 1 .. n /\ i + 1 # 1 /\ q[i + 1] = x
      BY <1>1, <1>2, <3>1
    <3> QED BY <1>1, <1>2, <3>2 DEF In, Distinct
  <2>2. ASSUME In(x, q), x # Head(q) PROVE In(x, Tail(q))
    <3>1. PICK i \in 1 .. n : q[i] = x
      BY <1>1, <2>2 DEF In
    <3>2. i # 1
      BY <1>2, <2>2, <3>1
    <3>3. i - 1 \in 1 .. (n - 1) /\ (i - 1) + 1 = i
      BY <1>1, <3>1, <3>2
    <3>4. Tail(q)[i - 1] = x
      BY <1>2, <3>1, <3>3
    <3> QED BY <1>2, <3>3, <3>4 DEF In
  <2> QED BY <2>1, <2>2
<1> QED BY <1>1, <1>2, <1>3, <1>4, <1>5

(* A connection that is not in a queue is appended to it. *)
LEMMA AppendFacts ==
  ASSUME NEW S, NEW q \in Seq(S), NEW c \in S, ~In(c, q), Distinct(q)
  PROVE  /\ Append(q, c) \in Seq(S) /\ Len(Append(q, c)) = Len(q) + 1
         /\ Distinct(Append(q, c))
         /\ \A x : In(x, Append(q, c)) <=> In(x, q) \/ x = c
<1>1. PICK n \in Nat : n = Len(q)
  OBVIOUS
<1> DEFINE r == Append(q, c)
<1>2. /\ r \in Seq(S) /\ Len(r) = n + 1 /\ r[n + 1] = c
      /\ \A i \in 1 .. n : r[i] = q[i]
  BY <1>1
<1> HIDE DEF r
<1>3. \A i \in 1 .. (n + 1) : i \in 1 .. n \/ i = n + 1
  OBVIOUS
<1>4. \A i \in 1 .. n : i \in 1 .. (n + 1) /\ i # n + 1 /\ q[i] # c
  BY <1>1 DEF In
<1>5. n + 1 \in 1 .. (n + 1)
  OBVIOUS
<1>6. Distinct(r)
  BY <1>1, <1>2, <1>3, <1>4 DEF Distinct
<1>7. \A x : In(x, r) <=> In(x, q) \/ x = c
  BY <1>1, <1>2, <1>3, <1>4, <1>5 DEF In
<1> QED BY <1>1, <1>2, <1>6, <1>7 DEF r

(* What does not touch the connections keeps their invariant. *)
LEMMA ConnsFrame ==
  ASSUME ConnsInv, UNCHANGED <<transport, conns>>
  PROVE  ConnsInv'
<1>1. UNCHANGED <<transport, queue, setup, accepted, lost, cpc, dropped>>
  BY DEF conns
<1>2. \A p : Addr(p)' = Addr(p)
  BY <1>1, AddrFacts
<1>3. \A c, l : (Queued(c, l)' <=> Queued(c, l)) /\ (At(c, l)' <=> At(c, l))
  BY <1>1 DEF Queued, At, In
<1>4. \A c : Arrived(c)' <=> Arrived(c)
  BY <1>1, <1>3 DEF Arrived
<1>5. ConnTypes'
  BY <1>1 DEF ConnsInv, ConnTypes
<1>6. OnePlace'
  BY <1>1, <1>3 DEF ConnsInv, OnePlace
<1>7. Arrivals'
  BY <1>1, <1>2, <1>3, <1>4 DEF ConnsInv, Arrivals
<1> QED BY <1>5, <1>6, <1>7 DEF ConnsInv

(* A client reaches a listener at its address. *)
LEMMA EnqueueStep ==
  ASSUME FilesInv, ConnsInv, NEW c \in Clients,
         NEW state \in {"connecting", "open"}, Enqueue(c, state)
  PROVE  ConnsInv'
<1>1. PICK l \in Listens : Reaches(c, l) /\ queue' = [queue EXCEPT ![l] = Append(@, c)]
  BY DEF Enqueue
<1>2. /\ UNCHANGED <<transport, lpc, setup, accepted, lost, dropped>>
      /\ cpc' = [cpc EXCEPT ![c] = state] /\ cpc[c] = "new"
  BY DEF Enqueue, files
<1>3. /\ queue \in [Listens -> Seq(Clients)]
      /\ cpc \in [Clients -> {"new", "connecting", "open", "refused", "gone"}]
  BY DEF ConnsInv, ConnTypes
<1>4. \A p : Addr(p)' = Addr(p)
  BY <1>2, AddrFacts
<1>5. Addr(l) = Addr(c)
  BY <1>1, AddrFacts DEF Reaches, FilesInv, OwnersListen
<1>6. /\ ~Arrived(c)
      /\ c \notin lost
      /\ \A k \in Listens : ~Queued(c, k) /\ setup[k] # c /\ c \notin accepted[k]
  BY <1>2 DEF ConnsInv, Arrivals, Arrived, At
<1>7. /\ queue' \in [Listens -> Seq(Clients)]
      /\ \A k \in Listens : queue'[k] = IF k = l THEN Append(queue[l], c) ELSE queue[k]
  BY <1>1, <1>3
<1>8. /\ ~In(c, queue[l]) /\ Distinct(queue[l]) /\ queue[l] \in Seq(Clients)
  BY <1>3, <1>6 DEF Queued, In, ConnsInv, OnePlace
<1>9. /\ Len(Append(queue[l], c)) = Len(queue[l]) + 1
      /\ Distinct(Append(queue[l], c))
      /\ \A x : In(x, Append(queue[l], c)) <=> In(x, queue[l]) \/ x = c
  BY <1>8, AppendFacts
<1>10. \A x : \A k \in Listens : Queued(x, k)' <=> Queued(x, k) \/ (x = c /\ k = l)
  BY <1>7, <1>9 DEF Queued, In
<1>11. \A x \in Clients : cpc'[x] = IF x = c THEN state ELSE cpc[x]
  BY <1>2, <1>3
<1>12. ConnTypes'
  <2>1. \A k \in Listens : Len(queue[k]) \in Nat /\ Len(queue[k]) <= Backlog
    BY <1>3 DEF ConnsInv, ConnTypes
  <2>2. Len(queue[l]) + 1 <= Backlog
    BY <1>1, <2>1, ListenersAssumption DEF Reaches
  <2>3. \A k \in Listens : Len(queue'[k]) <= Backlog
    BY <1>7, <1>9, <2>1, <2>2
  <2>4. cpc' \in [Clients -> {"new", "connecting", "open", "refused", "gone"}]
    BY <1>2, <1>3
  <2> QED BY <1>2, <1>7, <2>3, <2>4 DEF ConnsInv, ConnTypes
<1>13. OnePlace'
  <2>1. \A k \in Listens : Distinct(queue[k])'
    BY <1>7, <1>9 DEF ConnsInv, OnePlace
  <2>2. ASSUME NEW x \in Clients, NEW k \in Listens, NEW m \in Listens
        PROVE  /\ Queued(x, k)' => /\ Queued(x, m)' => k = m
                                   /\ setup'[m] # x /\ x \notin accepted'[m] /\ x \notin lost'
               /\ setup'[k] = x => /\ setup'[m] = x => k = m
                                   /\ x \notin accepted'[m] /\ x \notin lost'
               /\ x \in accepted'[k] => /\ x \in accepted'[m] => k = m
                                        /\ x \notin lost'
    BY <1>2, <1>6, <1>10 DEF ConnsInv, OnePlace
  <2> QED BY <2>1, <2>2 DEF OnePlace
<1>14. \A x : \A k \in Listens : At(x, k)' <=> At(x, k) \/ (x = c /\ k = l)
  BY <1>2, <1>10 DEF At
<1>15. \A x : Arrived(x)' <=> Arrived(x) \/ x = c
  BY <1>2, <1>14 DEF Arrived
<1>16. Arrivals'
  BY <1>4, <1>5, <1>11, <1>14, <1>15 DEF ConnsInv, Arrivals
<1> QED BY <1>12, <1>13, <1>16 DEF ConnsInv

(* A client gives up, or goes. *)
LEMMA LeaveStep ==
  ASSUME ConnsInv, NEW c \in Clients, connect_err(c) \/ disconnect(c)
  PROVE  ConnsInv'
<1>1. PICK state \in {"refused", "gone"} :
        /\ cpc' = [cpc EXCEPT ![c] = state]
        /\ state = "gone" => cpc[c] \in {"connecting", "open"}
  BY DEF connect_err, disconnect
<1>2. UNCHANGED <<transport, lpc, queue, setup, accepted, lost, dropped>>
  BY DEF connect_err, disconnect, files
<1>3. cpc \in [Clients -> {"new", "connecting", "open", "refused", "gone"}]
  BY DEF ConnsInv, ConnTypes
<1>4. \A x \in Clients : cpc'[x] = IF x = c THEN state ELSE cpc[x]
  BY <1>1, <1>3
<1>5. \A p : Addr(p)' = Addr(p)
  BY <1>2, AddrFacts
<1>6. \A x, l : (Queued(x, l)' <=> Queued(x, l)) /\ (At(x, l)' <=> At(x, l))
  BY <1>2 DEF Queued, At, In
<1>7. \A x : Arrived(x)' <=> Arrived(x)
  BY <1>2, <1>6 DEF Arrived
<1>8. ConnTypes'
  BY <1>1, <1>2, <1>3 DEF ConnsInv, ConnTypes
<1>9. OnePlace'
  BY <1>2, <1>6 DEF ConnsInv, OnePlace
<1>10. Arrivals'
  <2>1. \A x \in Clients :
          /\ cpc'[x] = "new" => cpc[x] = "new"
          /\ cpc'[x] \in {"connecting", "open", "gone"} =>
               cpc[x] \in {"connecting", "open", "gone"}
    BY <1>1, <1>4
  <2> QED BY <1>5, <1>6, <1>7, <2>1 DEF ConnsInv, Arrivals
<1> QED BY <1>8, <1>9, <1>10 DEF ConnsInv

(* accept takes the oldest connection out of a queue. *)
LEMMA HeadFacts ==
  ASSUME ConnsInv, NEW l \in Listens, queue[l] # <<>>,
         queue' = [queue EXCEPT ![l] = Tail(@)]
  PROVE  /\ Head(queue[l]) \in Clients /\ Queued(Head(queue[l]), l)
         /\ queue' \in [Listens -> Seq(Clients)]
         /\ \A k \in Listens : Len(queue'[k]) <= Backlog /\ Distinct(queue[k])'
         /\ \A x : \A k \in Listens :
              Queued(x, k)' <=> Queued(x, k) /\ ~(x = Head(queue[l]) /\ k = l)
<1>1. /\ queue \in [Listens -> Seq(Clients)]
      /\ \A k \in Listens : Len(queue[k]) <= Backlog /\ Distinct(queue[k])
  BY DEF ConnsInv, ConnTypes, OnePlace
<1>2. /\ queue' \in [Listens -> Seq(Clients)]
      /\ \A k \in Listens : queue'[k] = IF k = l THEN Tail(queue[l]) ELSE queue[k]
  BY <1>1
<1>3. queue[l] \in Seq(Clients) /\ Distinct(queue[l])
  BY <1>1
<1>4. /\ Head(queue[l]) \in Clients
      /\ Len(Tail(queue[l])) <= Len(queue[l])
      /\ Distinct(Tail(queue[l]))
      /\ In(Head(queue[l]), queue[l])
      /\ \A x : In(x, Tail(queue[l])) <=> In(x, queue[l]) /\ x # Head(queue[l])
  BY <1>3, TailFacts
<1>5. \A x : \A k \in Listens :
        Queued(x, k)' <=> Queued(x, k) /\ ~(x = Head(queue[l]) /\ k = l)
  <2>1. \A x, k : Queued(x, k) <=> In(x, queue[k])
    BY DEF Queued, In
  <2>2. \A x, k : Queued(x, k)' <=> In(x, queue'[k])
    BY DEF Queued, In
  <2> QED BY <1>2, <1>4, <2>1, <2>2
<1>6. Len(queue[l]) \in Nat /\ Len(Tail(queue[l])) \in Nat /\ Backlog \in Nat
  BY <1>3, ListenersAssumption
<1>7. \A k \in Listens : Len(queue'[k]) <= Backlog
  BY <1>1, <1>2, <1>4, <1>6
<1> QED BY <1>1, <1>2, <1>4, <1>5, <1>7 DEF Queued, In

(* accept of TCP and IPC returns the connection. *)
LEMMA HandStep ==
  ASSUME ConnsInv, NEW l \in Listens, Hand(l)
  PROVE  ConnsInv'
<1> DEFINE c == Head(queue[l])
<1>1. /\ UNCHANGED <<transport, lpc, setup, lost, cpc, dropped>>
      /\ accepted' = [accepted EXCEPT ![l] = @ \cup {c}]
      /\ queue[l] # <<>> /\ queue' = [queue EXCEPT ![l] = Tail(@)]
  BY DEF Hand, Accepting, files
<1>2. /\ c \in Clients /\ Queued(c, l)
      /\ queue' \in [Listens -> Seq(Clients)]
      /\ \A k \in Listens : Len(queue'[k]) <= Backlog /\ Distinct(queue[k])'
      /\ \A x : \A k \in Listens : Queued(x, k)' <=> Queued(x, k) /\ ~(x = c /\ k = l)
  BY <1>1, HeadFacts
<1> HIDE DEF c
<1>3. accepted \in [Listens -> SUBSET Clients]
  BY DEF ConnsInv, ConnTypes
<1>4. \A k \in Listens : accepted'[k] = IF k = l THEN accepted[l] \cup {c} ELSE accepted[k]
  BY <1>1, <1>3
<1>5. \A p : Addr(p)' = Addr(p)
  BY <1>1, AddrFacts
<1>6. ConnTypes'
  BY <1>1, <1>2, <1>3 DEF ConnsInv, ConnTypes
<1>7. OnePlace'
  <2>1. ASSUME NEW x \in Clients, NEW k \in Listens, NEW m \in Listens
        PROVE  /\ Queued(x, k)' => /\ Queued(x, m)' => k = m
                                   /\ setup'[m] # x /\ x \notin accepted'[m] /\ x \notin lost'
               /\ setup'[k] = x => /\ setup'[m] = x => k = m
                                   /\ x \notin accepted'[m] /\ x \notin lost'
               /\ x \in accepted'[k] => /\ x \in accepted'[m] => k = m
                                        /\ x \notin lost'
    BY <1>1, <1>2, <1>4 DEF ConnsInv, OnePlace
  <2> QED BY <1>2, <2>1 DEF OnePlace
<1>8. \A x : \A k \in Listens : At(x, k)' <=> At(x, k)
  BY <1>1, <1>2, <1>4 DEF At
<1>9. \A x : Arrived(x)' <=> Arrived(x)
  BY <1>1, <1>8 DEF Arrived
<1>10. Arrivals'
  BY <1>1, <1>5, <1>8, <1>9 DEF ConnsInv, Arrivals
<1> QED BY <1>6, <1>7, <1>10 DEF ConnsInv

(* accept of TCP drops the connection of a client that has gone. *)
LEMMA ConfigErrStep ==
  ASSUME ConnsInv, NEW l \in Listens, apply_config_err(l)
  PROVE  ConnsInv'
<1> DEFINE c == Head(queue[l])
<1>1. /\ UNCHANGED <<transport, lpc, setup, accepted, cpc, dropped>>
      /\ lost' = lost \cup {c} /\ cpc[c] = "gone"
      /\ queue[l] # <<>> /\ queue' = [queue EXCEPT ![l] = Tail(@)]
  BY DEF apply_config_err, Accepting, files
<1>2. /\ c \in Clients /\ Queued(c, l)
      /\ queue' \in [Listens -> Seq(Clients)]
      /\ \A k \in Listens : Len(queue'[k]) <= Backlog /\ Distinct(queue[k])'
      /\ \A x : \A k \in Listens : Queued(x, k)' <=> Queued(x, k) /\ ~(x = c /\ k = l)
  BY <1>1, HeadFacts
<1> HIDE DEF c
<1>3. \A p : Addr(p)' = Addr(p)
  BY <1>1, AddrFacts
<1>4. ConnTypes'
  BY <1>1, <1>2 DEF ConnsInv, ConnTypes
<1>5. OnePlace'
  <2>1. ASSUME NEW x \in Clients, NEW k \in Listens, NEW m \in Listens
        PROVE  /\ Queued(x, k)' => /\ Queued(x, m)' => k = m
                                   /\ setup'[m] # x /\ x \notin accepted'[m] /\ x \notin lost'
               /\ setup'[k] = x => /\ setup'[m] = x => k = m
                                   /\ x \notin accepted'[m] /\ x \notin lost'
               /\ x \in accepted'[k] => /\ x \in accepted'[m] => k = m
                                        /\ x \notin lost'
    BY <1>1, <1>2 DEF ConnsInv, OnePlace
  <2> QED BY <1>2, <2>1 DEF OnePlace
<1>6. \A x : \A k \in Listens : At(x, k)' => At(x, k)
  BY <1>1, <1>2 DEF At
<1>7. \A x : \A k \in Listens : At(x, k) => At(x, k)' \/ x = c
  BY <1>1, <1>2 DEF At
<1>8. \A x \in Clients : Arrived(x)' <=> Arrived(x)
  BY <1>1, <1>2, <1>6, <1>7 DEF Arrived, At
<1>9. Arrivals'
  BY <1>1, <1>3, <1>6, <1>8 DEF ConnsInv, Arrivals
<1> QED BY <1>4, <1>5, <1>9 DEF ConnsInv

(* accept of WebSocket takes the connection into its handshake. *)
LEMMA AcceptWsStep ==
  ASSUME ConnsInv, NEW l \in Listens, accept_ws(l)
  PROVE  ConnsInv'
<1> DEFINE c == Head(queue[l])
<1>1. /\ UNCHANGED <<transport, lpc, accepted, lost, cpc, dropped>>
      /\ transport = "ws" /\ setup[l] = Nobody
      /\ setup' = [setup EXCEPT ![l] = c]
      /\ queue[l] # <<>> /\ queue' = [queue EXCEPT ![l] = Tail(@)]
  BY DEF accept_ws, Accepting, files
<1>2. /\ c \in Clients /\ Queued(c, l)
      /\ queue' \in [Listens -> Seq(Clients)]
      /\ \A k \in Listens : Len(queue'[k]) <= Backlog /\ Distinct(queue[k])'
      /\ \A x : \A k \in Listens : Queued(x, k)' <=> Queued(x, k) /\ ~(x = c /\ k = l)
  BY <1>1, HeadFacts
<1> HIDE DEF c
<1>3. setup \in [Listens -> Clients \cup {Nobody}]
  BY DEF ConnsInv, ConnTypes
<1>4. \A k \in Listens : setup'[k] = IF k = l THEN c ELSE setup[k]
  BY <1>1, <1>3
<1>5. \A p : Addr(p)' = Addr(p)
  BY <1>1, AddrFacts
<1>6. ConnTypes'
  BY <1>1, <1>2, <1>3 DEF ConnsInv, ConnTypes
<1>7. OnePlace'
  <2>1. ASSUME NEW x \in Clients, NEW k \in Listens, NEW m \in Listens
        PROVE  /\ Queued(x, k)' => /\ Queued(x, m)' => k = m
                                   /\ setup'[m] # x /\ x \notin accepted'[m] /\ x \notin lost'
               /\ setup'[k] = x => /\ setup'[m] = x => k = m
                                   /\ x \notin accepted'[m] /\ x \notin lost'
               /\ x \in accepted'[k] => /\ x \in accepted'[m] => k = m
                                        /\ x \notin lost'
    BY <1>1, <1>2, <1>4 DEF ConnsInv, OnePlace
  <2> QED BY <1>2, <2>1 DEF OnePlace
<1>8. \A x \in Clients : \A k \in Listens : At(x, k)' <=> At(x, k)
  BY <1>1, <1>2, <1>4, Values DEF At
<1>9. \A x \in Clients : Arrived(x)' <=> Arrived(x)
  BY <1>1, <1>8 DEF Arrived
<1>10. Arrivals'
  BY <1>1, <1>5, <1>8, <1>9 DEF ConnsInv, Arrivals
<1> QED BY <1>6, <1>7, <1>10 DEF ConnsInv

(* The handshake succeeds: the connection is handed over. *)
LEMMA HandshakeStep ==
  ASSUME ConnsInv, NEW l \in Listens, handshake(l)
  PROVE  ConnsInv'
<1> DEFINE c == setup[l]
<1>1. /\ UNCHANGED <<transport, lpc, queue, lost, dropped>>
      /\ c # Nobody /\ cpc[c] = "connecting"
      /\ accepted' = [accepted EXCEPT ![l] = @ \cup {c}]
      /\ setup' = [setup EXCEPT ![l] = Nobody]
      /\ cpc' = [cpc EXCEPT ![c] = "open"]
  BY DEF handshake, files
<1>2. /\ setup \in [Listens -> Clients \cup {Nobody}]
      /\ accepted \in [Listens -> SUBSET Clients]
      /\ cpc \in [Clients -> {"new", "connecting", "open", "refused", "gone"}]
  BY DEF ConnsInv, ConnTypes
<1>3. c \in Clients /\ setup[l] = c
  BY <1>1, <1>2
<1> HIDE DEF c
<1>4. /\ \A k \in Listens : setup'[k] = IF k = l THEN Nobody ELSE setup[k]
      /\ \A k \in Listens : accepted'[k] = IF k = l THEN accepted[l] \cup {c} ELSE accepted[k]
      /\ \A x \in Clients : cpc'[x] = IF x = c THEN "open" ELSE cpc[x]
  BY <1>1, <1>2
<1>5. \A p : Addr(p)' = Addr(p)
  BY <1>1, AddrFacts
<1>6. \A x, k : Queued(x, k)' <=> Queued(x, k)
  BY <1>1 DEF Queued
<1>7. ConnTypes'
  BY <1>1, <1>2, <1>3 DEF ConnsInv, ConnTypes
<1>8. \A k \in Listens : Distinct(queue[k])'
  BY <1>1 DEF ConnsInv, OnePlace
<1>9. OnePlace'
  <2>1. ASSUME NEW x \in Clients, NEW k \in Listens, NEW m \in Listens
        PROVE  /\ Queued(x, k)' => /\ Queued(x, m)' => k = m
                                   /\ setup'[m] # x /\ x \notin accepted'[m] /\ x \notin lost'
               /\ setup'[k] = x => /\ setup'[m] = x => k = m
                                   /\ x \notin accepted'[m] /\ x \notin lost'
               /\ x \in accepted'[k] => /\ x \in accepted'[m] => k = m
                                        /\ x \notin lost'
    BY <1>1, <1>3, <1>4, <1>6, Values DEF ConnsInv, OnePlace
  <2> QED BY <1>8, <2>1 DEF OnePlace
<1>10. \A x \in Clients : \A k \in Listens : At(x, k)' <=> At(x, k)
  BY <1>1, <1>3, <1>4, <1>6, Values DEF At
<1>11. \A x \in Clients : Arrived(x)' <=> Arrived(x)
  BY <1>1, <1>10 DEF Arrived
<1>12. Arrivals'
  BY <1>1, <1>4, <1>5, <1>10, <1>11 DEF ConnsInv, Arrivals
<1> QED BY <1>7, <1>9, <1>12 DEF ConnsInv

(* The handshake fails, or the future of accept is dropped in it. *)
LEMMA HandshakeLost ==
  ASSUME ConnsInv, NEW l \in Listens, handshake_err(l) \/ cancel(l)
  PROVE  ConnsInv'
<1> DEFINE c == setup[l]
<1>1. /\ UNCHANGED <<transport, lpc, queue, accepted, cpc>>
      /\ c # Nobody
      /\ lost' = lost \cup {c}
      /\ setup' = [setup EXCEPT ![l] = Nobody]
      /\ dropped' = dropped \/ dropped' = dropped \cup {c}
  BY DEF handshake_err, cancel, files
<1>2. setup \in [Listens -> Clients \cup {Nobody}]
  BY DEF ConnsInv, ConnTypes
<1>3. c \in Clients /\ setup[l] = c /\ transport = "ws"
  BY <1>1, <1>2 DEF ConnsInv, ConnTypes
<1> HIDE DEF c
<1>4. \A k \in Listens : setup'[k] = IF k = l THEN Nobody ELSE setup[k]
  BY <1>1, <1>2
<1>5. \A p : Addr(p)' = Addr(p)
  BY <1>1, AddrFacts
<1>6. \A x, k : Queued(x, k)' <=> Queued(x, k)
  BY <1>1 DEF Queued
<1>7. ConnTypes'
  BY <1>1, <1>2, <1>3 DEF ConnsInv, ConnTypes
<1>8. \A k \in Listens : Distinct(queue[k])'
  BY <1>1 DEF ConnsInv, OnePlace
<1>9. OnePlace'
  <2>1. ASSUME NEW x \in Clients, NEW k \in Listens, NEW m \in Listens
        PROVE  /\ Queued(x, k)' => /\ Queued(x, m)' => k = m
                                   /\ setup'[m] # x /\ x \notin accepted'[m] /\ x \notin lost'
               /\ setup'[k] = x => /\ setup'[m] = x => k = m
                                   /\ x \notin accepted'[m] /\ x \notin lost'
               /\ x \in accepted'[k] => /\ x \in accepted'[m] => k = m
                                        /\ x \notin lost'
    BY <1>1, <1>3, <1>4, <1>6, Values DEF ConnsInv, OnePlace
  <2> QED BY <1>8, <2>1 DEF OnePlace
<1>10. \A x \in Clients : \A k \in Listens : At(x, k)' => At(x, k)
  BY <1>1, <1>3, <1>4, <1>6, Values DEF At
<1>11. \A x \in Clients : \A k \in Listens : At(x, k) => At(x, k)' \/ x = c
  BY <1>1, <1>3, <1>4, <1>6 DEF At
<1>12. \A x \in Clients : Arrived(x)' <=> Arrived(x)
  BY <1>1, <1>3, <1>10, <1>11 DEF Arrived, At
<1>13. Arrivals'
  BY <1>1, <1>5, <1>10, <1>12 DEF ConnsInv, Arrivals
<1> QED BY <1>7, <1>9, <1>13 DEF ConnsInv

(* A listener is dropped with what it has not handed over. *)
LEMMA DropConns ==
  ASSUME FilesInv, ConnsInv, NEW l \in Listens, drop(l)
  PROVE  ConnsInv'
<1> DEFINE L == {c \in Clients : c = setup[l] \/ Queued(c, l)}
<1>1. /\ UNCHANGED <<transport, accepted, cpc, dropped>>
      /\ lost' = lost \cup L
      /\ queue' = [queue EXCEPT ![l] = <<>>]
      /\ setup' = [setup EXCEPT ![l] = Nobody]
      /\ lpc' = [lpc EXCEPT ![l] = "dropped"]
  BY DEF drop
<1>2. /\ setup \in [Listens -> Clients \cup {Nobody}]
      /\ queue \in [Listens -> Seq(Clients)]
      /\ \A k \in Listens : Len(queue[k]) <= Backlog
      /\ \A k \in Listens : Distinct(queue[k])
      /\ lpc \in [Listens -> {"new", "unlinked", "open", "failed", "dropped"}]
  BY DEF ConnsInv, ConnTypes, OnePlace, FilesInv, FileTypes
<1>3. \A x : x \in L <=> x \in Clients /\ (setup[l] = x \/ Queued(x, l))
  OBVIOUS
<1> HIDE DEF L
<1>4. /\ \A k \in Listens : setup'[k] = IF k = l THEN Nobody ELSE setup[k]
      /\ \A k \in Listens : queue'[k] = IF k = l THEN <<>> ELSE queue[k]
      /\ \A k \in Listens : lpc'[k] = IF k = l THEN "dropped" ELSE lpc[k]
  BY <1>1, <1>2
<1>5. \A p : Addr(p)' = Addr(p)
  BY <1>1, AddrFacts
<1>6. /\ \A x : ~In(x, <<>>)
      /\ Distinct(<<>>)
      /\ Len(<<>>) <= Backlog
  BY ListenersAssumption DEF In, Distinct
<1>7. \A x : \A k \in Listens : Queued(x, k)' <=> Queued(x, k) /\ k # l
  BY <1>4, <1>6 DEF Queued, In
<1>8. \A k \in Listens : Distinct(queue[k])'
  BY <1>2, <1>4, <1>6
<1>9. ConnTypes'
  <2>1. queue' \in [Listens -> Seq(Clients)] /\ setup' \in [Listens -> Clients \cup {Nobody}]
    BY <1>1, <1>2
  <2>2. \A k \in Listens : Len(queue'[k]) <= Backlog
    BY <1>2, <1>4, <1>6
  <2>3. lost' \subseteq Clients /\ dropped' \subseteq lost'
    BY <1>1, <1>3 DEF ConnsInv, ConnTypes
  <2> QED BY <1>1, <1>4, <2>1, <2>2, <2>3 DEF ConnsInv, ConnTypes
<1>10. OnePlace'
  <2>1. ASSUME NEW x \in Clients, NEW k \in Listens, NEW m \in Listens
        PROVE  /\ Queued(x, k)' => /\ Queued(x, m)' => k = m
                                   /\ setup'[m] # x /\ x \notin accepted'[m] /\ x \notin lost'
               /\ setup'[k] = x => /\ setup'[m] = x => k = m
                                   /\ x \notin accepted'[m] /\ x \notin lost'
               /\ x \in accepted'[k] => /\ x \in accepted'[m] => k = m
                                        /\ x \notin lost'
    BY <1>1, <1>3, <1>4, <1>7, Values DEF ConnsInv, OnePlace
  <2> QED BY <1>8, <2>1 DEF OnePlace
<1>11. \A x \in Clients : \A k \in Listens : At(x, k)' => At(x, k)
  BY <1>1, <1>4, <1>7, Values DEF At
<1>12. \A x \in Clients : \A k \in Listens : At(x, k) => At(x, k)' \/ x \in L
  BY <1>1, <1>3, <1>4, <1>7 DEF At
<1>13. \A x \in L : x \in Clients /\ At(x, l)
  BY <1>3 DEF At
<1>14. \A x \in Clients : Arrived(x)' <=> Arrived(x)
  BY <1>1, <1>11, <1>12, <1>13 DEF Arrived
<1>15. Arrivals'
  BY <1>1, <1>5, <1>11, <1>14 DEF ConnsInv, Arrivals
<1>16. \A x \in L : lpc'[l] = "dropped" /\ Addr(l) = Addr(x)
  BY <1>4, <1>13 DEF ConnsInv, Arrivals
<1> QED BY <1>9, <1>10, <1>15 DEF ConnsInv

----------------------------------------------------------------------------
(* The initial states satisfy the invariant. *)
LEMMA InitIInv == Init => IInv
<1> SUFFICES ASSUME Init PROVE IInv
  OBVIOUS
<1> USE Values DEF Init
<1>1. /\ owner \in [Addresses -> Listens \cup {Nobody, Stale}]
      /\ \A a \in Addresses : owner[a] \notin Listens
  OBVIOUS
<1>2. FileTypes /\ OwnersListen
  BY <1>1 DEF FileTypes, OwnersListen
<1>3. Unlinked /\ CutOffOnlyByOthers /\ Raced
  BY DEF Unlinked, CutOffOnlyByOthers, Raced
<1>4. /\ \A l \in Listens : Len(queue[l]) <= Backlog /\ Distinct(queue[l])
      /\ \A x : \A l \in Listens : ~Queued(x, l)
  BY ListenersAssumption DEF Distinct, Queued
<1>5. ConnTypes
  BY <1>4 DEF ConnTypes
<1>6. OnePlace
  BY <1>4 DEF OnePlace
<1>7. \A x \in Clients : ~Arrived(x) /\ \A l \in Listens : ~At(x, l)
  BY <1>4 DEF Arrived, At
<1>8. Arrivals
  BY <1>7 DEF Arrivals
<1> QED BY <1>2, <1>3, <1>5, <1>6, <1>8 DEF IInv, FilesInv, ConnsInv

(* A step of listen, close or drop keeps the invariant of the files. *)
LEMMA FileSteps ==
  ASSUME FilesInv, NEW l \in Listens,
         Listen(l) \/ close_ipc(l) \/ close_tcp(l) \/ drop(l)
  PROVE  FilesInv'
<1>1. CASE listen_tcp(l) \/ listen_ws(l)
  BY <1>1, BindStep DEF listen_tcp, listen_ws
<1>2. CASE listen_bind(l)
  BY <1>2, BindStep DEF listen_bind, FilesInv, OwnersListen
<1>3. CASE listen_unlink(l)
  BY <1>3, UnlinkStep
<1>4. CASE listen_invalid(l)
  BY <1>4, InvalidStep
<1>5. CASE close_ipc(l) \/ close_tcp(l)
  BY <1>5, CloseStep
<1>6. CASE drop(l)
  BY <1>6, DropFiles
<1> QED BY <1>1, <1>2, <1>3, <1>4, <1>5, <1>6 DEF Listen

(* listen and close leave the connections alone. *)
LEMMA ListenFrame ==
  ASSUME NEW l \in Listens, Listen(l) \/ close_ipc(l) \/ close_tcp(l)
  PROVE  UNCHANGED <<transport, conns>>
  BY DEF Listen, listen_tcp, listen_ws, listen_unlink, listen_bind, listen_invalid, Bind,
         close_ipc, close_tcp

(* connect and accept leave the listeners alone. *)
LEMMA ConnFrame ==
  /\ \A l \in Listens : Accept(l) \/ cancel(l) => UNCHANGED <<transport, files>>
  /\ \A c \in Clients :
       connect_tcp(c) \/ connect_ipc(c) \/ connect_ws(c) \/ connect_err(c) \/ disconnect(c)
         => UNCHANGED <<transport, files>>
<1>1. \A l \in Listens : Accept(l) \/ cancel(l) => UNCHANGED <<transport, files>>
  BY Zenon DEF Accept, accept_ipc, accept_tcp, Hand, apply_config_err, accept_ws,
               handshake, handshake_err, cancel
<1>2. \A c \in Clients :
       connect_tcp(c) \/ connect_ipc(c) \/ connect_ws(c) \/ connect_err(c) \/ disconnect(c)
         => UNCHANGED <<transport, files>>
  BY Zenon DEF connect_tcp, connect_ipc, connect_ws, connect_err, disconnect, Enqueue
<1> QED BY <1>1, <1>2

(* Every step keeps the invariant. *)
LEMMA NextIInv == IInv /\ [Next]_vars => IInv'
<1> SUFFICES ASSUME IInv, [Next]_vars PROVE IInv'
  OBVIOUS
<1>1. FilesInv /\ ConnsInv
  BY DEF IInv
<1>2. CASE UNCHANGED vars
  <2>1. UNCHANGED <<transport, files>> /\ UNCHANGED <<transport, conns>>
    BY <1>2 DEF vars
  <2> QED BY <1>1, <2>1, FilesFrame, ConnsFrame DEF IInv
<1>3. ASSUME NEW l \in Listens, Listen(l) \/ close_ipc(l) \/ close_tcp(l)
      PROVE  IInv'
  BY <1>1, <1>3, FileSteps, ListenFrame, ConnsFrame DEF IInv
<1>4. ASSUME NEW l \in Listens, drop(l)
      PROVE  IInv'
  BY <1>1, <1>4, FileSteps, DropConns DEF IInv
<1>5. ASSUME NEW l \in Listens, Accept(l) \/ cancel(l)
      PROVE  IInv'
  <2>1. FilesInv'
    BY <1>1, <1>5, ConnFrame, FilesFrame
  <2>2. ConnsInv'
    BY <1>1, <1>5, HandStep, ConfigErrStep, AcceptWsStep, HandshakeStep, HandshakeLost
      DEF Accept, accept_ipc, accept_tcp
  <2> QED BY <2>1, <2>2 DEF IInv
<1>6. ASSUME NEW c \in Clients,
             connect_tcp(c) \/ connect_ipc(c) \/ connect_ws(c) \/ connect_err(c) \/ disconnect(c)
      PROVE  IInv'
  <2>1. FilesInv'
    BY <1>1, <1>6, ConnFrame, FilesFrame
  <2>2. ConnsInv'
    BY <1>1, <1>6, EnqueueStep, LeaveStep DEF connect_tcp, connect_ipc, connect_ws
  <2> QED BY <2>1, <2>2 DEF IInv
<1> QED BY <1>2, <1>3, <1>4, <1>5, <1>6 DEF Next

(* The invariant says where every connection is. *)
LEMMA PlacesFacts ==
  ASSUME IInv, NEW c \in Clients
  PROVE  /\ \A p, q \in Places(c) : p = q
         /\ Arrived(c) <=> Places(c) # {}
         /\ \A p \in Places(c) : Len(p) > 1 => Addr(p[2]) = Addr(c)
<1> DEFINE A(p) == \E l \in Listens : \E i \in 1 .. Backlog :
                     /\ p = <<"queue", l, i>> /\ i <= Len(queue[l]) /\ queue[l][i] = c
           B(p) == \E l \in Listens : p = <<"setup", l>> /\ setup[l] = c
           C(p) == \E l \in Listens : p = <<"accepted", l>> /\ c \in accepted[l]
           D(p) == p = <<"lost">> /\ c \in lost
<1>1. \A p : p \in Places(c) <=> A(p) \/ B(p) \/ C(p) \/ D(p)
  <2> DEFINE Q == {p \in {"queue"} \X Listens \X (1 .. Backlog) :
                     p[3] <= Len(queue[p[2]]) /\ queue[p[2]][p[3]] = c}
  <2>1. \A p : p \in Q <=> A(p)
    OBVIOUS
  <2>2. \A p : p \in {<<"setup", l>> : l \in {k \in Listens : setup[k] = c}} <=> B(p)
    OBVIOUS
  <2>3. \A p : p \in {<<"accepted", l>> : l \in {k \in Listens : c \in accepted[k]}} <=> C(p)
    OBVIOUS
  <2>4. \A p : p \in {<<"lost">> : d \in {c} \cap lost} <=> D(p)
    OBVIOUS
  <2> HIDE DEF A, B, C, D
  <2> QED BY <2>1, <2>2, <2>3, <2>4 DEF Places
<1>2. /\ queue \in [Listens -> Seq(Clients)]
      /\ \A l \in Listens : Len(queue[l]) <= Backlog /\ Distinct(queue[l])
      /\ Backlog \in Nat
  BY ListenersAssumption DEF IInv, ConnsInv, ConnTypes, OnePlace
<1>3. \A l \in Listens : \A i \in 1 .. Backlog :
        i <= Len(queue[l]) /\ queue[l][i] = c => i \in 1 .. Len(queue[l]) /\ Queued(c, l)
  BY <1>2 DEF Queued
<1>4. \A l, m \in Listens :
       /\ Queued(c, l) => /\ Queued(c, m) => l = m
                          /\ setup[m] # c /\ c \notin accepted[m] /\ c \notin lost
       /\ setup[l] = c => /\ setup[m] = c => l = m
                          /\ c \notin accepted[m] /\ c \notin lost
       /\ c \in accepted[l] => /\ c \in accepted[m] => l = m
                               /\ c \notin lost
  BY DEF IInv, ConnsInv, OnePlace
<1>5. \A p : A(p) => \E l \in Listens : Queued(c, l)
  BY <1>3
<1>6. \A p, q : A(p) /\ A(q) => p = q
  <2> SUFFICES ASSUME NEW p, NEW q, A(p), A(q) PROVE p = q
    OBVIOUS
  <2>1. PICK l \in Listens, i \in 1 .. Backlog :
          p = <<"queue", l, i>> /\ i <= Len(queue[l]) /\ queue[l][i] = c
    OBVIOUS
  <2>2. PICK m \in Listens, j \in 1 .. Backlog :
          q = <<"queue", m, j>> /\ j <= Len(queue[m]) /\ queue[m][j] = c
    OBVIOUS
  <2>3. l = m
    BY <1>3, <1>4, <2>1, <2>2
  <2>4. i = j
    BY <1>2, <1>3, <2>1, <2>2, <2>3 DEF Distinct
  <2> QED BY <2>1, <2>2, <2>3, <2>4
<1>7. \A p, q : (A(p) \/ B(p) \/ C(p) \/ D(p)) /\ (A(q) \/ B(q) \/ C(q) \/ D(q)) => p = q
  <2>1. \A p : B(p) => \E l \in Listens : setup[l] = c
    OBVIOUS
  <2>2. \A p : C(p) => \E l \in Listens : c \in accepted[l]
    OBVIOUS
  <2>3. \A p : D(p) => c \in lost
    OBVIOUS
  <2>4. \A p, q : B(p) /\ B(q) => p = q
    BY <1>4
  <2>5. \A p, q : C(p) /\ C(q) => p = q
    BY <1>4
  <2>6. \A p, q : D(p) /\ D(q) => p = q
    OBVIOUS
  <2> HIDE DEF A, B, C, D
  <2> QED BY <1>4, <1>5, <1>6, <2>1, <2>2, <2>3, <2>4, <2>5, <2>6
<1>8. Arrived(c) <=> \E p : A(p) \/ B(p) \/ C(p) \/ D(p)
  <2>1. ASSUME NEW l \in Listens, Queued(c, l) PROVE \E p : A(p)
    <3>1. PICK i \in 1 .. Len(queue[l]) : queue[l][i] = c
      BY <2>1 DEF Queued
    <3>2. i \in 1 .. Backlog /\ i <= Len(queue[l])
      BY <1>2
    <3>3. A(<<"queue", l, i>>)
      BY <3>1, <3>2
    <3> QED BY <3>3
  <2>2. ASSUME NEW l \in Listens, setup[l] = c PROVE \E p : B(p)
    <3>1. B(<<"setup", l>>)
      BY <2>2
    <3> QED BY <3>1
  <2>3. ASSUME NEW l \in Listens, c \in accepted[l] PROVE \E p : C(p)
    <3>1. C(<<"accepted", l>>)
      BY <2>3
    <3> QED BY <3>1
  <2>4. ASSUME c \in lost PROVE \E p : D(p)
    BY <2>4
  <2>5. \A p : B(p) => \E l \in Listens : setup[l] = c
    OBVIOUS
  <2>6. \A p : C(p) => \E l \in Listens : c \in accepted[l]
    OBVIOUS
  <2>7. \A p : D(p) => c \in lost
    OBVIOUS
  <2> HIDE DEF A, B, C, D
  <2> QED BY <1>5, <2>1, <2>2, <2>3, <2>4, <2>5, <2>6, <2>7 DEF Arrived, At
<1>9. ASSUME NEW p, A(p) \/ B(p) \/ C(p) \/ D(p), Len(p) > 1
      PROVE  Addr(p[2]) = Addr(c)
  <2>1. \A l \in Listens : Queued(c, l) \/ setup[l] = c \/ c \in accepted[l] =>
          Addr(l) = Addr(c)
    BY DEF IInv, ConnsInv, Arrivals, At
  <2>2. ~D(p)
    <3>1. Len(<<"lost">>) = 1
      OBVIOUS
    <3>2. ~(1 > 1)
      OBVIOUS
    <3> QED BY <1>9, <3>1, <3>2, Zenon
  <2>3. A(p) => \E l \in Listens : p[2] = l /\ Queued(c, l)
    BY <1>3
  <2>4. B(p) => \E l \in Listens : p[2] = l /\ setup[l] = c
    OBVIOUS
  <2>5. C(p) => \E l \in Listens : p[2] = l /\ c \in accepted[l]
    OBVIOUS
  <2> HIDE DEF A, B, C, D
  <2> QED BY <1>9, <2>1, <2>2, <2>3, <2>4, <2>5
<1> HIDE DEF A, B, C, D
<1> QED BY <1>1, <1>7, <1>8, <1>9

(* The invariant holds in every reachable state: listen, close and drop of any
   number of listeners, interleaved with connect and accept. *)
THEOREM Invariant == Spec => []IInv
  BY InitIInv, NextIInv, PTL DEF Spec

(* Types; only a WebSocket listener is ever in a handshake, and no queue is
   longer than the operating system allows. *)
THEOREM TypeCorrect == Spec => []TypeOK
<1>1. IInv => TypeOK
  BY DEF IInv, FilesInv, FileTypes, ConnsInv, ConnTypes, TypeOK
<1> QED BY <1>1, Invariant, PTL

(* An open listener is behind its address unless an IPC listen or close at the
   same path has cut it off. *)
THEOREM OnlyOthersCutOff == Spec => []CutOffOnlyByOthers
<1>1. IInv => CutOffOnlyByOthers
  BY DEF IInv, FilesInv
<1> QED BY <1>1, Invariant, PTL

(* listen of IPC with a valid URL fails only in a race of two listens. *)
THEOREM OnlyRacesFailBind == Spec => []BindFailsOnlyInRace
<1>1. IInv => BindFailsOnlyInRace
  BY DEF IInv, FilesInv, Raced, Met, BindFailsOnlyInRace
<1> QED BY <1>1, Invariant, PTL

(* A connection is in one place, at the address its client asked for, from the
   moment connect has reached a listener, whatever its client does then. *)
THEOREM ConnectionsAreConserved == Spec => []ConnectionsConserved
<1>1. IInv => ConnectionsConserved
  <2> SUFFICES ASSUME IInv, NEW c \in Clients
               PROVE  /\ \A p, q \in Places(c) : p = q
                      /\ cpc[c] \in {"connecting", "open", "gone"} => Places(c) # {}
                      /\ cpc[c] = "new" => Places(c) = {}
                      /\ \A p \in Places(c) : Len(p) > 1 => Addr(p[2]) = Addr(c)
    BY DEF ConnectionsConserved
  <2>1. /\ cpc[c] \in {"connecting", "open", "gone"} => Arrived(c)
        /\ cpc[c] = "new" => ~Arrived(c)
    BY DEF IInv, ConnsInv, Arrivals
  <2> QED BY <2>1, PlacesFacts
<1> QED BY <1>1, Invariant, PTL
=============================================================================
