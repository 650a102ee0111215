----------------------- MODULE ChannelRegistryProofs -----------------------
(***************************************************************************)
(* Proofs of the invariants of ChannelRegistry for every set of callers and *)
(* names, every capacity and any number of bytes; and, in the second half,  *)
(* of StdioChild for every capacity of its pipes.                           *)
(***************************************************************************)
EXTENDS ChannelRegistry, StdioState, TLAPS, FiniteSetTheorems

(* Types, and nobody writes more than it has to write. *)
Types ==
  /\ pc \in [Callers -> {"idle", "missed", "open", "dropped"}]
  /\ name \in [Callers -> Names]
  /\ registry \in [Names -> Seq(Callers)]
  /\ held \in [Callers -> Callers \cup {Nobody}]
  /\ connected \in [Callers -> BOOLEAN] /\ shut \in [Callers -> BOOLEAN]
  /\ sent \in [Callers -> Nat] /\ got \in [Callers -> Nat]
  /\ eof \in [Callers -> BOOLEAN]
  /\ overlap \subseteq SUBSET Callers
  /\ \A c \in Callers : sent[c] <= MaxBytes[c]

(* Who has connected has a half. *)
Owned == \A c \in Callers : held[c] = Nobody <=> pc[c] \in {"idle", "missed"}

(* A half that waits is the second of a duplex whose creator has the first, and
   nobody else has any; it waits once, under the creator's name. *)
Slots ==
  \A n \in Names :
    /\ \A i \in 1 .. Len(registry[n]) :
         /\ held[registry[n][i]] = registry[n][i]
         /\ name[registry[n][i]] = n
         /\ \A c \in Callers : held[c] = registry[n][i] => c = registry[n][i]
    /\ \A i, j \in 1 .. Len(registry[n]) : registry[n][i] = registry[n][j] => i = j

Waits(d) == \E i \in 1 .. Len(registry[name[d]]) : registry[name[d]][i] = d

(* A half that is held belongs to a duplex whose creator asked for the same
   name; it has at most one taker, and one if it does not wait. *)
Takers ==
  /\ \A c \in Callers : held[c] # Nobody =>
       held[held[c]] = held[c] /\ name[held[c]] = name[c]
  /\ \A b, c, d \in Callers :
       b # d /\ c # d /\ held[b] = d /\ held[c] = d => b = c
  /\ \A d \in Callers : held[d] = d => Waits(d) \/ \E c \in Callers : c # d /\ held[c] = d

(* Whoever found nobody waiting has met all those that wait now. *)
Races ==
  \A c \in Callers : pc[c] = "missed" =>
    \A i \in 1 .. Len(registry[name[c]]) : {c, registry[name[c]][i]} \in overlap

(* Nothing is written before connect returns, and nothing is read alone. *)
Alone(c) == \A d \in Callers : ~Peers(c, d)
Quiet ==
  \A c \in Callers :
    /\ pc[c] \in {"idle", "missed"} => sent[c] = 0 /\ ~shut[c]
    /\ Alone(c) => got[c] = 0 /\ ~eof[c] /\ sent[c] <= Capacity

IInv ==
  /\ Types /\ Owned /\ Slots /\ Takers /\ Races /\ Quiet
  /\ OnlyRacesPark /\ ReadsWhatWasWritten

----------------------------------------------------------------------------
(* Nobody has connected. *)
LEMMA InitIInv == Init => IInv
<1> SUFFICES ASSUME Init PROVE IInv
  OBVIOUS
<1>1. \A c \in Callers : held[c] = Nobody /\ pc[c] = "idle" /\ sent[c] = 0 /\ got[c] = 0
  BY DEF Init
<1>2. \A c \in Callers : ~shut[c] /\ ~eof[c]
  BY Zenon DEF Init
<1>3. \A n \in Names : registry[n] = <<>>
  BY DEF Init
<1>4. Types
  <2>1. /\ connected \in [Callers -> BOOLEAN] /\ shut \in [Callers -> BOOLEAN]
        /\ eof \in [Callers -> BOOLEAN]
    BY Zenon DEF Init
  <2> QED BY <2>1, ChannelAssumption DEF Init, Types
<1>5. Owned /\ Takers
  BY <1>1, ChannelAssumption DEF Owned, Takers
<1>6. Slots /\ OnlyRacesPark
  BY <1>3 DEF Slots, OnlyRacesPark
<1>7. Races
  BY <1>1 DEF Races
<1>8. Quiet
  <2>1. \A c \in Callers : sent[c] <= Capacity
    BY <1>1, ChannelAssumption
  <2> QED BY <1>1, <1>2, <2>1 DEF Quiet
<1>9. ReadsWhatWasWritten
  BY <1>1 DEF ReadsWhatWasWritten, Peers
<1> QED BY <1>4, <1>5, <1>6, <1>7, <1>8, <1>9 DEF IInv

(* A duplex has two halves: nobody has two counterparts. *)
LEMMA OnePeer ==
  ASSUME IInv, NEW c \in Callers, NEW d \in Callers, NEW e \in Callers,
         Peers(c, d), Peers(c, e)
  PROVE  d = e
<1> DEFINE k == held[c]
<1>1. /\ k \in Callers /\ held[d] = k /\ held[e] = k /\ d # c /\ e # c
      /\ held[k] = k
  BY DEF IInv, Takers, Peers, Types
<1>2. \A a, b \in Callers : a # k /\ b # k /\ held[a] = k /\ held[b] = k => a = b
  BY <1>1 DEF IInv, Takers
<1>3. held[c] = k
  OBVIOUS
<1> HIDE DEF k
<1> QED BY <1>1, <1>2, <1>3

(* Being counterparts is mutual. *)
LEMMA PeersSymmetric ==
  ASSUME NEW c, NEW d
  PROVE  Peers(c, d) <=> Peers(d, c)
  BY DEF Peers

----------------------------------------------------------------------------
(* What an endpoint does once it is open leaves the registry alone. *)
LEMMA RegistryFrame ==
  ASSUME IInv, NEW c \in Callers,
         pc' = pc \/ (pc[c] = "open" /\ pc' = [pc EXCEPT ![c] = "dropped"]),
         UNCHANGED <<name, registry, held, overlap>>
  PROVE  /\ Owned' /\ Slots' /\ Takers' /\ Races' /\ OnlyRacesPark'
         /\ pc' \in [Callers -> {"idle", "missed", "open", "dropped"}]
         /\ \A d \in Callers : pc'[d] \in {"idle", "missed"} => pc[d] = pc'[d]
<1>1. /\ pc' \in [Callers -> {"idle", "missed", "open", "dropped"}]
      /\ \A d \in Callers : pc'[d] = pc[d] \/ (pc[d] = "open" /\ pc'[d] = "dropped")
  BY DEF IInv, Types
<1>2. Owned'
  BY <1>1 DEF IInv, Owned
<1>3. Slots' /\ OnlyRacesPark'
  <2>1. Slots'
    BY DEF IInv, Slots
  <2>2. OnlyRacesPark'
    BY DEF IInv, OnlyRacesPark
  <2> QED BY <2>1, <2>2
<1>4. Takers'
  BY DEF IInv, Takers, Waits
<1>5. Races'
  <2>1. \A d \in Callers : pc'[d] = "missed" => pc[d] = "missed"
    BY <1>1
  <2> QED BY <2>1 DEF IInv, Races
<1> QED BY <1>1, <1>2, <1>3, <1>4, <1>5

(* close, poll_shutdown and drop. *)
LEMMA LeaveStep ==
  ASSUME IInv, NEW c \in Callers, close(c) \/ poll_shutdown(c) \/ drop(c)
  PROVE  IInv'
<1>1. /\ pc[c] = "open" /\ UNCHANGED <<name, registry, held, overlap, sent, got, eof>>
      /\ pc' = pc \/ pc' = [pc EXCEPT ![c] = "dropped"]
  BY DEF close, poll_shutdown, drop
<1>2. connected' \in [Callers -> BOOLEAN]
  BY Zenon DEF close, poll_shutdown, drop, IInv, Types
<1>3. /\ shut' \in [Callers -> BOOLEAN]
      /\ \A d \in Callers : shut[d] => shut'[d]
      /\ \A d \in Callers : d # c => shut'[d] = shut[d]
  BY Zenon DEF close, poll_shutdown, drop, IInv, Types
<1>4. /\ Owned' /\ Slots' /\ Takers' /\ Races' /\ OnlyRacesPark'
      /\ pc' \in [Callers -> {"idle", "missed", "open", "dropped"}]
      /\ \A d \in Callers : pc'[d] \in {"idle", "missed"} => pc[d] = pc'[d]
  BY <1>1, RegistryFrame
<1>5. Types'
  BY <1>1, <1>2, <1>3, <1>4 DEF IInv, Types
<1>6. Quiet'
  BY <1>1, <1>3, <1>4 DEF IInv, Quiet, Alone, Peers
<1>7. ReadsWhatWasWritten'
  BY <1>1, <1>3 DEF IInv, ReadsWhatWasWritten, Peers
<1> QED BY <1>4, <1>5, <1>6, <1>7 DEF IInv

(* poll_write accepts a byte only while the buffer towards the other half has
   room, and nothing after the write half was shut down. *)
LEMMA WriteStep ==
  ASSUME IInv, NEW c \in Callers, poll_write(c)
  PROVE  IInv'
<1>1. /\ pc[c] = "open" /\ ~shut[c] /\ sent[c] < MaxBytes[c]
      /\ \A d \in Callers : Peers(c, d) => sent[c] - got[d] < Capacity
      /\ Alone(c) => sent[c] < Capacity
      /\ sent' = [sent EXCEPT ![c] = @ + 1]
      /\ UNCHANGED <<pc, name, registry, held, connected, shut, got, eof, overlap>>
  BY DEF poll_write, Alone
<1>2. /\ sent' \in [Callers -> Nat] /\ sent'[c] = sent[c] + 1 /\ sent[c] \in Nat
      /\ \A d \in Callers : d # c => sent'[d] = sent[d]
  BY <1>1 DEF IInv, Types
<1>3. Owned' /\ Slots' /\ Takers' /\ Races' /\ OnlyRacesPark'
  BY <1>1, RegistryFrame
<1>4. Types'
  <2>1. \A d \in Callers : sent'[d] <= MaxBytes[d]
    BY <1>1, <1>2, ChannelAssumption DEF IInv, Types
  <2> QED BY <1>1, <1>2, <2>1 DEF IInv, Types
<1>5. Quiet'
  <2>1. \A d \in Callers : Alone(d)' <=> Alone(d)
    BY <1>1 DEF Alone, Peers
  <2>2. Alone(c) => sent'[c] <= Capacity
    BY <1>1, <1>2, ChannelAssumption
  <2> QED BY <1>1, <1>2, <2>1, <2>2 DEF IInv, Quiet
<1>6. ReadsWhatWasWritten'
  <2> SUFFICES ASSUME NEW a \in Callers, NEW d \in Callers, Peers(a, d)
               PROVE  /\ got[a] <= sent'[d] /\ sent'[d] - got[a] <= Capacity
                      /\ eof[a] => shut[d] /\ got[a] = sent'[d]
    BY <1>1 DEF ReadsWhatWasWritten, Peers
  <2>1. /\ got[a] <= sent[d] /\ sent[d] - got[a] <= Capacity
        /\ eof[a] => shut[d] /\ got[a] = sent[d]
    BY DEF IInv, ReadsWhatWasWritten
  <2>2. CASE d # c
    BY <1>2, <2>1, <2>2
  <2>3. CASE d = c
    <3>1. sent[c] - got[a] < Capacity
      BY <1>1, <2>3, PeersSymmetric
    <3>2. ~eof[a]
      BY <1>1, <2>1, <2>3
    <3>3. got[a] \in Nat /\ Capacity \in Nat
      BY ChannelAssumption DEF IInv, Types
    <3>4. got[a] <= sent'[c] /\ sent'[c] - got[a] <= Capacity
      BY <1>2, <2>1, <2>3, <3>1, <3>3
    <3> QED BY <2>3, <3>2, <3>4
  <2> QED BY <2>2, <2>3
<1> QED BY <1>3, <1>4, <1>5, <1>6 DEF IInv

(* poll_read takes a byte that the counterpart wrote, or the end after all of
   them. *)
LEMMA ReadStep ==
  ASSUME IInv, NEW c \in Callers, poll_read(c)
  PROVE  IInv'
<1>1. PICK d \in Callers :
        /\ Peers(c, d)
        /\ \/ /\ got[c] < sent[d]
              /\ got' = [got EXCEPT ![c] = @ + 1] /\ eof' = eof
           \/ /\ got[c] = sent[d] /\ shut[d] /\ ~eof[c]
              /\ eof' = [eof EXCEPT ![c] = TRUE] /\ got' = got
  BY DEF poll_read
<1>2. /\ pc[c] = "open"
      /\ UNCHANGED <<pc, name, registry, held, connected, shut, sent, overlap>>
  BY DEF poll_read
<1>3. Owned' /\ Slots' /\ Takers' /\ Races' /\ OnlyRacesPark'
  BY <1>2, RegistryFrame
<1>4. /\ got' \in [Callers -> Nat] /\ got[c] \in Nat /\ sent[d] \in Nat
      /\ \A a \in Callers : a # c => got'[a] = got[a]
      /\ got'[c] = got[c] \/ (got'[c] = got[c] + 1 /\ got[c] < sent[d])
  <2>1. got' = got \/ (got[c] < sent[d] /\ got' = [got EXCEPT ![c] = @ + 1])
    BY <1>1, Zenon
  <2>2. got \in [Callers -> Nat] /\ sent \in [Callers -> Nat]
    BY DEF IInv, Types
  <2> QED BY <2>1, <2>2
<1>5. /\ eof' \in [Callers -> BOOLEAN]
      /\ \A a \in Callers : a # c => eof'[a] = eof[a]
  BY <1>1, Zenon DEF IInv, Types
<1>6. eof'[c] => eof[c] \/ (shut[d] /\ got[c] = sent[d] /\ got'[c] = got[c])
  BY <1>1, Zenon
<1>7. eof[c] => got'[c] = got[c]
  <2>1. eof[c] => got[c] = sent[d]
    BY <1>1 DEF IInv, ReadsWhatWasWritten
  <2> QED BY <2>1, <1>4
<1>8. Types'
  BY <1>2, <1>4, <1>5 DEF IInv, Types
<1>9. Quiet'
  <2>1. \A a \in Callers : Alone(a)' <=> Alone(a)
    BY <1>2 DEF Alone, Peers
  <2>2. ~Alone(c)
    BY <1>1 DEF Alone
  <2> QED BY <1>2, <1>4, <1>5, <2>1, <2>2 DEF IInv, Quiet
<1>10. ReadsWhatWasWritten'
  <2> SUFFICES ASSUME NEW a \in Callers, NEW b \in Callers, Peers(a, b)
               PROVE  /\ got'[a] <= sent[b] /\ sent[b] - got'[a] <= Capacity
                      /\ eof'[a] => shut[b] /\ got'[a] = sent[b]
    BY <1>2 DEF ReadsWhatWasWritten, Peers
  <2>1. /\ got[a] <= sent[b] /\ sent[b] - got[a] <= Capacity
        /\ eof[a] => shut[b] /\ got[a] = sent[b]
    BY DEF IInv, ReadsWhatWasWritten
  <2>2. CASE a # c
    BY <1>4, <1>5, <2>1, <2>2
  <2>3. CASE a = c
    <3>1. b = d
      BY <1>1, <2>3, OnePeer
    <3>2. got'[c] <= sent[d] /\ sent[d] - got'[c] <= Capacity
      BY <1>4, <2>1, <2>3, <3>1, ChannelAssumption
    <3>3. eof'[c] => shut[d] /\ got'[c] = sent[d]
      BY <1>6, <1>7, <2>1, <2>3, <3>1
    <3> QED BY <2>3, <3>1, <3>2, <3>3
  <2> QED BY <2>2, <2>3
<1> QED BY <1>3, <1>8, <1>9, <1>10 DEF IInv

----------------------------------------------------------------------------
(* connect, first lock, nobody waits: whoever parks from now on overlaps. *)
LEMMA MissStep ==
  ASSUME IInv, NEW c \in Callers, connect_miss(c)
  PROVE  IInv'
<1>1. /\ pc[c] = "idle" /\ registry[name[c]] = <<>>
      /\ pc' = [pc EXCEPT ![c] = "missed"]
      /\ UNCHANGED <<name, registry, held, connected, shut, sent, got, eof, overlap>>
  BY DEF connect_miss, io
<1>2. /\ pc' \in [Callers -> {"idle", "missed", "open", "dropped"}]
      /\ \A d \in Callers : pc'[d] = IF d = c THEN "missed" ELSE pc[d]
  BY <1>1 DEF IInv, Types
<1>3. Types'
  BY <1>1, <1>2 DEF IInv, Types
<1>4. Owned'
  BY <1>1, <1>2 DEF IInv, Owned
<1>5. Slots'
  BY <1>1 DEF IInv, Slots
<1>6. Takers'
  BY <1>1 DEF IInv, Takers, Waits
<1>7. Races'
  <2>1. ASSUME NEW d \in Callers, pc'[d] = "missed", NEW i \in 1 .. Len(registry[name[d]])
        PROVE  {d, registry[name[d]][i]} \in overlap
    <3>1. d # c
      BY <1>1, <2>1
    <3> QED BY <1>2, <2>1, <3>1 DEF IInv, Races
  <2> QED BY <1>1, <2>1 DEF Races
<1>8. Quiet'
  <2>1. \A d \in Callers : pc'[d] \in {"idle", "missed"} => pc[d] \in {"idle", "missed"}
    BY <1>1, <1>2
  <2> QED BY <1>1, <2>1 DEF IInv, Quiet, Alone, Peers
<1>9. OnlyRacesPark'
  BY <1>1 DEF IInv, OnlyRacesPark
<1>10. ReadsWhatWasWritten'
  BY <1>1 DEF IInv, ReadsWhatWasWritten, Peers
<1> QED BY <1>3, <1>4, <1>5, <1>6, <1>7, <1>8, <1>9, <1>10 DEF IInv

(* connect, second lock: a fresh duplex, whose second half waits. *)
LEMMA ParkStep ==
  ASSUME IInv, NEW c \in Callers, connect_park(c)
  PROVE  IInv'
<1> DEFINE n == name[c]
           new == {{c, d} : d \in {e \in Callers : e # c /\ pc[e] = "missed" /\ name[e] = name[c]}}
<1>1. /\ pc[c] = "missed" /\ registry' = [registry EXCEPT ![n] = Append(@, c)]
      /\ held' = [held EXCEPT ![c] = c] /\ pc' = [pc EXCEPT ![c] = "open"]
      /\ overlap' = overlap \cup new
      /\ UNCHANGED <<name, shut, sent, got, eof>>
  BY DEF connect_park
<1>2. connected' \in [Callers -> BOOLEAN]
  BY Zenon DEF connect_park, IInv, Types
<1>3. n \in Names /\ registry[n] \in Seq(Callers) /\ Nobody \notin Callers
  BY ChannelAssumption DEF IInv, Types
<1>4. /\ held' \in [Callers -> Callers \cup {Nobody}]
      /\ \A d \in Callers : held'[d] = IF d = c THEN c ELSE held[d]
  BY <1>1 DEF IInv, Types
<1>5. /\ pc' \in [Callers -> {"idle", "missed", "open", "dropped"}]
      /\ \A d \in Callers : pc'[d] = IF d = c THEN "open" ELSE pc[d]
  BY <1>1 DEF IInv, Types
<1>6. held[c] = Nobody /\ \A d \in Callers : held[d] # c
  <2>1. held[c] = Nobody
    BY <1>1 DEF IInv, Owned
  <2> QED BY <1>3, <2>1 DEF IInv, Takers, Types
<1>7. PICK k \in Nat : k = Len(registry[n])
  BY <1>3
<1>8. /\ registry' \in [Names -> Seq(Callers)]
      /\ Len(registry'[n]) = k + 1 /\ registry'[n][k + 1] = c
      /\ \A i \in 1 .. k : registry'[n][i] = registry[n][i]
      /\ \A m \in Names : m # n => registry'[m] = registry[m]
  BY <1>1, <1>3, <1>7 DEF IInv, Types
<1>9. \A m \in Names : \A i \in 1 .. Len(registry'[m]) :
        \/ m = n /\ i = k + 1 /\ registry'[m][i] = c
        \/ /\ i \in 1 .. Len(registry[m]) /\ registry'[m][i] = registry[m][i]
           /\ registry[m][i] \in Callers /\ registry[m][i] # c
  <2> SUFFICES ASSUME NEW m \in Names, NEW i \in 1 .. Len(registry'[m])
               PROVE  \/ m = n /\ i = k + 1 /\ registry'[m][i] = c
                      \/ /\ i \in 1 .. Len(registry[m]) /\ registry'[m][i] = registry[m][i]
                         /\ registry[m][i] \in Callers /\ registry[m][i] # c
    OBVIOUS
  <2>1. \A j \in 1 .. Len(registry[m]) : registry[m][j] \in Callers /\ registry[m][j] # c
    <3>1. registry[m] \in Seq(Callers)
      BY DEF IInv, Types
    <3>2. \A j \in 1 .. Len(registry[m]) : registry[m][j] \in Callers
      BY <3>1
    <3>3. \A j \in 1 .. Len(registry[m]) : held[registry[m][j]] = registry[m][j]
      BY DEF IInv, Slots
    <3> QED BY <1>3, <1>6, <3>2, <3>3
  <2>2. CASE m # n
    BY <1>8, <2>1, <2>2
  <2>3. CASE m = n
    <3>1. i \in 1 .. k \/ i = k + 1
      BY <1>8, <2>3
    <3> QED BY <1>7, <1>8, <2>1, <2>3, <3>1
  <2> QED BY <2>2, <2>3
<1> HIDE DEF n, new
<1>10. overlap' \subseteq SUBSET Callers /\ overlap \subseteq overlap'
  <2>1. new \subseteq SUBSET Callers
    BY Zenon DEF new
  <2>2. overlap \subseteq SUBSET Callers
    BY DEF IInv, Types
  <2> QED BY <1>1, <2>1, <2>2
<1>11. Types'
  BY <1>1, <1>2, <1>4, <1>5, <1>8, <1>10 DEF IInv, Types
<1>12. Owned'
  BY <1>3, <1>4, <1>5 DEF IInv, Owned
<1>13. Slots'
  <2>1. ASSUME NEW m \in Names, NEW i \in 1 .. Len(registry'[m])
        PROVE  /\ held'[registry'[m][i]] = registry'[m][i] /\ name[registry'[m][i]] = m
               /\ \A d \in Callers : held'[d] = registry'[m][i] => d = registry'[m][i]
    <3>1. CASE registry'[m][i] = c /\ m = n
      BY <1>4, <1>6, <3>1 DEF n
    <3>2. CASE /\ i \in 1 .. Len(registry[m]) /\ registry'[m][i] = registry[m][i]
               /\ registry[m][i] \in Callers /\ registry[m][i] # c
      BY <1>4, <3>2 DEF IInv, Slots
    <3> QED BY <1>9, <3>1, <3>2
  <2>2. ASSUME NEW m \in Names, NEW i \in 1 .. Len(registry'[m]),
               NEW j \in 1 .. Len(registry'[m]), registry'[m][i] = registry'[m][j]
        PROVE  i = j
    BY <1>9, <2>2 DEF IInv, Slots
  <2> QED BY <1>1, <2>1, <2>2 DEF Slots
<1>14. Takers'
  <2>1. \A d \in Callers : held'[d] # Nobody =>
          held'[held'[d]] = held'[d] /\ name[held'[d]] = name[d]
    <3> SUFFICES ASSUME NEW d \in Callers, held'[d] # Nobody
                 PROVE  held'[held'[d]] = held'[d] /\ name[held'[d]] = name[d]
      OBVIOUS
    <3>1. CASE d = c
      BY <1>4, <3>1
    <3>2. CASE d # c
      <4>1. held'[d] = held[d] /\ held[d] \in Callers /\ held[d] # c
        BY <1>4, <1>6, <3>2 DEF IInv, Types
      <4>2. held[held[d]] = held[d] /\ name[held[d]] = name[d]
        BY <1>4, <3>2 DEF IInv, Takers
      <4> QED BY <1>4, <4>1, <4>2
    <3> QED BY <3>1, <3>2
  <2>2. \A a, b, d \in Callers :
          a # d /\ b # d /\ held'[a] = d /\ held'[b] = d => a = b
    BY <1>4, <1>6 DEF IInv, Takers
  <2>3. ASSUME NEW d \in Callers, held'[d] = d
        PROVE  \/ \E i \in 1 .. Len(registry'[name[d]]) : registry'[name[d]][i] = d
               \/ \E a \in Callers : a # d /\ held'[a] = d
    <3>1. CASE d = c
      <4>1. k + 1 \in 1 .. Len(registry'[n]) /\ registry'[n][k + 1] = c
        BY <1>8
      <4> QED BY <3>1, <4>1 DEF n
    <3>2. CASE d # c /\ \E a \in Callers : a # d /\ held[a] = d
      <4>1. PICK a \in Callers : a # d /\ held[a] = d
        BY <3>2
      <4>2. a # c /\ held'[a] = d
        BY <1>3, <1>4, <1>6, <4>1
      <4> QED BY <4>1, <4>2
    <3>3. CASE d # c /\ Waits(d)
      <4>1. PICK i \in 1 .. Len(registry[name[d]]) : registry[name[d]][i] = d
        BY <3>3 DEF Waits
      <4>2. name[d] \in Names
        BY DEF IInv, Types
      <4>3. i \in 1 .. Len(registry'[name[d]]) /\ registry'[name[d]][i] = d
        BY <1>7, <1>8, <4>1, <4>2
      <4> QED BY <4>3
    <3>4. d # c => Waits(d) \/ \E a \in Callers : a # d /\ held[a] = d
      BY <1>4, <2>3 DEF IInv, Takers
    <3> QED BY <3>1, <3>2, <3>3, <3>4
  <2> QED BY <1>1, <2>1, <2>2, <2>3 DEF Takers, Waits
<1>15. Races'
  <2>1. ASSUME NEW d \in Callers, pc'[d] = "missed", NEW i \in 1 .. Len(registry'[name[d]])
        PROVE  {d, registry'[name[d]][i]} \in overlap'
    <3>1. d # c /\ pc[d] = "missed" /\ name[d] \in Names
      BY <1>5, <2>1 DEF IInv, Types
    <3>2. CASE registry'[name[d]][i] = c /\ name[d] = n
      <4>1. {c, d} \in new
        BY <3>1, <3>2 DEF new, n
      <4>2. {c, d} = {d, c}
        OBVIOUS
      <4>3. {d, c} \in overlap'
        BY <1>1, <4>1, <4>2, Zenon
      <4> QED BY <3>2, <4>3
    <3>3. CASE i \in 1 .. Len(registry[name[d]]) /\ registry'[name[d]][i] = registry[name[d]][i]
      BY <1>10, <3>1, <3>3 DEF IInv, Races
    <3> QED BY <1>9, <3>1, <3>2, <3>3
  <2> QED BY <1>1, <2>1 DEF Races
<1>16. OnlyRacesPark'
  <2>1. ASSUME NEW m \in Names, NEW i \in 1 .. Len(registry'[m]),
               NEW j \in 1 .. Len(registry'[m]), i # j
        PROVE  {registry'[m][i], registry'[m][j]} \in overlap'
    <3>1. \A l \in 1 .. Len(registry[n]) : {c, registry[n][l]} \in overlap
      BY <1>1 DEF IInv, Races, n
    <3>2. registry[m] \in Seq(Callers)
      BY DEF IInv, Types
    <3>3. \A l, o \in 1 .. Len(registry[m]) : l # o => {registry[m][l], registry[m][o]} \in overlap
      <4>1. DOMAIN registry[m] = 1 .. Len(registry[m])
        BY <3>2
      <4>2. OnlyRacesPark
        BY DEF IInv
      <4> QED BY <4>1, <4>2, Zenon DEF OnlyRacesPark
    <3>4. CASE m = n /\ i = k + 1 /\ registry'[m][i] = c
      BY <1>9, <1>10, <2>1, <3>1, <3>4
    <3>5. CASE m = n /\ j = k + 1 /\ registry'[m][j] = c
      <4>1. i \in 1 .. Len(registry[n]) /\ registry'[m][i] = registry[n][i]
        BY <1>9, <2>1, <3>5
      <4>2. {c, registry[n][i]} = {registry[n][i], c}
        OBVIOUS
      <4> QED BY <1>10, <3>1, <3>5, <4>1, <4>2
    <3>6. CASE /\ i \in 1 .. Len(registry[m]) /\ registry'[m][i] = registry[m][i]
               /\ j \in 1 .. Len(registry[m]) /\ registry'[m][j] = registry[m][j]
      BY <1>10, <2>1, <3>3, <3>6
    <3> QED BY <1>9, <3>4, <3>5, <3>6
  <2>2. \A m \in Names : DOMAIN registry'[m] = 1 .. Len(registry'[m])
    BY <1>8
  <2> QED BY <2>1, <2>2 DEF OnlyRacesPark
<1>17. \A a, b \in Callers : Peers(a, b)' <=> Peers(a, b)
  BY <1>3, <1>4, <1>6 DEF Peers
<1>18. Quiet'
  <2>1. \A a \in Callers : Alone(a)' <=> Alone(a)
    BY <1>17 DEF Alone
  <2> QED BY <1>1, <1>5, <2>1 DEF IInv, Quiet
<1>19. ReadsWhatWasWritten'
  BY <1>1, <1>17 DEF IInv, ReadsWhatWasWritten
<1> QED BY <1>11, <1>12, <1>13, <1>14, <1>15, <1>16, <1>18, <1>19 DEF IInv

(* The tail of a queue. *)
LEMMA TailFacts ==
  ASSUME NEW s \in Seq(Callers), s # <<>>
  PROVE  /\ Tail(s) \in Seq(Callers) /\ Len(Tail(s)) \in Nat
         /\ Len(s) = Len(Tail(s)) + 1
         /\ \A i \in 1 .. Len(Tail(s)) : Tail(s)[i] = s[i + 1]
  OBVIOUS

(* connect, first lock: the half at the front goes to the caller, and the two
   are counterparts from then on. *)
LEMMA TakeStep ==
  ASSUME IInv, NEW c \in Callers, connect_take(c)
  PROVE  IInv'
<1> DEFINE n == name[c]
           d == registry[name[c]][1]
<1>1. /\ pc[c] = "idle" /\ registry[n] # <<>>
      /\ registry' = [registry EXCEPT ![n] = Tail(registry[n])]
      /\ held' = [held EXCEPT ![c] = d] /\ pc' = [pc EXCEPT ![c] = "open"]
      /\ UNCHANGED <<name, shut, sent, got, eof, overlap>>
  BY DEF connect_take
<1>2. connected' \in [Callers -> BOOLEAN]
  BY Zenon DEF connect_take, IInv, Types
<1>3. /\ n \in Names /\ registry[n] \in Seq(Callers) /\ Nobody \notin Callers
      /\ d \in Callers /\ 1 \in 1 .. Len(registry[n])
  BY <1>1, ChannelAssumption DEF IInv, Types
<1>4. /\ held[d] = d /\ name[d] = n
      /\ \A a \in Callers : held[a] = d => a = d
  BY <1>3 DEF IInv, Slots
<1>5. held[c] = Nobody /\ c # d /\ \A a \in Callers : held[a] # c
  <2>1. held[c] = Nobody
    BY <1>1 DEF IInv, Owned
  <2> QED BY <1>3, <1>4, <2>1 DEF IInv, Takers, Types
<1>6. \A i \in 1 .. Len(registry[n]) : registry[n][i] = d => i = 1
  BY <1>3 DEF IInv, Slots
<1>7. /\ registry' \in [Names -> Seq(Callers)]
      /\ \A m \in Names : m # n => registry'[m] = registry[m]
      /\ registry'[n] = Tail(registry[n])
  BY <1>1, <1>3 DEF IInv, Types
<1>8. PICK k \in Nat :
        /\ Len(registry[n]) = k + 1 /\ Len(registry'[n]) = k
        /\ \A i \in 1 .. k : registry'[n][i] = registry[n][i + 1]
  <2> HIDE DEF n
  <2>1. /\ Len(registry'[n]) \in Nat /\ Len(registry[n]) = Len(registry'[n]) + 1
        /\ \A i \in 1 .. Len(registry'[n]) : registry'[n][i] = registry[n][i + 1]
    BY <1>1, <1>3, <1>7, TailFacts
  <2> QED BY <2>1
<1> HIDE DEF n, d
<1>9. /\ held' \in [Callers -> Callers \cup {Nobody}]
      /\ \A a \in Callers : held'[a] = IF a = c THEN d ELSE held[a]
  BY <1>1, <1>3 DEF IInv, Types
<1>10. /\ pc' \in [Callers -> {"idle", "missed", "open", "dropped"}]
       /\ \A a \in Callers : pc'[a] = IF a = c THEN "open" ELSE pc[a]
  BY <1>1 DEF IInv, Types
<1>11. Types'
  BY <1>1, <1>2, <1>7, <1>9, <1>10 DEF IInv, Types
<1>12. Owned'
  BY <1>3, <1>9, <1>10 DEF IInv, Owned
(* The position in the old queue of what is at position i of the new one. *)
<1> DEFINE Old(m, i) == IF m = n THEN i + 1 ELSE i
<1>13. \A m \in Names : \A i \in 1 .. Len(registry'[m]) :
         /\ Old(m, i) \in 1 .. Len(registry[m])
         /\ registry'[m][i] = registry[m][Old(m, i)]
         /\ registry'[m][i] \in Callers /\ registry'[m][i] # d /\ registry'[m][i] # c
  <2> SUFFICES ASSUME NEW m \in Names, NEW i \in 1 .. Len(registry'[m])
               PROVE  /\ Old(m, i) \in 1 .. Len(registry[m])
                      /\ registry'[m][i] = registry[m][Old(m, i)]
                      /\ registry'[m][i] \in Callers
                      /\ registry'[m][i] # d /\ registry'[m][i] # c
    OBVIOUS
  <2>1. registry'[m] \in Seq(Callers)
    BY <1>7
  <2>2. registry'[m][i] \in Callers
    BY <2>1
  <2>3. Old(m, i) \in 1 .. Len(registry[m]) /\ registry'[m][i] = registry[m][Old(m, i)]
    <3>1. CASE m # n
      BY <1>7, <3>1
    <3>2. CASE m = n
      <4>1. i \in 1 .. k /\ i + 1 \in 1 .. (k + 1)
        BY <1>8, <3>2
      <4> QED BY <1>8, <3>2, <4>1
    <3> QED BY <3>1, <3>2
  <2>4. held[registry'[m][i]] = registry'[m][i] /\ name[registry'[m][i]] = m
    BY <2>3 DEF IInv, Slots
  <2>5. registry'[m][i] # c
    BY <1>5, <2>2, <2>4
  <2>6. registry'[m][i] # d
    <3>1. CASE m # n
      BY <1>4, <2>4, <3>1
    <3>2. CASE m = n
      <4>1. i + 1 \in 1 .. Len(registry[n]) /\ registry'[m][i] = registry[n][i + 1] /\ i + 1 # 1
        BY <2>3, <3>2
      <4> QED BY <1>6, <4>1
    <3> QED BY <3>1, <3>2
  <2> QED BY <2>2, <2>3, <2>5, <2>6
<1>14. \A m \in Names : \A i, j \in 1 .. Len(registry'[m]) : Old(m, i) = Old(m, j) => i = j
  OBVIOUS
<1> HIDE DEF Old
<1>15. Slots'
  <2>1. ASSUME NEW m \in Names, NEW i \in 1 .. Len(registry'[m])
        PROVE  /\ held'[registry'[m][i]] = registry'[m][i] /\ name[registry'[m][i]] = m
               /\ \A a \in Callers : held'[a] = registry'[m][i] => a = registry'[m][i]
    <3> DEFINE x == registry'[m][i]
    <3>1. /\ x \in Callers /\ x # c /\ x # d
          /\ Old(m, i) \in 1 .. Len(registry[m]) /\ x = registry[m][Old(m, i)]
      BY <1>13
    <3> HIDE DEF x
    <3>2. held[x] = x /\ name[x] = m /\ \A a \in Callers : held[a] = x => a = x
      BY <3>1 DEF IInv, Slots
    <3>3. held'[x] = x /\ \A a \in Callers : held'[a] = x => a = x
      BY <1>9, <3>1, <3>2
    <3> QED BY <3>2, <3>3 DEF x
  <2>2. ASSUME NEW m \in Names, NEW i \in 1 .. Len(registry'[m]),
               NEW j \in 1 .. Len(registry'[m]), registry'[m][i] = registry'[m][j]
        PROVE  i = j
    <3>1. /\ Old(m, i) \in 1 .. Len(registry[m]) /\ Old(m, j) \in 1 .. Len(registry[m])
          /\ registry[m][Old(m, i)] = registry[m][Old(m, j)]
      BY <1>13, <2>2
    <3>2. Old(m, i) = Old(m, j)
      BY <3>1 DEF IInv, Slots
    <3> QED BY <1>14, <3>2
  <2>3. name' = name
    BY <1>1
  <2> QED BY <2>1, <2>2, <2>3 DEF Slots
<1>16. Takers'
  <2>1. ASSUME NEW a \in Callers, held'[a] # Nobody
        PROVE  held'[held'[a]] = held'[a] /\ name[held'[a]] = name[a]
    <3>1. CASE a = c
      BY <1>3, <1>4, <1>5, <1>9, <3>1 DEF n
    <3>2. CASE a # c
      <4>1. held'[a] = held[a] /\ held[a] \in Callers /\ held[a] # c
        BY <1>5, <1>9, <2>1, <3>2 DEF IInv, Types
      <4>2. held[held[a]] = held[a] /\ name[held[a]] = name[a]
        BY <1>9, <2>1, <3>2 DEF IInv, Takers
      <4> QED BY <1>9, <4>1, <4>2
    <3> QED BY <3>1, <3>2
  <2>2. \A a, b, e \in Callers :
          a # e /\ b # e /\ held'[a] = e /\ held'[b] = e => a = b
    BY <1>4, <1>9 DEF IInv, Takers
  <2>3. ASSUME NEW e \in Callers, held'[e] = e
        PROVE  \/ \E i \in 1 .. Len(registry'[name[e]]) : registry'[name[e]][i] = e
               \/ \E a \in Callers : a # e /\ held'[a] = e
    <3>1. CASE e = d
      BY <1>5, <1>9, <3>1
    <3>2. e # c /\ held[e] = e
      BY <1>5, <1>9, <2>3
    <3>3. CASE \E a \in Callers : a # e /\ held[a] = e
      <4>1. PICK a \in Callers : a # e /\ held[a] = e
        BY <3>3
      <4>2. held'[a] = e
        BY <1>3, <1>5, <1>9, <4>1
      <4> QED BY <4>1, <4>2
    <3>4. CASE e # d /\ Waits(e)
      <4>1. PICK i \in 1 .. Len(registry[name[e]]) : registry[name[e]][i] = e
        BY <3>4 DEF Waits
      <4>2. name[e] \in Names
        BY DEF IInv, Types
      <4>3. CASE name[e] # n
        BY <1>7, <4>1, <4>2, <4>3
      <4>4. CASE name[e] = n
        <5>1. i # 1
          BY <3>4, <4>1, <4>4 DEF d, n
        <5>2. PICK j \in 1 .. k : i = j + 1
          <6>1. i - 1 \in 1 .. k /\ i = (i - 1) + 1
            BY <1>8, <4>1, <4>4, <5>1
          <6> QED BY <6>1
        <5>3. j \in 1 .. Len(registry'[n]) /\ registry'[n][j] = e
          BY <1>8, <4>1, <4>4, <5>2
        <5> QED BY <4>4, <5>3
      <4> QED BY <4>3, <4>4
    <3>5. Waits(e) \/ \E a \in Callers : a # e /\ held[a] = e
      BY <3>2 DEF IInv, Takers
    <3> QED BY <3>1, <3>3, <3>4, <3>5
  <2> QED BY <1>1, <2>1, <2>2, <2>3 DEF Takers, Waits
<1>17. Races'
  <2>1. ASSUME NEW a \in Callers, pc'[a] = "missed", NEW i \in 1 .. Len(registry'[name[a]])
        PROVE  {a, registry'[name[a]][i]} \in overlap
    <3>1. pc[a] = "missed" /\ name[a] \in Names
      BY <1>10, <2>1 DEF IInv, Types
    <3> QED BY <1>13, <3>1 DEF IInv, Races
  <2> QED BY <1>1, <2>1 DEF Races
<1>18. OnlyRacesPark'
  <2>1. ASSUME NEW m \in Names, NEW i \in 1 .. Len(registry'[m]),
               NEW j \in 1 .. Len(registry'[m]), i # j
        PROVE  {registry'[m][i], registry'[m][j]} \in overlap
    <3>1. registry[m] \in Seq(Callers)
      BY DEF IInv, Types
    <3>2. DOMAIN registry[m] = 1 .. Len(registry[m])
      BY <3>1
    <3>3. \A l, o \in 1 .. Len(registry[m]) : l # o => {registry[m][l], registry[m][o]} \in overlap
      <4>1. OnlyRacesPark
        BY DEF IInv
      <4> QED BY <3>2, <4>1, Zenon DEF OnlyRacesPark
    <3>4. Old(m, i) # Old(m, j)
      BY <1>14, <2>1
    <3> QED BY <1>13, <3>3, <3>4
  <2>2. \A m \in Names : DOMAIN registry'[m] = 1 .. Len(registry'[m])
    BY <1>7
  <2>3. overlap' = overlap
    BY <1>1
  <2> QED BY <2>1, <2>2, <2>3 DEF OnlyRacesPark
<1>19. \A a, b \in Callers :
         Peers(a, b)' => Peers(a, b) \/ (a = c /\ b = d) \/ (a = d /\ b = c)
  BY <1>3, <1>4, <1>9 DEF Peers
<1>20. \A a, b \in Callers : Peers(a, b) => Peers(a, b)'
  BY <1>3, <1>5, <1>9 DEF Peers
<1>21. Alone(c) /\ Alone(d)
  <2>1. Alone(c)
    BY <1>5 DEF Alone, Peers
  <2>2. Alone(d)
    BY <1>3, <1>4 DEF Alone, Peers
  <2> QED BY <2>1, <2>2
<1>22. /\ sent[c] = 0 /\ got[c] = 0 /\ ~eof[c] /\ got[d] = 0 /\ ~eof[d]
       /\ sent[d] <= Capacity /\ sent[d] \in Nat
  BY <1>1, <1>3, <1>21 DEF IInv, Quiet, Types
<1>23. Quiet'
  <2>1. \A a \in Callers : Alone(a)' => Alone(a)
    BY <1>20 DEF Alone
  <2>2. \A a \in Callers : pc'[a] \in {"idle", "missed"} => pc[a] \in {"idle", "missed"}
    BY <1>10
  <2> QED BY <1>1, <2>1, <2>2 DEF IInv, Quiet
<1>24. ReadsWhatWasWritten'
  <2> SUFFICES ASSUME NEW a \in Callers, NEW b \in Callers, Peers(a, b)'
               PROVE  /\ got[a] <= sent[b] /\ sent[b] - got[a] <= Capacity
                      /\ eof[a] => shut[b] /\ got[a] = sent[b]
    BY <1>1 DEF ReadsWhatWasWritten
  <2>1. CASE Peers(a, b)
    BY <2>1 DEF IInv, ReadsWhatWasWritten
  <2>2. CASE a = c /\ b = d
    <3>1. got[c] <= sent[d] /\ sent[d] - got[c] <= Capacity
      BY <1>22, ChannelAssumption
    <3> QED BY <1>22, <2>2, <3>1
  <2>3. CASE a = d /\ b = c
    <3>1. got[d] <= sent[c] /\ sent[c] - got[d] <= Capacity
      BY <1>22, ChannelAssumption
    <3> QED BY <1>22, <2>3, <3>1
  <2> QED BY <1>19, <2>1, <2>2, <2>3
<1> QED BY <1>11, <1>12, <1>15, <1>16, <1>17, <1>18, <1>23, <1>24 DEF IInv

(* The invariant holds in every behaviour. *)
THEOREM Invariant == Spec => []IInv
<1>1. IInv /\ [Next]_vars => IInv'
  <2> SUFFICES ASSUME IInv, [Next]_vars PROVE IInv'
    OBVIOUS
  <2>1. CASE UNCHANGED vars
    <3>1. UNCHANGED <<pc, name, registry, held, connected, shut, sent, got, eof, overlap>>
      BY <2>1 DEF vars
    <3>2. Types' /\ Owned' /\ Slots' /\ Takers'
      BY <3>1 DEF IInv, Types, Owned, Slots, Takers, Waits
    <3>3. Races' /\ OnlyRacesPark'
      BY <3>1 DEF IInv, Races, OnlyRacesPark
    <3>4. Quiet' /\ ReadsWhatWasWritten'
      BY <3>1 DEF IInv, Quiet, Alone, ReadsWhatWasWritten, Peers
    <3> QED BY <3>2, <3>3, <3>4 DEF IInv
  <2>2. CASE Next
    BY <2>2, TakeStep, MissStep, ParkStep, LeaveStep, WriteStep, ReadStep DEF Next, Step
  <2> QED BY <2>1, <2>2
<1> QED BY <1>1, InitIInv, PTL DEF Spec

(* Type correctness. *)
THEOREM TypeCorrect == Spec => []TypeOK
<1>1. IInv => TypeOK
  <2> SUFFICES ASSUME IInv PROVE TypeOK
    OBVIOUS
  <2>1. ASSUME NEW c \in Callers PROVE \E d \in Callers : got[c] <= MaxBytes[d]
    <3>1. CASE Alone(c)
      BY <3>1, ChannelAssumption DEF IInv, Quiet
    <3>2. CASE ~Alone(c)
      <4>1. PICK d \in Callers : Peers(c, d)
        BY <3>2 DEF Alone
      <4>2. got[c] <= sent[d] /\ sent[d] <= MaxBytes[d]
        BY <4>1 DEF IInv, Types, ReadsWhatWasWritten
      <4>3. got[c] \in Nat /\ sent[d] \in Nat /\ MaxBytes[d] \in Nat
        BY ChannelAssumption DEF IInv, Types
      <4> QED BY <4>2, <4>3
    <3> QED BY <3>1, <3>2
  <2> QED BY <2>1 DEF IInv, Types, TypeOK
<1> QED BY <1>1, Invariant, PTL

(* Halves are neither lost nor handed out twice. *)
THEOREM HalvesAreConserved == Spec => []HalvesConserved
<1>1. IInv => HalvesConserved
  <2> SUFFICES ASSUME IInv PROVE HalvesConserved
    OBVIOUS
  <2>1. \A c \in Callers : held[c] # Nobody => held[held[c]] = held[c]
    BY DEF IInv, Takers
  <2>2. \A n \in Names : \A d \in Queued(n) : held[d] = d /\ name[d] = n
    <3> SUFFICES ASSUME NEW n \in Names, NEW d \in Queued(n) PROVE held[d] = d /\ name[d] = n
      OBVIOUS
    <3>1. registry[n] \in Seq(Callers)
      BY DEF IInv, Types
    <3>2. PICK i \in 1 .. Len(registry[n]) : d = registry[n][i]
      BY <3>1 DEF Queued
    <3> QED BY <3>2 DEF IInv, Slots
  <2>3. ASSUME NEW d \in Callers, held[d] = d
        PROVE  LET takers == {c \in Callers : Peers(c, d)}
                   slots == {i \in DOMAIN registry[name[d]] : registry[name[d]][i] = d}
               IN /\ Cardinality(takers) + Cardinality(slots) = 1
                  /\ \A c \in takers : name[c] = name[d]
    <3> DEFINE takers == {c \in Callers : Peers(c, d)}
               slots == {i \in DOMAIN registry[name[d]] : registry[name[d]][i] = d}
    <3>1. name[d] \in Names /\ registry[name[d]] \in Seq(Callers) /\ d # Nobody
      BY ChannelAssumption DEF IInv, Types
    <3>2. DOMAIN registry[name[d]] = 1 .. Len(registry[name[d]])
      BY <3>1
    <3>3. \A c \in takers : name[c] = name[d]
      BY <2>3, <3>1 DEF IInv, Takers, Peers
    <3>4. CASE Waits(d)
      <4>1. PICK i \in 1 .. Len(registry[name[d]]) : registry[name[d]][i] = d
        BY <3>4 DEF Waits
      <4>2. slots = {i}
        BY <3>1, <3>2, <4>1 DEF IInv, Slots
      <4>3. takers = {}
        BY <2>3, <3>1, <4>1 DEF IInv, Slots, Peers
      <4>4. Cardinality(takers) = 0 /\ Cardinality(slots) = 1
        BY <4>2, <4>3, FS_EmptySet, FS_Singleton
      <4> QED BY <3>3, <4>4
    <3>5. CASE ~Waits(d)
      <4>1. PICK c \in Callers : c # d /\ held[c] = d
        BY <2>3, <3>5 DEF IInv, Takers
      <4>2. takers = {c}
        BY <2>3, <3>1, <4>1 DEF IInv, Takers, Peers
      <4>3. slots = {}
        BY <3>2, <3>5 DEF Waits
      <4>4. Cardinality(takers) = 1 /\ Cardinality(slots) = 0
        BY <4>2, <4>3, FS_EmptySet, FS_Singleton
      <4> QED BY <3>3, <4>4
    <3> QED BY <3>4, <3>5
  <2> QED BY <2>1, <2>2, <2>3 DEF HalvesConserved
<1> QED BY <1>1, Invariant, PTL

(* Only connects that overlap leave two endpoints waiting. *)
THEOREM OnlyRacesLeaveTwo == Spec => []OnlyRacesPark
<1>1. IInv => OnlyRacesPark
  BY DEF IInv
<1> QED BY <1>1, Invariant, PTL

(* What is read was written, and the end comes after all of it. *)
THEOREM ReadsAreWrites == Spec => []ReadsWhatWasWritten
<1>1. IInv => ReadsWhatWasWritten
  BY DEF IInv
<1> QED BY <1>1, Invariant, PTL

----------------------------------------------------------------------------
(***************************************************************************)
(* The other transport that buffers bytes: a stdio stream and its child.    *)
(* StdioState is its state and StdioChild, taken as an instance, its        *)
(* behaviour.  The capacity of its pipes is any that a channel may have;    *)
(* nothing else is shared.  NoOrphan and OkMeansExited are inductive only   *)
(* together with each other and with what the types say about who holds the *)
(* child.                                                                   *)
(***************************************************************************)

Stdio == INSTANCE StdioChild

(* A close that failed or was dropped has let the child go: from then on it is
   neither in the stream nor in a close. *)
StdioReleased ==
  /\ child = "running" /\ ~handle /\ closing \in {"idle", "shutdown"} => cutShort # "no"
  /\ cutShort # "no" => ~handle /\ closing \in {"idle", "shutdown"}
  /\ stream \in {"none", "self", "failed"} => child = "none" /\ cutShort = "no"
  /\ stream = "none" => result = "none"
  /\ stream \in {"none", "failed", "dropped"} => closing = "idle"
  /\ result = "ok" => ~handle
  /\ closing \in {"wait", "kill"} => result # "ok"
  /\ cutShort = "dropped" => stream = "dropped" /\ result # "ok"

StdioIInv == Stdio!TypeOK /\ NoOrphan /\ OkMeansExited /\ StdioReleased

USE DEF Stdio!pipes, Stdio!outside, StdioIInv, Stdio!TypeOK, NoOrphan,
  OkMeansExited, StdioReleased

(* The initial states satisfy the invariant. *)
LEMMA StdioInit == Stdio!Init => StdioIInv
<1>1. Stdio!Init => input \in 0 .. Capacity /\ output \in 0 .. Capacity /\ owed \in 0 .. 1
  BY ChannelAssumption DEF Stdio!Init
<1>2. Stdio!Init => handle \in BOOLEAN /\ stdin \in BOOLEAN /\ ~handle
  BY Zenon DEF Stdio!Init
<1>3. QED BY <1>1, <1>2 DEF Stdio!Init

(* The types of the pipes and what the steps of the child do to them. *)
LEMMA StdioChildStep ==
  ASSUME StdioIInv, Stdio!child_read \/ Stdio!child_write \/ Stdio!child_eof \/ Stdio!child_exit
  PROVE  StdioIInv'
<1>1. CASE Stdio!child_read
  BY <1>1, ChannelAssumption DEF Stdio!child_read
<1>2. CASE Stdio!child_write
  BY <1>2, ChannelAssumption DEF Stdio!child_write
<1>3. CASE Stdio!child_eof
  BY <1>3 DEF Stdio!child_eof
<1>4. CASE Stdio!child_exit
  BY <1>4 DEF Stdio!child_exit
<1>5. QED BY <1>1, <1>2, <1>3, <1>4

(* Every step of close keeps the invariant: whoever gives the child up without
   its exit leaves a cause behind. *)
LEMMA StdioCloseStep ==
  ASSUME StdioIInv, Stdio!close \/ Stdio!Close \/ Stdio!cancel
  PROVE  StdioIInv'
<1>1. CASE Stdio!close
  BY <1>1 DEF Stdio!close
<1>2. CASE Stdio!close_take
  <2>1. stdin' \in BOOLEAN /\ handle' \in BOOLEAN /\ ~handle'
    BY <1>2, Zenon DEF Stdio!close_take
  <2>2. IF handle THEN closing' = "wait" /\ result' = result ELSE closing' = "idle" /\ result' = "ok"
    BY <1>2 DEF Stdio!close_take
  <2>3. UNCHANGED <<stream, child, cutShort, input, owed, output>> /\ closing = "shutdown"
    BY <1>2 DEF Stdio!close_take
  <2>4. QED BY <2>1, <2>2, <2>3
<1>3. CASE Stdio!shutdown_err
  BY <1>3 DEF Stdio!shutdown_err
<1>4. CASE Stdio!wait_ok
  BY <1>4 DEF Stdio!wait_ok
<1>5. CASE Stdio!wait_err
  BY <1>5 DEF Stdio!wait_err
<1>6. CASE Stdio!timeout
  BY <1>6 DEF Stdio!timeout
<1>7. CASE Stdio!kill
  BY <1>7 DEF Stdio!kill
<1>8. CASE Stdio!kill_err
  BY <1>8 DEF Stdio!kill_err
<1>9. CASE Stdio!cancel
  BY <1>9 DEF Stdio!cancel
<1>10. QED BY <1>1, <1>2, <1>3, <1>4, <1>5, <1>6, <1>7, <1>8, <1>9 DEF Stdio!Close

(* Connecting, reading, writing, shutting down and dropping keep it. *)
LEMMA StdioStreamStep ==
  ASSUME StdioIInv,
         \/ Stdio!new_from_self \/ Stdio!new_from_child \/ Stdio!connect_err
         \/ Stdio!poll_write \/ Stdio!poll_read \/ Stdio!poll_shutdown \/ Stdio!drop
  PROVE  StdioIInv'
<1>1. CASE Stdio!new_from_self
  BY <1>1 DEF Stdio!new_from_self
<1>2. CASE Stdio!new_from_child
  <2>1. handle' \in BOOLEAN /\ stdin' \in BOOLEAN /\ handle'
    BY <1>2, Zenon DEF Stdio!new_from_child
  <2>2. /\ stream = "none" /\ stream' = "child" /\ child' = "running"
        /\ UNCHANGED <<closing, result, cutShort, input, owed, output>>
    BY <1>2 DEF Stdio!new_from_child
  <2>3. QED BY <2>1, <2>2
<1>3. CASE Stdio!connect_err
  BY <1>3 DEF Stdio!connect_err
<1>4. CASE Stdio!poll_write
  BY <1>4, ChannelAssumption DEF Stdio!poll_write
<1>5. CASE Stdio!poll_read
  BY <1>5, ChannelAssumption DEF Stdio!poll_read
<1>6. CASE Stdio!poll_shutdown
  BY <1>6 DEF Stdio!poll_shutdown
<1>7. CASE Stdio!drop
  BY <1>7 DEF Stdio!drop
<1>8. QED BY <1>1, <1>2, <1>3, <1>4, <1>5, <1>6, <1>7

HIDE DEF Stdio!pipes, Stdio!outside, StdioIInv, Stdio!TypeOK, NoOrphan,
  OkMeansExited, StdioReleased

(* The invariant holds in every behaviour. *)
THEOREM StdioInvariant == Stdio!Spec => []StdioIInv
<1>1. StdioIInv /\ [Stdio!Next]_(Stdio!vars) => StdioIInv'
  <2>1. SUFFICES ASSUME StdioIInv, [Stdio!Next]_(Stdio!vars) PROVE StdioIInv'
    OBVIOUS
  <2>2. CASE UNCHANGED Stdio!vars
    BY <2>1, <2>2 DEF Stdio!vars, Stdio!pipes, Stdio!outside, StdioIInv, Stdio!TypeOK,
                     NoOrphan, OkMeansExited, StdioReleased
  <2>3. CASE Stdio!Next
    BY <2>1, <2>3, StdioChildStep, StdioCloseStep, StdioStreamStep
      DEF Stdio!Next, Stdio!connect
  <2>4. QED BY <2>1, <2>2, <2>3
<1>2. QED BY <1>1, StdioInit, PTL DEF Stdio!Spec

(* Type correctness: the stream or one close holds the child, never both. *)
THEOREM StdioTypeCorrect == Stdio!Spec => []Stdio!TypeOK
<1>1. StdioIInv => Stdio!TypeOK BY DEF StdioIInv
<1>2. QED BY <1>1, StdioInvariant, PTL

(* A child that runs and that nobody holds was let go by a dropped or failed
   close, or by the drop of the stream. *)
THEOREM OrphansHaveACause == Stdio!Spec => []NoOrphan
<1>1. StdioIInv => NoOrphan BY DEF StdioIInv
<1>2. QED BY <1>1, StdioInvariant, PTL

(* close returns Ok only when the child has exited, or was lost by an earlier
   close. *)
THEOREM OkIsExited == Stdio!Spec => []OkMeansExited
<1>1. StdioIInv => OkMeansExited BY DEF StdioIInv
<1>2. QED BY <1>1, StdioInvariant, PTL
=============================================================================
