-------------------------- MODULE ChannelRegistry --------------------------
(***************************************************************************)
(* The in-process transport chan://<name>.  A global DashMap maps a name to *)
(* the queue of endpoints that wait for a counterpart.  connect looks for a *)
(* waiting endpoint under one lock of the map's shard, and, if there was    *)
(* none, parks one half of a new duplex under a second lock: between the    *)
(* two, other threads run.                                                 *)
(*                                                                         *)
(* A duplex is named after the caller that created it.  tokio's duplex      *)
(* (external) is two bounded byte queues; bytes are counted.                *)
(***************************************************************************)
EXTENDS Naturals, Sequences, FiniteSets

CONSTANTS
  Callers,   \* tasks that call connect, each once
  Names,     \* channel names
  Nobody,    \* not a caller
  Capacity,  \* bytes a duplex buffers per direction (8 KiB)
  MaxBytes   \* bound on the bytes each endpoint writes

ASSUME ChannelAssumption ==
  /\ Nobody \notin Callers
  /\ Capacity \in Nat \ {0}
  /\ MaxBytes \in [Callers -> Nat]

VARIABLES
  pc,          \* "idle", "missed" (between the two locks), "open", "dropped"
  name,        \* the name in the caller's URL
  registry,    \* CHANNEL_REGISTRY: per name, the duplexes with a half waiting
  held,        \* the duplex whose half the caller has, or Nobody
  connected,   \* ChannelStream::connected
  shut,        \* the write half was shut down
  sent, got,   \* bytes the caller has written and read
  eof,         \* the caller has read the end of the stream
  overlap      \* pairs of callers between their two locks at the same time

io == <<connected, shut, sent, got, eof>>
vars == <<pc, name, registry, held, connected, shut, sent, got, eof, overlap>>

Init ==
  /\ pc = [c \in Callers |-> "idle"]
  /\ name \in [Callers -> Names]
  /\ registry = [n \in Names |-> <<>>]
  /\ held = [c \in Callers |-> Nobody]
  /\ connected = [c \in Callers |-> FALSE]
  /\ shut = [c \in Callers |-> FALSE]
  /\ sent = [c \in Callers |-> 0]
  /\ got = [c \in Callers |-> 0]
  /\ eof = [c \in Callers |-> FALSE]
  /\ overlap = {}

(* c and d hold the two halves of one duplex. *)
Peers(c, d) == c # d /\ held[c] # Nobody /\ held[c] = held[d]

----------------------------------------------------------------------------
(* connect, first lock: a waiting half is popped from the front. *)
connect_take_Peek(c) ==
  LET q == registry[name[c]] IN
  /\ pc[c] = "idle"
  /\ q # <<>>
  /\ held' = [held EXCEPT ![c] = q[1]]
  /\ pc' = [pc EXCEPT ![c] = "open"]
  /\ connected' = [connected EXCEPT ![c] = TRUE]
  /\ UNCHANGED <<name, registry, shut, sent, got, eof, overlap>>

connect_take(c) ==
  LET q == registry[name[c]] IN
  /\ pc[c] = "idle"
  /\ q # <<>>
  /\ registry' = [registry EXCEPT ![name[c]] = Tail(q)]
  /\ held' = [held EXCEPT ![c] = q[1]]
  /\ pc' = [pc EXCEPT ![c] = "open"]
  /\ connected' = [connected EXCEPT ![c] = TRUE]
  /\ UNCHANGED <<name, shut, sent, got, eof, overlap>>

(* ... or nobody waits, and the lock is given up. *)
connect_miss_Skip(c) ==
  /\ pc[c] = "idle"
  /\ pc' = [pc EXCEPT ![c] = "missed"]
  /\ UNCHANGED <<name, registry, held, io, overlap>>

connect_miss(c) ==
  /\ pc[c] = "idle"
  /\ registry[name[c]] = <<>>
  /\ pc' = [pc EXCEPT ![c] = "missed"]
  /\ UNCHANGED <<name, registry, held, io, overlap>>

(* connect, second lock: a new duplex, one half parked, the other returned.
   connect does not wait for a counterpart. *)
connect_park(c) ==
  /\ pc[c] = "missed"
  /\ registry' = [registry EXCEPT ![name[c]] = Append(@, c)]
  /\ held' = [held EXCEPT ![c] = c]
  /\ pc' = [pc EXCEPT ![c] = "open"]
  /\ connected' = [connected EXCEPT ![c] = TRUE]
  /\ overlap' = overlap \cup
       {{c, d} : d \in {e \in Callers : e # c /\ pc[e] = "missed" /\ name[e] = name[c]}}
  /\ UNCHANGED <<name, shut, sent, got, eof>>

(* TransportStream::close only clears the flag. *)
close(c) ==
  /\ pc[c] = "open"
  /\ connected' = [connected EXCEPT ![c] = FALSE]
  /\ UNCHANGED <<pc, name, registry, held, shut, sent, got, eof, overlap>>

(* poll_shutdown: the other side reads the end of the stream. *)
poll_shutdown(c) ==
  /\ pc[c] = "open"
  /\ shut' = [shut EXCEPT ![c] = TRUE]
  /\ UNCHANGED <<pc, name, registry, held, connected, sent, got, eof, overlap>>

(* The caller drops its ChannelStream; a half that waits in the registry
   stays there. *)
drop_KeepOpen(c) ==
  /\ pc[c] = "open"
  /\ pc' = [pc EXCEPT ![c] = "dropped"]
  /\ UNCHANGED <<name, registry, held, connected, shut, sent, got, eof, overlap>>

drop(c) ==
  /\ pc[c] = "open"
  /\ pc' = [pc EXCEPT ![c] = "dropped"]
  /\ shut' = [shut EXCEPT ![c] = TRUE]
  /\ UNCHANGED <<name, registry, held, connected, sent, got, eof, overlap>>

(* poll_write accepts a byte while the other half exists, waiting or held,
   and the buffer towards it is not full. *)
poll_write(c) ==
  /\ pc[c] = "open" /\ ~shut[c]
  /\ sent[c] < MaxBytes[c]
  /\ \A d \in Callers : Peers(c, d) => pc[d] # "dropped" /\ sent[c] - got[d] < Capacity
  /\ (\A d \in Callers : ~Peers(c, d)) => sent[c] < Capacity
  /\ sent' = [sent EXCEPT ![c] = @ + 1]
  /\ UNCHANGED <<pc, name, registry, held, connected, shut, got, eof, overlap>>

(* poll_read returns what the other half wrote, then its end. *)
poll_read_Past(c) ==
  /\ pc[c] = "open"
  /\ got' = [got EXCEPT ![c] = @ + 1]
  /\ UNCHANGED <<pc, name, registry, held, connected, shut, sent, eof, overlap>>

poll_read_EofFirst(c) ==
  /\ pc[c] = "open"
  /\ \E d \in Callers : Peers(c, d) /\ shut[d] /\ ~eof[c]
  /\ eof' = [eof EXCEPT ![c] = TRUE]
  /\ UNCHANGED <<pc, name, registry, held, connected, shut, sent, got, overlap>>

poll_read(c) ==
  /\ pc[c] = "open"
  /\ \E d \in Callers :
       /\ Peers(c, d)
       /\ \/ /\ got[c] < sent[d]
             /\ got' = [got EXCEPT ![c] = @ + 1]
             /\ UNCHANGED eof
          \/ /\ got[c] = sent[d] /\ shut[d] /\ ~eof[c]
             /\ eof' = [eof EXCEPT ![c] = TRUE]
             /\ UNCHANGED got
  /\ UNCHANGED <<pc, name, registry, held, connected, shut, sent, overlap>>

Step(c) ==
  \/ connect_take(c) \/ connect_miss(c) \/ connect_park(c)
  \/ close(c) \/ poll_shutdown(c) \/ drop(c)
  \/ poll_write(c) \/ poll_read(c)

Next == \E c \in Callers : Step(c)

Spec == Init /\ [][Next]_vars

(* Every endpoint is read by a task that the runtime wakes when there is
   something to read, and a connect that missed runs on without awaiting. *)
FairSpec ==
  Spec /\ \A c \in Callers : WF_vars(poll_read(c)) /\ WF_vars(connect_park(c))

----------------------------------------------------------------------------
Queued(n) == {registry[n][i] : i \in DOMAIN registry[n]}

(* Types; no endpoint reads more than some endpoint of the process may write. *)
TypeOK ==
  /\ pc \in [Callers -> {"idle", "missed", "open", "dropped"}]
  /\ name \in [Callers -> Names]
  /\ registry \in [Names -> Seq(Callers)]
  /\ held \in [Callers -> Callers \cup {Nobody}]
  /\ connected \in [Callers -> BOOLEAN] /\ shut \in [Callers -> BOOLEAN]
  /\ sent \in [Callers -> Nat] /\ got \in [Callers -> Nat]
  /\ \A c \in Callers :
       sent[c] <= MaxBytes[c] /\ \E d \in Callers : got[c] <= MaxBytes[d]
  /\ eof \in [Callers -> BOOLEAN]
  /\ overlap \subseteq SUBSET Callers

(* The two halves of a duplex have one owner each: the creator has the first,
   and the second either waits exactly once, under the creator's name, or was
   handed to exactly one other caller that asked for the same name.  Every half
   that waits or is held belongs to such a duplex. *)
HalvesConserved ==
  /\ \A d \in Callers :
       held[d] = d =>
         LET takers == {c \in Callers : Peers(c, d)}
             slots == {i \in DOMAIN registry[name[d]] : registry[name[d]][i] = d}
         IN /\ Cardinality(takers) + Cardinality(slots) = 1
            /\ \A c \in takers : name[c] = name[d]
  /\ \A n \in Names : \A d \in Queued(n) : held[d] = d /\ name[d] = n
  /\ \A c \in Callers : held[c] # Nobody => held[held[c]] = held[c]

(* Two endpoints wait under one name only if the connects that parked them
   overlapped: callers that connect one after the other are always paired. *)
OnlyRacesPark ==
  \A n \in Names : \A i, j \in DOMAIN registry[n] :
    i # j => {registry[n][i], registry[n][j]} \in overlap

(* What an endpoint reads is what the other one wrote, and no more. *)
ReadsWhatWasWritten ==
  \A c, d \in Callers :
    Peers(c, d) =>
      /\ got[c] <= sent[d] /\ sent[d] - got[c] <= Capacity
      /\ eof[c] => shut[d] /\ got[c] = sent[d]

(* When an endpoint goes away, its counterpart reads the end of the stream
   (and, by ReadsWhatWasWritten, everything written before). *)
DropReachesPeer ==
  \A c \in Callers :
    (\E d \in Callers : Peers(c, d) /\ pc[d] = "dropped")
      ~> (eof[c] \/ pc[c] = "dropped")

----------------------------------------------------------------------------
(* What the documentation says, and the code does not do.
   channel.rs: "the first caller creates a new in-memory channel and waits
   for its counterpart; the second caller receives the other end of the
   existing channel": two callers that have both connected, and are alone
   with their name, are connected to each other. *)
SecondCallerPaired ==
  \A c, d \in Callers :
    /\ c # d /\ name[c] = name[d]
    /\ pc[c] = "open" /\ pc[d] = "open"
    /\ \A e \in Callers \ {c, d} : name[e] # name[c]
    => Peers(c, d)
=============================================================================
