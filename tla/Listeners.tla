----------------------------- MODULE Listeners -----------------------------
(***************************************************************************)
(* Listeners and connecting clients of the socket transports: TCP, IPC (Unix *)
(* domain sockets) and WebSocket (over TCP).  A TCP or WebSocket address is  *)
(* a host and a port that the operating system frees with the listener; an  *)
(* IPC address is a path in the file system, which listen and close change   *)
(* by name.                                                                 *)
(*                                                                         *)
(* accept of TCP and IPC hands over a queued connection in one step; accept  *)
(* of WebSocket performs the handshake with the connection it has taken.     *)
(* The operating system is external: queues of pending connections, bind    *)
(* refusing an address in use, and what is lost with a listener.            *)
(***************************************************************************)
EXTENDS Naturals, Sequences

CONSTANTS
  Transports,  \* the transports looked at, of "tcp", "ipc", "ws"
  Listens,     \* calls of listen, each with the listener it returns
  Clients,     \* calls of connect
  Mute,        \* clients that never start a WebSocket handshake
  Foreign,     \* clients that send something else, as a tcp:// client would
  url,         \* the URL that a listener or client is given
  Backlog,     \* length of the operating system's queue
  Nobody, Stale

(* A URL: whether it parses as one of its transport; for IPC how many slashes
   follow "ipc://" and the names behind them, else the host and the port. *)
Urls == [valid : BOOLEAN, slashes : Nat, names : Seq(STRING), host : Seq(STRING)]

ASSUME ListenersAssumption ==
  /\ Transports \subseteq {"tcp", "ipc", "ws"}
  /\ Mute \subseteq Clients /\ Foreign \subseteq Clients \ Mute
  /\ \A p \in Listens \cup Clients : url[p] \in Urls
  /\ Backlog \in Nat \ {0}
  /\ Nobody \notin Listens \cup Clients /\ Stale \notin Listens /\ Nobody # Stale

VARIABLES
  transport,  \* the transport of this behaviour
  owner,      \* address -> the listener behind it, Nobody, or Stale: a file without one
  lpc,        \* listener -> "new", "unlinked", "open", "failed", "dropped"
  closed,     \* listeners that were closed
  queue,      \* listener -> connections waiting for accept, oldest first
  setup,      \* listener -> the connection whose handshake accept awaits, or Nobody
  accepted,   \* listener -> connections handed over by accept
  lost,       \* connections dropped on the listener's side
  cpc,        \* client -> "new", "connecting", "open", "refused", "gone"
  overlapped, \* history: sets of two listens that were between unlink and bind together
  dropped     \* history: clients that accept lost when its future was dropped

files == <<owner, lpc, closed, overlapped>>
conns == <<queue, setup, accepted, lost, cpc, dropped>>
vars == <<transport, files, conns>>

(* parse_path removes one leading slash; what is then not absolute is taken to
   be below /tmp. *)
normalize_path(u) == IF u.slashes > 0 THEN u.names ELSE <<"tmp">> \o u.names
parse_path(u) ==
  normalize_path([u EXCEPT !.slashes = IF @ > 0 THEN @ - 1 ELSE 0])

(* The address of a listener or client: a path, or host and port. *)
Addr(p) == IF transport = "ipc" THEN parse_path(url[p]) ELSE url[p].host

Addresses ==
  UNION {{parse_path(url[p]), url[p].host} : p \in Listens \cup Clients}

Queued(c, l) == \E i \in 1 .. Len(queue[l]) : queue[l][i] = c

Init ==
  /\ transport \in Transports
  /\ owner \in {[a \in Addresses |-> Nobody]} \cup
               (IF transport = "ipc" THEN {[a \in Addresses |-> Stale]} ELSE {})
  /\ lpc = [l \in Listens |-> "new"]
  /\ closed = {}
  /\ queue = [l \in Listens |-> <<>>]
  /\ setup = [l \in Listens |-> Nobody]
  /\ accepted = [l \in Listens |-> {}]
  /\ lost = {}
  /\ cpc = [c \in Clients |-> "new"]
  /\ overlapped = {}
  /\ dropped = {}

----------------------------------------------------------------------------
(* bind takes an address where there is nobody.  Left out are the failures that
   do not depend on other listeners: a path that cannot be a socket (no
   permission, too long, a directory), a parent that create_dir_all cannot
   make, an address that is not local, no file descriptors. *)
Bind(l) ==
  /\ IF owner[Addr(l)] = Nobody
       THEN /\ lpc' = [lpc EXCEPT ![l] = "open"]
            /\ owner' = [owner EXCEPT ![Addr(l)] = l]
       ELSE /\ lpc' = [lpc EXCEPT ![l] = "failed"]
            /\ UNCHANGED owner
  /\ UNCHANGED <<transport, closed, overlapped, conns>>

listen_tcp(l) == transport = "tcp" /\ lpc[l] = "new" /\ url[l].valid /\ Bind(l)
listen_ws(l) == transport = "ws" /\ lpc[l] = "new" /\ url[l].valid /\ Bind(l)

(* listen of IPC removes what it finds at the path, and then binds. *)
Overlaps(l) ==
  {{l, m} : m \in {k \in Listens : lpc[k] = "unlinked" /\ Addr(k) = Addr(l)}}

listen_unlink_KeepsStale(l) ==
  /\ transport = "ipc" /\ lpc[l] = "new" /\ url[l].valid
  /\ lpc' = [lpc EXCEPT ![l] = "unlinked"]
  /\ owner' = IF owner[Addr(l)] = Stale THEN owner ELSE [owner EXCEPT ![Addr(l)] = Nobody]
  /\ overlapped' = overlapped \cup Overlaps(l)
  /\ UNCHANGED <<transport, closed, conns>>

listen_unlink(l) ==
  /\ transport = "ipc" /\ lpc[l] = "new" /\ url[l].valid
  /\ lpc' = [lpc EXCEPT ![l] = "unlinked"]
  /\ owner' = [owner EXCEPT ![Addr(l)] = Nobody]
  /\ overlapped' = overlapped \cup Overlaps(l)
  /\ UNCHANGED <<transport, closed, conns>>

listen_bind_Unlinks(l) ==
  /\ transport = "ipc" /\ lpc[l] = "unlinked"
  /\ lpc' = [lpc EXCEPT ![l] = "open"]
  /\ owner' = [owner EXCEPT ![Addr(l)] = Nobody]
  /\ UNCHANGED <<transport, closed, overlapped, conns>>

listen_bind(l) == transport = "ipc" /\ lpc[l] = "unlinked" /\ Bind(l)

(* The URL does not parse, has another scheme or lacks a part; a listener's is
   wss. *)
listen_invalid(l) ==
  /\ lpc[l] = "new" /\ ~url[l].valid
  /\ lpc' = [lpc EXCEPT ![l] = "failed"]
  /\ UNCHANGED <<transport, owner, closed, overlapped, conns>>

(* close of an IPC listener removes the file at its path, whoever listens
   there; TCP and WebSocket listeners leave everything to drop. *)
close_ipc(l) ==
  /\ transport = "ipc" /\ lpc[l] = "open"
  /\ closed' = closed \cup {l}
  /\ owner' = [owner EXCEPT ![Addr(l)] = Nobody]
  /\ UNCHANGED <<transport, lpc, overlapped, conns>>

close_tcp(l) ==
  /\ transport # "ipc" /\ lpc[l] = "open"
  /\ closed' = closed \cup {l}
  /\ UNCHANGED <<transport, lpc, owner, overlapped, conns>>

(* The listener is dropped, or its process dies.  Its connections that were
   not handed over are reset; a socket file stays. *)
drop(l) ==
  /\ lpc[l] = "open"
  /\ lpc' = [lpc EXCEPT ![l] = "dropped"]
  /\ owner' = [a \in Addresses |->
                 IF owner[a] # l THEN owner[a]
                 ELSE IF transport = "ipc" THEN Stale ELSE Nobody]
  /\ lost' = lost \cup {c \in Clients : c = setup[l] \/ Queued(c, l)}
  /\ queue' = [queue EXCEPT ![l] = <<>>]
  /\ setup' = [setup EXCEPT ![l] = Nobody]
  /\ UNCHANGED <<transport, closed, overlapped, accepted, cpc, dropped>>

----------------------------------------------------------------------------
(* connect: the operating system queues the connection with the listener that
   is behind the address now.  A TCP or IPC client then has its stream; a
   WebSocket client waits for the answer to its handshake. *)
Reaches(c, l) == owner[Addr(c)] = l /\ Len(queue[l]) < Backlog

Enqueue(c, state) ==
  /\ cpc[c] = "new" /\ url[c].valid
  /\ \E l \in Listens :
       /\ Reaches(c, l)
       /\ queue' = [queue EXCEPT ![l] = Append(@, c)]
  /\ cpc' = [cpc EXCEPT ![c] = state]
  /\ UNCHANGED <<transport, files, setup, accepted, lost, dropped>>

connect_tcp(c) == transport = "tcp" /\ Enqueue(c, "open")
connect_ipc(c) == transport = "ipc" /\ Enqueue(c, "open")
connect_ws(c) == transport = "ws" /\ Enqueue(c, "connecting")

(* An invalid URL, nobody at the address, a full queue until the timeout; or
   the server has dropped the connection before the handshake. *)
connect_err(c) ==
  /\ \/ cpc[c] = "new" /\ ~(url[c].valid /\ \E l \in Listens : Reaches(c, l))
     \/ cpc[c] = "connecting" /\ c \in lost
  /\ cpc' = [cpc EXCEPT ![c] = "refused"]
  /\ UNCHANGED <<transport, files, queue, setup, accepted, lost, dropped>>

(* The client drops its stream, or the future of its connect. *)
disconnect(c) ==
  /\ cpc[c] \in {"connecting", "open"}
  /\ cpc' = [cpc EXCEPT ![c] = "gone"]
  /\ UNCHANGED <<transport, files, queue, setup, accepted, lost, dropped>>

----------------------------------------------------------------------------
(* accept. *)
Accepting(l) == lpc[l] = "open" /\ setup[l] = Nobody /\ queue[l] # <<>>

(* The oldest queued connection is returned. *)
Hand(l) ==
  /\ Accepting(l)
  /\ accepted' = [accepted EXCEPT ![l] = @ \cup {Head(queue[l])}]
  /\ queue' = [queue EXCEPT ![l] = Tail(@)]
  /\ UNCHANGED <<transport, files, setup, lost, cpc, dropped>>

accept_ipc(l) == transport = "ipc" /\ Hand(l)
accept_tcp(l) == transport = "tcp" /\ Hand(l)

(* TCP: apply_config fails on a socket whose client has gone, and the
   connection is dropped. *)
apply_config_err_Any(l) ==
  /\ transport = "tcp" /\ Accepting(l)
  /\ lost' = lost \cup {Head(queue[l])}
  /\ queue' = [queue EXCEPT ![l] = Tail(@)]
  /\ UNCHANGED <<transport, files, setup, accepted, cpc, dropped>>

apply_config_err(l) ==
  /\ transport = "tcp" /\ Accepting(l) /\ cpc[Head(queue[l])] = "gone"
  /\ lost' = lost \cup {Head(queue[l])}
  /\ queue' = [queue EXCEPT ![l] = Tail(@)]
  /\ UNCHANGED <<transport, files, setup, accepted, cpc, dropped>>

(* WebSocket: the TCP connection is taken, and accept_async awaits. *)
accept_ws_Any(l) ==
  /\ Accepting(l)
  /\ setup' = [setup EXCEPT ![l] = Head(queue[l])]
  /\ queue' = [queue EXCEPT ![l] = Tail(@)]
  /\ UNCHANGED <<transport, files, accepted, lost, cpc, dropped>>

accept_ws(l) ==
  /\ transport = "ws" /\ Accepting(l)
  /\ setup' = [setup EXCEPT ![l] = Head(queue[l])]
  /\ queue' = [queue EXCEPT ![l] = Tail(@)]
  /\ UNCHANGED <<transport, files, accepted, lost, cpc, dropped>>

handshake(l) ==
  LET c == setup[l] IN
  /\ c # Nobody /\ c \notin Mute \cup Foreign /\ cpc[c] = "connecting"
  /\ accepted' = [accepted EXCEPT ![l] = @ \cup {c}]
  /\ setup' = [setup EXCEPT ![l] = Nobody]
  /\ cpc' = [cpc EXCEPT ![c] = "open"]
  /\ UNCHANGED <<transport, files, queue, lost, dropped>>

(* The connection ends before the handshake does, or what it carries is none:
   accept returns an error, and the connection is dropped. *)
handshake_err_Stuck(l) ==
  LET c == setup[l] IN
  /\ c # Nobody /\ (cpc[c] = "gone" \/ c \in Foreign)
  /\ lost' = lost \cup {c}
  /\ UNCHANGED <<transport, files, queue, setup, accepted, cpc, dropped>>

handshake_err(l) ==
  LET c == setup[l] IN
  /\ c # Nobody /\ (cpc[c] = "gone" \/ c \in Foreign)
  /\ lost' = lost \cup {c}
  /\ setup' = [setup EXCEPT ![l] = Nobody]
  /\ UNCHANGED <<transport, files, queue, accepted, cpc, dropped>>

(* The future of accept is dropped: a timeout around it, a select.  A TCP or
   IPC connection is still in the queue then; a handshake ends with it. *)
cancel(l) ==
  LET c == setup[l] IN
  /\ c # Nobody
  /\ lost' = lost \cup {c} /\ dropped' = dropped \cup {c}
  /\ setup' = [setup EXCEPT ![l] = Nobody]
  /\ UNCHANGED <<transport, files, queue, accepted, cpc>>

Listen(l) ==
  \/ listen_tcp(l) \/ listen_ws(l) \/ listen_unlink(l) \/ listen_bind(l)
  \/ listen_invalid(l)
Accept(l) ==
  \/ accept_ipc(l) \/ accept_tcp(l) \/ apply_config_err(l)
  \/ accept_ws(l) \/ handshake(l) \/ handshake_err(l)

Next ==
  \/ \E l \in Listens :
       Listen(l) \/ close_ipc(l) \/ close_tcp(l) \/ drop(l) \/ Accept(l) \/ cancel(l)
  \/ \E c \in Clients :
       \/ connect_tcp(c) \/ connect_ipc(c) \/ connect_ws(c)
       \/ connect_err(c) \/ disconnect(c)

Spec == Init /\ [][Next]_vars

(* A server calls accept in a loop.  (Those of the examples leave it, and drop
   the listener, at the first error: drop is then the step that follows.) *)
FairSpec == Spec /\ \A l \in Listens : WF_vars(Accept(l))

----------------------------------------------------------------------------
(* Types; only a WebSocket listener is ever in a handshake. *)
TypeOK ==
  /\ transport \in Transports
  /\ owner \in [Addresses -> Listens \cup {Nobody, Stale}]
  /\ lpc \in [Listens -> {"new", "unlinked", "open", "failed", "dropped"}]
  /\ closed \subseteq Listens
  /\ \A l \in Listens : queue[l] \in Seq(Clients) /\ Len(queue[l]) <= Backlog
  /\ setup \in [Listens -> Clients \cup {Nobody}]
  /\ transport # "ws" => \A l \in Listens : setup[l] = Nobody
  /\ accepted \in [Listens -> SUBSET Clients]
  /\ lost \subseteq Clients /\ dropped \subseteq lost
  /\ cpc \in [Clients -> {"new", "connecting", "open", "refused", "gone"}]
  /\ overlapped \subseteq SUBSET Listens

(* A listener that is open and was not closed is the one behind its address.
   Only IPC makes an exception: another listen or close whose URL names the
   same path, however it is spelt, has cut it off. *)
CutOffOnlyByOthers ==
  \A l \in Listens :
    lpc[l] = "open" /\ l \notin closed /\ owner[Addr(l)] # l =>
      /\ transport = "ipc"
      /\ \E m \in Listens \ {l} : lpc[m] # "new" /\ url[m].valid /\ Addr(m) = Addr(l)

(* listen with a valid URL fails on IPC only when another listen at the path
   was between its two steps at the same time: a file left by a dead process
   or by a listener that was dropped is no obstacle. *)
BindFailsOnlyInRace ==
  \A l \in Listens :
    transport = "ipc" /\ url[l].valid /\ lpc[l] = "failed" =>
      \E m \in Listens \ {l} : {l, m} \in overlapped

(* A connection is in one place: in the queue of one listener, once, in one
   handshake, handed over once, or lost; it is somewhere exactly if connect
   has reached a listener, and that was one at the client's address. *)
Places(c) ==
  {p \in {"queue"} \X Listens \X (1 .. Backlog) :
     p[3] <= Len(queue[p[2]]) /\ queue[p[2]][p[3]] = c}
  \cup {<<"setup", l>> : l \in {k \in Listens : setup[k] = c}}
  \cup {<<"accepted", l>> : l \in {k \in Listens : c \in accepted[k]}}
  \cup {<<"lost">> : d \in {c} \cap lost}

ConnectionsConserved ==
  \A c \in Clients :
    /\ \A p, q \in Places(c) : p = q
    /\ cpc[c] \in {"connecting", "open", "gone"} => Places(c) # {}
    /\ cpc[c] = "new" => Places(c) = {}
    /\ \A p \in Places(c) : Len(p) > 1 => Addr(p[2]) = Addr(c)

(* A client that waits in the queue, does not leave and speaks the transport's
   protocol is handed over in the end: neither the clients around it that fail
   or leave nor accepts that are dropped in the meantime cost it its
   connection.  It can miss out if its listener is dropped, if an accept is
   dropped in its own handshake, or behind a client that sends nothing. *)
StayingIsAccepted ==
  \A c \in Clients :
    (\E l \in Listens : Queued(c, l)) ~>
      \/ \E l \in Listens :
           \/ c \in accepted[l]
           \/ lpc[l] = "dropped" /\ Addr(l) = Addr(c)
           \/ setup[l] \in Mute
      \/ cpc[c] = "gone"
      \/ transport = "ws" /\ (c \in dropped \/ c \in Foreign)

(* A connection in the queue is taken out of it in the end, unless a client
   that sends nothing holds the handshake in front of it. *)
QueuedIsServed ==
  \A c \in Clients :
    (\E l \in Listens : Queued(c, l)) ~>
      \A l \in Listens : Queued(c, l) => setup[l] \in Mute
=============================================================================
