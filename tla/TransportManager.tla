-------------------------- MODULE TransportManager --------------------------
(***************************************************************************)
(* The TransportManager: a registry of transports and an LRU cache of       *)
(* connection statistics, shared by tasks that connect concurrently.        *)
(*                                                                         *)
(* connect locks the statistics twice, before the transport's connect and   *)
(* after it has succeeded; between the two other tasks connect, entries are *)
(* evicted, expire or are cleared.  Time is a counter read by               *)
(* Instant::now().                                                         *)
(*                                                                         *)
(* The lru crate's cache (external) is a set of keys with a recency order:  *)
(* <<u, v>> \in newer says that u was touched after v.                      *)
(***************************************************************************)
EXTENDS Naturals, FiniteSets

CONSTANTS
  Tasks,       \* tasks that call connect
  Urls,        \* the URLs they connect to
  Transports,  \* transport implementations: records [type, urls]
  Defaults,    \* the ones with_cache_config registers
  Nothing,     \* no URL, no transport
  cache_size, cache_ttl,
  MaxTime,     \* bound on the clock
  MaxWins      \* bound on the successful connects to one URL

ASSUME ManagerAssumption ==
  /\ IsFiniteSet(Urls)
  /\ Defaults \subseteq Transports
  /\ Nothing \notin Urls /\ Nothing \notin Transports
  /\ cache_size \in Nat /\ cache_ttl \in Nat
  /\ MaxTime \in Nat /\ MaxWins \in Nat

VARIABLES
  transports,        \* the registered transports, at most one of each type
  cached,            \* keys of connection_stats
  newer,             \* their recency order
  last_used, connection_count,   \* CacheEntry of each key (0 when not cached)
  now,
  pc, url, transport,  \* per task: where in connect, its URL, its transport
  wins,              \* successful connects to a URL
  wins_before        \* ... of which before its entry was made

stats == <<cached, newer, last_used, connection_count, wins_before>>
tasks == <<pc, url, transport>>
vars == <<transports, cached, newer, last_used, connection_count, now, pc, url,
          transport, wins, wins_before>>

(* with_cache_config: a cache of size 0 is given one entry. *)
capacity == IF cache_size = 0 THEN 1 ELSE cache_size

(* ... and the default transports are registered before connect is called. *)
Init ==
  /\ transports = Defaults
  /\ cached = {} /\ newer = {}
  /\ last_used = [u \in Urls |-> 0]
  /\ connection_count = [u \in Urls |-> 0]
  /\ now = 0
  /\ pc = [t \in Tasks |-> "idle"]
  /\ url = [t \in Tasks |-> Nothing]
  /\ transport = [t \in Tasks |-> Nothing]
  /\ wins = [u \in Urls |-> 0] /\ wins_before = [u \in Urls |-> 0]

----------------------------------------------------------------------------
(* The recency order after u was touched, and after the keys R were removed. *)
Touched(u) ==
  {p \in newer : p[1] # u /\ p[2] # u} \cup {<<u, v>> : v \in cached \ {u}}

Without(R) == {p \in newer : p[1] \notin R /\ p[2] \notin R}

Zeroed(f, R) == [u \in Urls |-> IF u \in R THEN 0 ELSE f[u]]

(* The key that LruCache::put evicts to make room. *)
IsOldest(v) == v \in cached /\ \A u \in cached \ {v} : <<u, v>> \in newer

Expired(u) == now - last_used[u] >= cache_ttl

----------------------------------------------------------------------------
(* insert: a transport replaces the one of the same type. *)
register_transport(i) ==
  /\ transports' = {j \in transports : j.type # i.type} \cup {i}
  /\ UNCHANGED <<stats, now, tasks, wins>>

(* track_connection_attempt on a key that is cached: get_mut touches it. *)
track_attempt_hit(u) ==
  /\ u \in cached
  /\ newer' = Touched(u)
  /\ last_used' = [last_used EXCEPT ![u] = now]
  /\ UNCHANGED <<cached, connection_count, wins_before>>

(* ... and on a new key: put, evicting the oldest key of a full cache. *)
track_attempt_put_CountsOne(u) ==
  /\ u \notin cached
  /\ \E R \in SUBSET cached :
       /\ IF Cardinality(cached) < capacity
          THEN R = {} ELSE \E v \in cached : IsOldest(v) /\ R = {v}
       /\ cached' = (cached \ R) \cup {u}
       /\ newer' = Without(R) \cup {<<u, v>> : v \in cached \ R}
       /\ last_used' = [Zeroed(last_used, R) EXCEPT ![u] = now]
       /\ connection_count' = [Zeroed(connection_count, R) EXCEPT ![u] = 1]
       /\ wins_before' = [Zeroed(wins_before, R) EXCEPT ![u] = wins[u]]

track_attempt_put_AnyVictim(u) ==
  /\ u \notin cached
  /\ \E R \in SUBSET cached :
       /\ IF Cardinality(cached) < capacity
          THEN R = {} ELSE \E v \in cached : R = {v}
       /\ cached' = (cached \ R) \cup {u}
       /\ newer' = Without(R) \cup {<<u, v>> : v \in cached \ R}
       /\ last_used' = [Zeroed(last_used, R) EXCEPT ![u] = now]
       /\ connection_count' = [Zeroed(connection_count, R) EXCEPT ![u] = 0]
       /\ wins_before' = [Zeroed(wins_before, R) EXCEPT ![u] = wins[u]]

track_attempt_put(u) ==
  /\ u \notin cached
  /\ \E R \in SUBSET cached :
       /\ IF Cardinality(cached) < capacity
          THEN R = {} ELSE \E v \in cached : IsOldest(v) /\ R = {v}
       /\ cached' = (cached \ R) \cup {u}
       /\ newer' = Without(R) \cup {<<u, v>> : v \in cached \ R}
       /\ last_used' = [Zeroed(last_used, R) EXCEPT ![u] = now]
       /\ connection_count' = [Zeroed(connection_count, R) EXCEPT ![u] = 0]
       /\ wins_before' = [Zeroed(wins_before, R) EXCEPT ![u] = wins[u]]

(* connect, up to the choice of a transport. *)
connect_begin(t, u) ==
  /\ pc[t] = "idle"
  /\ track_attempt_hit(u) \/ track_attempt_put(u)
  /\ pc' = [pc EXCEPT ![t] = "tracked"]
  /\ url' = [url EXCEPT ![t] = u]
  /\ UNCHANGED <<transports, now, transport, wins>>

(* The map is iterated in no particular order: any registered transport that
   supports the URL may be the one found. *)
find_transport_for_url(t) ==
  /\ pc[t] = "tracked"
  /\ \E i \in transports :
       /\ url[t] \in i.urls
       /\ transport' = [transport EXCEPT ![t] = i]
  /\ pc' = [pc EXCEPT ![t] = "connecting"]
  /\ UNCHANGED <<transports, stats, now, url, wins>>

(* UnsupportedTransport: the attempt stays in the statistics. *)
connect_unsupported(t) ==
  /\ pc[t] = "tracked"
  /\ \A i \in transports : url[t] \notin i.urls
  /\ pc' = [pc EXCEPT ![t] = "idle"]
  /\ url' = [url EXCEPT ![t] = Nothing]
  /\ UNCHANGED <<transports, stats, now, transport, wins>>

(* track_successful_connection: counts only while the key is cached, and does
   not put it back. *)
track_success(u) ==
  IF u \in cached
  THEN /\ connection_count' = [connection_count EXCEPT ![u] = @ + 1]
       /\ last_used' = [last_used EXCEPT ![u] = now]
       /\ newer' = Touched(u)
       /\ UNCHANGED <<cached, wins_before>>
  ELSE UNCHANGED stats

(* The transport's connect succeeds ... *)
connect_success(t) ==
  /\ pc[t] = "connecting"
  /\ wins[url[t]] < MaxWins
  /\ track_success(url[t])
  /\ wins' = [wins EXCEPT ![url[t]] = @ + 1]
  /\ pc' = [pc EXCEPT ![t] = "idle"]
  /\ url' = [url EXCEPT ![t] = Nothing]
  /\ transport' = [transport EXCEPT ![t] = Nothing]
  /\ UNCHANGED <<transports, now>>

(* ... fails, or the caller drops the future. *)
connect_failure(t) ==
  /\ pc[t] = "connecting"
  /\ pc' = [pc EXCEPT ![t] = "idle"]
  /\ url' = [url EXCEPT ![t] = Nothing]
  /\ transport' = [transport EXCEPT ![t] = Nothing]
  /\ UNCHANGED <<transports, stats, now, wins>>

Remove(R) ==
  /\ cached' = cached \ R
  /\ newer' = Without(R)
  /\ last_used' = Zeroed(last_used, R)
  /\ connection_count' = Zeroed(connection_count, R)
  /\ wins_before' = Zeroed(wins_before, R)
  /\ UNCHANGED <<transports, now, tasks, wins>>

clear_cache == Remove(cached)

cleanup_expired_entries == Remove({u \in cached : Expired(u)})

(* The clock advances. *)
Tick ==
  /\ now < MaxTime
  /\ now' = now + 1
  /\ UNCHANGED <<transports, stats, tasks, wins>>

Next ==
  \/ \E i \in Transports : register_transport(i)
  \/ \E t \in Tasks, u \in Urls : connect_begin(t, u)
  \/ \E t \in Tasks :
       \/ find_transport_for_url(t) \/ connect_unsupported(t)
       \/ connect_success(t) \/ connect_failure(t)
  \/ clear_cache
  \/ cleanup_expired_entries
  \/ Tick

Spec == Init /\ [][Next]_vars

----------------------------------------------------------------------------
(* Types, and the recency order relates only keys that are cached. *)
TypeOK ==
  /\ transports \subseteq Transports
  /\ cached \subseteq Urls
  /\ newer \subseteq cached \X cached
  /\ last_used \in [Urls -> Nat] /\ connection_count \in [Urls -> Nat]
  /\ now \in Nat
  /\ pc \in [Tasks -> {"idle", "tracked", "connecting"}]
  /\ url \in [Tasks -> Urls \cup {Nothing}]
  /\ transport \in [Tasks -> Transports \cup {Nothing}]
  /\ wins \in [Urls -> Nat] /\ wins_before \in [Urls -> Nat]

(* connection_stats never outgrows its capacity, whatever connects and
   clean-ups overlap. *)
WithinCapacity == Cardinality(cached) <= capacity

RecencyTotal ==
  /\ \A u \in cached : <<u, u>> \notin newer
  /\ \A u, v \in cached :
       u # v => (<<u, v>> \in newer <=> <<v, u>> \notin newer)
  /\ \A u, v, w \in cached :
       <<u, v>> \in newer /\ <<v, w>> \in newer => <<u, w>> \in newer

RecencyAgrees ==
  \A u, v \in cached : <<u, v>> \in newer => last_used[u] >= last_used[v]

(* The recency order of the LRU list is a strict total order of the keys and
   agrees with the time stamps the entries carry: what put evicts is an entry
   that was used no later than any other. *)
RecencyIsTime == RecencyTotal /\ RecencyAgrees

(* connection_count is the number of connects to the URL that succeeded since
   its entry was made: connects that overlap lose no update, and one that
   began before the entry was dropped does not bring an old count back. *)
CountExact == \A u \in cached : wins[u] = wins_before[u] + connection_count[u]

(* A key leaves the statistics only when they are cleared, when it has not
   been used for cache_ttl, or when a full cache makes room for another key
   and no other key was used before it. *)
RemovalJustified ==
  [][\A u \in cached \ cached' :
       \/ cached' = {} /\ newer' = {}
       \/ Expired(u)
       \/ /\ Cardinality(cached) >= capacity
          /\ cached' \ cached # {}
          /\ \A v \in cached : last_used[v] >= last_used[u]]_vars
=============================================================================
