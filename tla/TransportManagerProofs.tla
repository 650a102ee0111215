----------------------- MODULE TransportManagerProofs -----------------------
(***************************************************************************)
(* Proofs about TransportManager, for any number of tasks and URLs, every   *)
(* cache size and every interleaving of connects, clean-ups and clears.     *)
(***************************************************************************)
EXTENDS TransportManager, FiniteSetTheorems, TLAPS

(* No entry was used in the future. *)
StampsPast == \A u \in cached : last_used[u] <= now

(* A task in the middle of a connect has a URL. *)
InFlight == \A t \in Tasks : pc[t] # "idle" => url[t] \in Urls

IInv ==
  /\ TypeOK /\ StampsPast /\ InFlight
  /\ RecencyTotal /\ RecencyAgrees
  /\ WithinCapacity /\ CountExact

(* The part of the invariant that is about the cache. *)
CacheOK ==
  /\ cached \subseteq Urls /\ newer \subseteq cached \X cached
  /\ last_used \in [Urls -> Nat] /\ connection_count \in [Urls -> Nat]
  /\ wins_before \in [Urls -> Nat]
  /\ StampsPast /\ RecencyTotal /\ RecencyAgrees /\ WithinCapacity

----------------------------------------------------------------------------
(* Which pairs the recency order holds after a touch, a removal, an insert. *)
LEMMA TouchedPairs ==
  ASSUME NEW u \in cached, newer \subseteq cached \X cached
  PROVE  /\ Touched(u) \subseteq cached \X cached
         /\ \A a, b \in cached :
              <<a, b>> \in Touched(u) <=>
                \/ <<a, b>> \in newer /\ a # u /\ b # u
                \/ a = u /\ b # u
<1>1. \A p \in newer : \E a, b \in cached : p = <<a, b>>
  OBVIOUS
<1>2. \A a, b : <<a, b>>[1] = a /\ <<a, b>>[2] = b
  OBVIOUS
<1> DEFINE Old == {p \in newer : p[1] # u /\ p[2] # u}
           New == {<<u, v>> : v \in cached \ {u}}
<1>3. Touched(u) = Old \cup New
  BY DEF Touched
<1>4. Old \subseteq cached \X cached /\ New \subseteq cached \X cached
  OBVIOUS
<1>5. \A a, b \in cached : <<a, b>> \in Old <=> <<a, b>> \in newer /\ a # u /\ b # u
  BY <1>2
<1>6. \A a, b \in cached : <<a, b>> \in New <=> a = u /\ b # u
  OBVIOUS
<1> HIDE DEF Old, New
<1> QED
  BY <1>3, <1>4, <1>5, <1>6

(* The same for the keys that a removal leaves. *)
LEMMA WithoutPairs ==
  ASSUME NEW R \in SUBSET cached, newer \subseteq cached \X cached
  PROVE  /\ Without(R) \subseteq (cached \ R) \X (cached \ R)
         /\ \A a, b \in cached \ R : <<a, b>> \in Without(R) <=> <<a, b>> \in newer
<1>1. \A p \in newer : \E a, b \in cached : p = <<a, b>>
  OBVIOUS
<1>2. \A a, b : <<a, b>>[1] = a /\ <<a, b>>[2] = b
  OBVIOUS
<1> QED
  BY <1>1, <1>2 DEF Without

(* Cardinality of the cache after a removal. *)
LEMMA CachedFinite ==
  ASSUME cached \subseteq Urls
  PROVE  /\ IsFiniteSet(cached) /\ Cardinality(cached) \in Nat
         /\ \A R \in SUBSET cached :
              /\ IsFiniteSet(cached \ R) /\ Cardinality(cached \ R) \in Nat
              /\ Cardinality(cached \ R) <= Cardinality(cached)
<1>1. IsFiniteSet(cached)
  BY ManagerAssumption, FS_Subset
<1>2. ASSUME NEW R \in SUBSET cached
      PROVE  IsFiniteSet(cached \ R) /\ Cardinality(cached \ R) <= Cardinality(cached)
  BY <1>1, FS_Subset
<1> QED
  BY <1>1, <1>2, FS_CardinalityType

----------------------------------------------------------------------------
(* get_mut on a cached key: it becomes the newest, with the newest stamp. *)
LEMMA TouchKeepsCache ==
  ASSUME CacheOK, now \in Nat, NEW u \in cached,
         newer' = Touched(u), cached' = cached, now' = now,
         last_used' = [last_used EXCEPT ![u] = now],
         connection_count' \in [Urls -> Nat], wins_before' = wins_before
  PROVE  CacheOK'
<1>1. /\ Touched(u) \subseteq cached \X cached
      /\ \A a, b \in cached :
           <<a, b>> \in Touched(u) <=>
             \/ <<a, b>> \in newer /\ a # u /\ b # u
             \/ a = u /\ b # u
  BY TouchedPairs DEF CacheOK
<1>2. /\ last_used' \in [Urls -> Nat] /\ last_used'[u] = now
      /\ \A v \in cached : v # u => last_used'[v] = last_used[v]
      /\ \A v \in cached : last_used[v] \in Nat /\ last_used[v] <= now
  BY DEF CacheOK, StampsPast
<1>3. StampsPast'
  BY <1>2 DEF StampsPast
<1>4. RecencyTotal'
  BY <1>1 DEF CacheOK, RecencyTotal
<1>5. RecencyAgrees'
  <2> SUFFICES ASSUME NEW a \in cached, NEW b \in cached, <<a, b>> \in Touched(u)
               PROVE  last_used'[a] >= last_used'[b]
    BY DEF RecencyAgrees
  <2>1. CASE a = u /\ b # u
    BY <2>1, <1>2
  <2>2. CASE <<a, b>> \in newer /\ a # u /\ b # u
    BY <2>2, <1>2 DEF CacheOK, RecencyAgrees
  <2> QED
    BY <2>1, <2>2, <1>1
<1>6. WithinCapacity'
  BY DEF CacheOK, WithinCapacity
<1> QED
  BY <1>1, <1>2, <1>3, <1>4, <1>5, <1>6 DEF CacheOK

(* Removing keys leaves the order and the entries of the others alone. *)
LEMMA RemoveKeepsCache ==
  ASSUME CacheOK, NEW R \in SUBSET cached, Remove(R)
  PROVE  CacheOK'
<1>1. /\ newer' \subseteq cached' \X cached'
      /\ \A a, b \in cached' : <<a, b>> \in newer' <=> <<a, b>> \in newer
      /\ cached' \subseteq cached
  BY WithoutPairs DEF CacheOK, Remove
<1>2. /\ last_used' \in [Urls -> Nat] /\ connection_count' \in [Urls -> Nat]
      /\ wins_before' \in [Urls -> Nat]
      /\ \A v \in cached' : last_used'[v] = last_used[v]
  BY DEF CacheOK, Remove, Zeroed
<1>3. StampsPast' /\ RecencyAgrees'
  BY <1>1, <1>2 DEF CacheOK, StampsPast, RecencyAgrees, Remove
<1>4. RecencyTotal'
  BY <1>1 DEF CacheOK, RecencyTotal
<1>5. WithinCapacity'
  <2>1. /\ Cardinality(cached \ R) <= Cardinality(cached)
        /\ Cardinality(cached \ R) \in Nat /\ Cardinality(cached) \in Nat
    BY CachedFinite DEF CacheOK
  <2>2. Cardinality(cached) <= capacity /\ capacity \in Nat
    BY ManagerAssumption DEF CacheOK, WithinCapacity, capacity
  <2> QED
    BY <2>1, <2>2 DEF WithinCapacity, Remove, capacity
<1> QED
  BY <1>1, <1>2, <1>3, <1>4, <1>5 DEF CacheOK

(* put: the new key is the newest; a full cache gives its oldest key up. *)
LEMMA PutKeepsCache ==
  ASSUME CacheOK, now \in Nat, wins \in [Urls -> Nat], now' = now,
         NEW u \in Urls, track_attempt_put(u)
  PROVE  CacheOK'
<1>1. PICK R \in SUBSET cached :
        /\ IF Cardinality(cached) < capacity
           THEN R = {} ELSE \E v \in cached : IsOldest(v) /\ R = {v}
        /\ cached' = (cached \ R) \cup {u}
        /\ newer' = Without(R) \cup {<<u, v>> : v \in cached \ R}
        /\ last_used' = [Zeroed(last_used, R) EXCEPT ![u] = now]
        /\ connection_count' = [Zeroed(connection_count, R) EXCEPT ![u] = 0]
        /\ wins_before' = [Zeroed(wins_before, R) EXCEPT ![u] = wins[u]]
  BY DEF track_attempt_put
<1>2. u \notin cached
  BY DEF track_attempt_put
<1> DEFINE kept == cached \ R
           New == {<<u, v>> : v \in kept}
<1>3. /\ Without(R) \subseteq kept \X kept
      /\ \A a, b \in kept : <<a, b>> \in Without(R) <=> <<a, b>> \in newer
  BY WithoutPairs DEF CacheOK
<1>4. /\ New \subseteq cached' \X cached'
      /\ \A a, b \in cached' : <<a, b>> \in New <=> a = u /\ b # u
  BY <1>1, <1>2
<1>5. newer' = Without(R) \cup New
  BY <1>1
<1>6. cached' = kept \cup {u} /\ u \notin kept
  BY <1>1, <1>2
<1>7. /\ newer' \subseteq cached' \X cached'
      /\ \A a, b \in cached' :
           <<a, b>> \in newer' <=>
             \/ a \in kept /\ b \in kept /\ <<a, b>> \in newer
             \/ a = u /\ b # u
  <2> HIDE DEF New, kept
  <2> QED
    BY <1>3, <1>4, <1>5, <1>6
<1>8. /\ last_used' \in [Urls -> Nat] /\ connection_count' \in [Urls -> Nat]
      /\ wins_before' \in [Urls -> Nat]
      /\ last_used'[u] = now
      /\ \A v \in kept : last_used'[v] = last_used[v]
      /\ \A v \in kept : last_used[v] \in Nat /\ last_used[v] <= now
  BY <1>1, <1>2 DEF CacheOK, StampsPast, Zeroed
<1>9. cached' \subseteq Urls
  BY <1>6 DEF CacheOK
<1>10. StampsPast'
  BY <1>6, <1>8 DEF StampsPast
<1>11. RecencyTotal'
  <2>1. kept \subseteq cached
    OBVIOUS
  <2> HIDE DEF kept
  <2> QED
    BY <1>6, <1>7, <2>1 DEF CacheOK, RecencyTotal
<1>12. RecencyAgrees'
  <2> SUFFICES ASSUME NEW a \in cached', NEW b \in cached', <<a, b>> \in newer'
               PROVE  last_used'[a] >= last_used'[b]
    BY DEF RecencyAgrees
  <2>1. CASE a = u /\ b # u
    BY <2>1, <1>6, <1>8
  <2>2. CASE a \in kept /\ b \in kept /\ <<a, b>> \in newer
    BY <2>2, <1>8 DEF CacheOK, RecencyAgrees
  <2> QED
    BY <2>1, <2>2, <1>7
<1>13. WithinCapacity'
  <2>1. IsFiniteSet(cached) /\ Cardinality(cached) \in Nat /\ IsFiniteSet(kept)
        /\ Cardinality(kept) \in Nat
    BY CachedFinite DEF CacheOK
  <2>2. Cardinality(kept \cup {u}) = Cardinality(kept) + 1
    BY <2>1, <1>6, FS_AddElement
  <2>3. Cardinality(cached) <= capacity /\ capacity \in Nat
    BY ManagerAssumption DEF CacheOK, WithinCapacity, capacity
  <2>4. Cardinality(kept) + 1 <= capacity
    <3>1. CASE Cardinality(cached) < capacity
      <4>1. kept = cached
        BY <3>1, <1>1
      <4> QED
        BY <3>1, <4>1, <2>1, <2>3
    <3>2. CASE ~(Cardinality(cached) < capacity)
      <4>1. PICK v \in cached : R = {v}
        BY <3>2, <1>1
      <4>2. Cardinality(kept) = Cardinality(cached) - 1
        BY <4>1, <2>1, FS_RemoveElement
      <4> QED
        BY <4>2, <2>1, <2>3
    <3> QED
      BY <3>1, <3>2
  <2> QED
    BY <1>6, <2>2, <2>4 DEF WithinCapacity, capacity
<1> QED
  BY <1>7, <1>8, <1>9, <1>10, <1>11, <1>12, <1>13 DEF CacheOK

----------------------------------------------------------------------------
(* The cache's part and the rest make up the invariant. *)
LEMMA IInvParts ==
  IInv <=>
    /\ CacheOK /\ CountExact /\ InFlight
    /\ transports \subseteq Transports
    /\ now \in Nat /\ wins \in [Urls -> Nat]
    /\ pc \in [Tasks -> {"idle", "tracked", "connecting"}]
    /\ url \in [Tasks -> Urls \cup {Nothing}]
    /\ transport \in [Tasks -> Transports \cup {Nothing}]
  BY DEF IInv, CacheOK, TypeOK

(* The same, of the state after a step. *)
LEMMA IInvAfter ==
  ASSUME CacheOK', CountExact', InFlight',
         (transports \subseteq Transports)',
         (now \in Nat)', (wins \in [Urls -> Nat])',
         (pc \in [Tasks -> {"idle", "tracked", "connecting"}])',
         (url \in [Tasks -> Urls \cup {Nothing}])',
         (transport \in [Tasks -> Transports \cup {Nothing}])'
  PROVE  IInv'
  BY DEF IInv, CacheOK, TypeOK

(* An empty cache and idle tasks satisfy the invariant. *)
LEMMA InitIInv == Init => IInv
<1> SUFFICES ASSUME Init PROVE IInv
  OBVIOUS
<1>1. TypeOK
  BY ManagerAssumption DEF Init, TypeOK
<1>2. StampsPast /\ InFlight /\ RecencyTotal /\ RecencyAgrees /\ CountExact
  BY DEF Init, StampsPast, InFlight, RecencyTotal, RecencyAgrees, CountExact
<1>3. WithinCapacity
  BY FS_EmptySet, ManagerAssumption DEF Init, WithinCapacity, capacity
<1> QED
  BY <1>1, <1>2, <1>3 DEF IInv

(* Steps that leave the statistics alone leave the cache in order. *)
LEMMA CacheUnchanged ==
  ASSUME CacheOK, UNCHANGED <<cached, newer, last_used, connection_count, wins_before>>,
         now \in Nat, now' = now \/ now' = now + 1
  PROVE  CacheOK'
<1>1. StampsPast'
  <2>1. \A u \in cached : last_used[u] \in Nat
    BY DEF CacheOK
  <2> QED
    BY <2>1 DEF CacheOK, StampsPast
<1>2. RecencyTotal' /\ RecencyAgrees' /\ WithinCapacity'
  BY DEF CacheOK, RecencyTotal, RecencyAgrees, WithinCapacity
<1> QED
  BY <1>1, <1>2 DEF CacheOK

(* Every step preserves the invariant. *)
LEMMA NextIInv == IInv /\ [Next]_vars => IInv'
<1> SUFFICES ASSUME IInv, [Next]_vars PROVE IInv'
  OBVIOUS
<1>0. /\ CacheOK /\ CountExact /\ InFlight
      /\ transports \subseteq Transports
      /\ now \in Nat /\ wins \in [Urls -> Nat]
      /\ pc \in [Tasks -> {"idle", "tracked", "connecting"}]
      /\ url \in [Tasks -> Urls \cup {Nothing}]
      /\ transport \in [Tasks -> Transports \cup {Nothing}]
      /\ connection_count \in [Urls -> Nat] /\ cached \subseteq Urls
      /\ wins_before \in [Urls -> Nat]
  BY IInvParts DEF CacheOK
<1>1. ASSUME NEW i \in Transports, register_transport(i)
      PROVE  IInv'
  <2>1. CacheOK'
    BY <1>0, <1>1, CacheUnchanged DEF register_transport, stats
  <2>2. CountExact' /\ InFlight'
    BY <1>0, <1>1 DEF CountExact, InFlight, register_transport, stats, tasks
  <2> QED
    BY <1>0, <1>1, <2>1, <2>2, IInvAfter DEF register_transport, tasks
<1>2. ASSUME NEW t \in Tasks, NEW u \in Urls, connect_begin(t, u)
      PROVE  IInv'
  <2>1. CacheOK'
    <3>1. CASE track_attempt_hit(u)
      BY <3>1, <1>0, <1>2, TouchKeepsCache DEF track_attempt_hit, connect_begin
    <3>2. CASE track_attempt_put(u)
      BY <3>2, <1>0, <1>2, PutKeepsCache DEF connect_begin
    <3> QED
      BY <3>1, <3>2, <1>2 DEF connect_begin
  <2>2. CountExact'
    <3>1. wins' = wins
      BY <1>2 DEF connect_begin
    <3>2. CASE track_attempt_hit(u)
      BY <3>1, <3>2, <1>0 DEF track_attempt_hit, CountExact
    <3>3. CASE track_attempt_put(u)
      <4>1. PICK R \in SUBSET cached :
              /\ cached' = (cached \ R) \cup {u}
              /\ connection_count' = [Zeroed(connection_count, R) EXCEPT ![u] = 0]
              /\ wins_before' = [Zeroed(wins_before, R) EXCEPT ![u] = wins[u]]
        BY <3>3 DEF track_attempt_put
      <4>2. \A v \in cached' :
              IF v = u THEN connection_count'[v] = 0 /\ wins_before'[v] = wins[v]
              ELSE /\ v \in cached
                   /\ connection_count'[v] = connection_count[v]
                   /\ wins_before'[v] = wins_before[v]
        BY <4>1, <1>0 DEF Zeroed
      <4>3. \A v \in Urls : wins[v] + 0 = wins[v]
        BY <1>0
      <4> QED
        BY <3>1, <4>1, <4>2, <4>3, <1>0 DEF CountExact
    <3> QED
      BY <3>2, <3>3, <1>2 DEF connect_begin
  <2>3. InFlight'
    BY <1>0, <1>2 DEF InFlight, connect_begin
  <2> QED
    BY <1>0, <1>2, <2>1, <2>2, <2>3, IInvAfter DEF connect_begin
<1>3. ASSUME NEW t \in Tasks, find_transport_for_url(t) \/ connect_unsupported(t)
      PROVE  IInv'
  <2>1. CacheOK'
    BY <1>0, <1>3, CacheUnchanged DEF find_transport_for_url, connect_unsupported, stats
  <2>2. CountExact' /\ InFlight'
    BY <1>0, <1>3 DEF CountExact, InFlight, find_transport_for_url,
                      connect_unsupported, stats
  <2>3. /\ UNCHANGED <<transports, now, wins>>
        /\ pc' \in [Tasks -> {"idle", "tracked", "connecting"}]
        /\ url' \in [Tasks -> Urls \cup {Nothing}]
        /\ transport' \in [Tasks -> Transports \cup {Nothing}]
    BY <1>0, <1>3 DEF find_transport_for_url, connect_unsupported
  <2> QED
    BY <1>0, <2>1, <2>2, <2>3, IInvAfter
<1>4. ASSUME NEW t \in Tasks, connect_success(t)
      PROVE  IInv'
  <2>1. url[t] \in Urls /\ now' = now
    BY <1>0, <1>4 DEF InFlight, connect_success
  <2>2. CASE url[t] \in cached
    <3>1. CacheOK'
      BY <2>1, <2>2, <1>0, <1>4, TouchKeepsCache DEF connect_success, track_success
    <3>2. CountExact'
      <4>1. /\ cached' = cached /\ wins_before' = wins_before
            /\ connection_count' = [connection_count EXCEPT ![url[t]] = @ + 1]
            /\ wins' = [wins EXCEPT ![url[t]] = @ + 1]
        BY <2>2, <1>4 DEF connect_success, track_success
      <4>2. \A v \in cached :
              /\ wins[v] \in Nat /\ wins_before[v] \in Nat
              /\ connection_count[v] \in Nat
              /\ wins[v] = wins_before[v] + connection_count[v]
        BY <1>0 DEF CountExact
      <4> QED
        BY <4>1, <4>2, <1>0 DEF CountExact
    <3> QED
      BY <3>1, <3>2, <2>1, <1>0, <1>4, IInvAfter DEF connect_success, InFlight
  <2>3. CASE url[t] \notin cached
    <3>1. CacheOK'
      BY <2>1, <2>3, <1>0, <1>4, CacheUnchanged DEF connect_success, track_success, stats
    <3>2. CountExact'
      BY <2>3, <1>0, <1>4 DEF connect_success, track_success, stats, CountExact
    <3> QED
      BY <3>1, <3>2, <2>1, <1>0, <1>4, IInvAfter DEF connect_success, InFlight
  <2> QED
    BY <2>2, <2>3
<1>5. ASSUME NEW t \in Tasks, connect_failure(t)
      PROVE  IInv'
  <2>1. CacheOK'
    BY <1>0, <1>5, CacheUnchanged DEF connect_failure, stats
  <2>2. CountExact' /\ InFlight'
    BY <1>0, <1>5 DEF CountExact, InFlight, connect_failure, stats
  <2> QED
    BY <1>0, <1>5, <2>1, <2>2, IInvAfter DEF connect_failure
<1>6. ASSUME NEW R \in SUBSET cached, Remove(R)
      PROVE  IInv'
  <2>1. CacheOK'
    BY <1>0, <1>6, RemoveKeepsCache
  <2>2. CountExact'
    BY <1>0, <1>6 DEF CountExact, Remove, Zeroed
  <2>3. InFlight'
    BY <1>0, <1>6 DEF InFlight, Remove, tasks
  <2> QED
    BY <1>0, <1>6, <2>1, <2>2, <2>3, IInvAfter DEF Remove, tasks
<1>7. CASE Tick
  <2>1. CacheOK'
    BY <1>0, <1>7, CacheUnchanged DEF Tick, stats
  <2>2. CountExact' /\ InFlight'
    BY <1>0, <1>7 DEF CountExact, InFlight, Tick, stats, tasks
  <2> QED
    BY <1>0, <1>7, <2>1, <2>2, IInvAfter DEF Tick, tasks
<1>8. CASE UNCHANGED vars
  <2>1. CacheOK'
    BY <1>0, <1>8, CacheUnchanged DEF vars
  <2>2. CountExact' /\ InFlight'
    BY <1>0, <1>8 DEF CountExact, InFlight, vars
  <2> QED
    BY <1>0, <1>8, <2>1, <2>2, IInvAfter DEF vars
<1>9. CASE clear_cache \/ cleanup_expired_entries
  BY <1>6, <1>9 DEF clear_cache, cleanup_expired_entries
<1> QED
  BY <1>1, <1>2, <1>3, <1>4, <1>5, <1>7, <1>8, <1>9 DEF Next

(* The inductive invariant holds in every reachable state. *)
THEOREM InductiveInvariant == Spec => []IInv
  BY InitIInv, NextIInv, PTL DEF Spec

(* The manager's variables keep their types. *)
THEOREM TypeCorrect == Spec => []TypeOK
<1>1. IInv => TypeOK
  BY DEF IInv
<1> QED
  BY <1>1, InductiveInvariant, PTL

(* connection_stats never outgrows its capacity. *)
THEOREM CapacityRespected == Spec => []WithinCapacity
<1>1. IInv => WithinCapacity
  BY DEF IInv
<1> QED
  BY <1>1, InductiveInvariant, PTL

(* The list that LruCache evicts from is ordered by the time stamps that
   cleanup_expired_entries and cache_stats read. *)
THEOREM RecencyOrderIsTime == Spec => []RecencyIsTime
<1>1. IInv => RecencyIsTime
  BY DEF IInv, RecencyIsTime
<1> QED
  BY <1>1, InductiveInvariant, PTL

(* No interleaving of connects loses or duplicates a count. *)
THEOREM CountsAreExact == Spec => []CountExact
<1>1. IInv => CountExact
  BY DEF IInv
<1> QED
  BY <1>1, InductiveInvariant, PTL

(* A key is dropped only by a clear, by its expiry, or as the least recently
   used key of a full cache. *)
THEOREM RemovalsAreJustified == Spec => RemovalJustified
<1> DEFINE Justified(u) ==
      \/ cached' = {} /\ newer' = {}
      \/ Expired(u)
      \/ /\ Cardinality(cached) >= capacity
         /\ cached' \ cached # {}
         /\ \A v \in cached : last_used[v] >= last_used[u]
<1>1. ASSUME IInv, [Next]_vars, NEW u \in cached \ cached'
      PROVE  Justified(u)
  <2>1. /\ cached \subseteq Urls /\ newer \subseteq cached \X cached
        /\ last_used \in [Urls -> Nat] /\ RecencyAgrees
    BY <1>1 DEF IInv, TypeOK
  <2>2. CASE clear_cache
    <3>1. cached' = {} /\ newer' = Without(cached)
      BY <2>2 DEF clear_cache, Remove
    <3>2. Without(cached) = {}
      BY <2>1, WithoutPairs
    <3> QED
      BY <3>1, <3>2
  <2>3. CASE cleanup_expired_entries
    BY <2>3 DEF cleanup_expired_entries, Remove
  <2>4. ASSUME NEW t \in Tasks, NEW w \in Urls, connect_begin(t, w)
        PROVE  Justified(u)
    <3>1. track_attempt_put(w)
      BY <2>4, <1>1 DEF connect_begin, track_attempt_hit
    <3>2. PICK R \in SUBSET cached :
            /\ IF Cardinality(cached) < capacity
               THEN R = {} ELSE \E v \in cached : IsOldest(v) /\ R = {v}
            /\ cached' = (cached \ R) \cup {w}
      BY <3>1 DEF track_attempt_put
    <3>3. u \in R /\ w \in cached' \ cached
      BY <3>1, <3>2, <1>1 DEF track_attempt_put
    <3>4. ~(Cardinality(cached) < capacity) /\ IsOldest(u)
      BY <3>2, <3>3
    <3>5. Cardinality(cached) >= capacity
      <4>1. Cardinality(cached) \in Nat
        BY <2>1, CachedFinite
      <4>2. capacity \in Nat
        BY ManagerAssumption DEF capacity
      <4> QED
        BY <4>1, <4>2, <3>4
    <3>6. \A v \in cached : last_used[v] >= last_used[u]
      <4> SUFFICES ASSUME NEW v \in cached PROVE last_used[v] >= last_used[u]
        OBVIOUS
      <4>1. CASE v = u
        BY <4>1, <2>1
      <4>2. CASE v # u
        BY <4>2, <3>4, <2>1 DEF IsOldest, RecencyAgrees
      <4> QED
        BY <4>1, <4>2
    <3> QED
      BY <3>3, <3>5, <3>6
  <2>5. CASE \/ Tick \/ UNCHANGED vars
             \/ \E i \in Transports : register_transport(i)
             \/ \E t \in Tasks : \/ find_transport_for_url(t) \/ connect_unsupported(t)
                                 \/ connect_success(t) \/ connect_failure(t)
    <3>1. cached' = cached
      BY <2>5 DEF Tick, vars, register_transport, find_transport_for_url,
                  connect_unsupported, connect_success, track_success,
                  connect_failure, stats
    <3> QED
      BY <3>1, <1>1
  <2> HIDE DEF Justified
  <2> QED
    BY <1>1, <2>2, <2>3, <2>4, <2>5 DEF Next
<1>2. IInv /\ [Next]_vars => [\A u \in cached \ cached' : Justified(u)]_vars
  BY <1>1
<1> QED
  BY <1>2, InductiveInvariant, PTL DEF Spec, RemovalJustified
=============================================================================
