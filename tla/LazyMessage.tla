---------------------------- MODULE LazyMessage ----------------------------
(***************************************************************************)
(* A Message shared by threads.  Its header and payload are parsed on first *)
(* use into OnceCells; payload_as::<T> keeps its result in a third cell     *)
(* that is not tied to T.                                                   *)
(*                                                                         *)
(* The calls hand out references into the cells.  A parsed object is        *)
(* identified by the count of parses that produced it, so that two          *)
(* references are equal exactly when they point to the same object.         *)
(* clear_cache takes &mut self: the borrow checker allows it only when no   *)
(* call is in progress and no reference is held.                            *)
(*                                                                         *)
(* OnceCell is once_cell's (external): get_or_try_init runs one             *)
(* initializer at a time, the other callers wait; after a failed one the    *)
(* cell is empty and a waiter tries again.                                  *)
(***************************************************************************)
EXTENDS LazyCells

vars == <<valid, decodes, cell, typed, parses, decoded, call, of, held, calls,
          clears>>
message == <<valid, decodes>>

(* from_bytes: nothing is parsed beyond the base header. *)
Init ==
  /\ valid \in SUBSET Lazy /\ decodes \in SUBSET Types
  /\ cell = [c \in Lazy |-> 0]
  /\ typed = Empty
  /\ parses = [c \in Lazy |-> 0] /\ decoded = 0
  /\ call = [t \in Threads |-> "idle"]
  /\ of = [t \in Threads |-> NoType]
  /\ held = [t \in Threads |-> {}]
  /\ calls = [t \in Threads |-> 0] /\ clears = 0

----------------------------------------------------------------------------
Enter(t, step, x) ==
  /\ call[t] = "idle" /\ calls[t] < MaxCalls
  /\ calls' = [calls EXCEPT ![t] = @ + 1]
  /\ call' = [call EXCEPT ![t] = step]
  /\ of' = [of EXCEPT ![t] = x]

Return(t) ==
  /\ call' = [call EXCEPT ![t] = "idle"]
  /\ of' = [of EXCEPT ![t] = NoType]

Hold(t, object) ==
  held' = [held EXCEPT ![t] = @ \cup {[of |-> of[t], object |-> object]}]

----------------------------------------------------------------------------
(* header() and payload(). *)
get(t, c) ==
  /\ Enter(t, "get", c)
  /\ UNCHANGED <<message, cell, typed, parses, decoded, held, clears>>

(* get_or_try_init finds the cell full ... *)
get_cached(t) ==
  /\ call[t] = "get"
  /\ cell[of[t]] # 0
  /\ Hold(t, cell[of[t]])
  /\ Return(t)
  /\ UNCHANGED <<message, cell, typed, parses, decoded, calls, clears>>

(* ... or becomes its initializer, unless another thread is ... *)
Initializing(c) == \E t \in Threads : call[t] = "init" /\ of[t] = c

try_init(t) ==
  /\ call[t] = "get"
  /\ cell[of[t]] = 0 /\ ~Initializing(of[t])
  /\ call' = [call EXCEPT ![t] = "init"]
  /\ UNCHANGED <<message, cell, typed, parses, decoded, of, held, calls, clears>>

(* ... which parses the bytes and fills the cell ... *)
init_ok(t) ==
  /\ call[t] = "init"
  /\ of[t] \in valid
  /\ parses' = [parses EXCEPT ![of[t]] = @ + 1]
  /\ cell' = [cell EXCEPT ![of[t]] = parses'[of[t]]]
  /\ Hold(t, parses'[of[t]])
  /\ Return(t)
  /\ UNCHANGED <<message, typed, decoded, calls, clears>>

(* ... or fails and leaves it empty. *)
init_err(t) ==
  /\ call[t] = "init"
  /\ of[t] \notin valid
  /\ Return(t)
  /\ UNCHANGED <<message, cell, typed, parses, decoded, held, calls, clears>>

----------------------------------------------------------------------------
(* payload_as::<T>(): the cell is looked at ... *)
payload_as(t, T) ==
  /\ Enter(t, "look", T)
  /\ UNCHANGED <<message, cell, typed, parses, decoded, held, clears>>

as_cached(t) ==
  /\ call[t] = "look"
  /\ typed.type = of[t]
  /\ Hold(t, typed.object)
  /\ Return(t)
  /\ UNCHANGED <<message, cell, typed, parses, decoded, calls, clears>>

as_miss(t) ==
  /\ call[t] = "look"
  /\ typed.type # of[t]
  /\ call' = [call EXCEPT ![t] = "decode"]
  /\ UNCHANGED <<message, cell, typed, parses, decoded, of, held, calls, clears>>

as_err(t) ==
  /\ call[t] = "decode"
  /\ of[t] \notin decodes
  /\ Return(t)
  /\ UNCHANGED <<message, cell, typed, parses, decoded, held, calls, clears>>

(* ... the payload decoded and put into the cell if that is empty ... *)
as_set_Overwrite(t) ==
  /\ call[t] = "decode"
  /\ of[t] \in decodes
  /\ decoded' = decoded + 1
  /\ typed' = [type |-> of[t], object |-> decoded']
  /\ call' = [call EXCEPT ![t] = "read"]
  /\ UNCHANGED <<message, cell, parses, of, held, calls, clears>>

as_set_Unstored(t) ==
  /\ call[t] = "decode"
  /\ of[t] \in decodes
  /\ decoded' = decoded + 1
  /\ call' = [call EXCEPT ![t] = "read"]
  /\ UNCHANGED <<message, cell, typed, parses, of, held, calls, clears>>

as_set(t) ==
  /\ call[t] = "decode"
  /\ of[t] \in decodes
  /\ decoded' = decoded + 1
  /\ typed' = IF typed = Empty THEN [type |-> of[t], object |-> decoded']
                               ELSE typed
  /\ call' = [call EXCEPT ![t] = "read"]
  /\ UNCHANGED <<message, cell, parses, of, held, calls, clears>>

(* ... and what the cell holds is returned, or expect() panics. *)
as_read(t) ==
  /\ call[t] = "read"
  /\ typed.type = of[t]
  /\ Hold(t, typed.object)
  /\ Return(t)
  /\ UNCHANGED <<message, cell, typed, parses, decoded, calls, clears>>

as_panic(t) ==
  /\ call[t] = "read"
  /\ typed.type # of[t]
  /\ call' = [call EXCEPT ![t] = "panicked"]
  /\ held' = [held EXCEPT ![t] = {}]
  /\ UNCHANGED <<message, cell, typed, parses, decoded, of, calls, clears>>

----------------------------------------------------------------------------
(* The thread's borrows end. *)
release(t) ==
  /\ call[t] = "idle" /\ held[t] # {}
  /\ held' = [held EXCEPT ![t] = {}]
  /\ UNCHANGED <<message, cell, typed, parses, decoded, call, of, calls, clears>>

clear_cache ==
  /\ clears < MaxClears
  /\ \A t \in Threads : call[t] \in {"idle", "panicked"} /\ held[t] = {}
  /\ cell' = [c \in Lazy |-> 0]
  /\ typed' = Empty
  /\ parses' = [c \in Lazy |-> 0] /\ decoded' = 0
  /\ clears' = clears + 1
  /\ UNCHANGED <<message, call, of, held, calls>>

Run(t) ==
  \/ get_cached(t) \/ try_init(t) \/ init_ok(t) \/ init_err(t)
  \/ as_cached(t) \/ as_miss(t) \/ as_err(t) \/ as_set(t) \/ as_read(t)
  \/ as_panic(t)

Next ==
  \/ \E t \in Threads :
       \/ \E c \in Lazy : get(t, c)
       \/ \E T \in Types : payload_as(t, T)
       \/ Run(t)
       \/ release(t)
  \/ clear_cache

Spec == Init /\ [][Next]_vars

----------------------------------------------------------------------------
(* Types; a cell holds an object that a parse since the last clear made. *)
TypeOK ==
  /\ valid \in SUBSET Lazy /\ decodes \in SUBSET Types
  /\ parses \in [Lazy -> Nat] /\ decoded \in Nat
  /\ cell \in [Lazy -> Nat] /\ \A c \in Lazy : cell[c] <= parses[c]
  /\ typed \in [type : Types \cup {NoType}, object : Nat]
  /\ typed.object <= decoded
  /\ call \in [Threads -> {"idle", "get", "init", "look", "decode", "read",
                           "panicked"}]
  /\ of \in [Threads -> Lazy \cup Types \cup {NoType}]
  /\ held \in [Threads -> SUBSET [of : Lazy \cup Types, object : Nat]]
  /\ calls \in [Threads -> Nat] /\ clears \in Nat
=============================================================================
