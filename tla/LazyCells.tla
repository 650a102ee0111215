----------------------------- MODULE LazyCells -----------------------------
(***************************************************************************)
(* The state of a Message that threads share, and what its cells promise to *)
(* those that hold references into them.  LazyMessage is the behaviour.     *)
(***************************************************************************)
EXTENDS Naturals

CONSTANTS
  Threads,
  Types,      \* the types T that payload_as is called with
  NoType,
  MaxCalls,   \* bound on the calls a thread makes
  MaxClears   \* bound on the calls of clear_cache

ASSUME LazyAssumption ==
  /\ NoType \notin Types
  /\ MaxCalls \in Nat /\ MaxClears \in Nat

Lazy == {"header", "payload"}   \* the cells that get_or_try_init fills

VARIABLES
  valid,       \* the cells whose bytes parse (of a length of 0 they always do)
  decodes,     \* the types the payload bytes decode to
  cell,        \* header_cache and payload_cache: 0 or the object in it
  typed,       \* typed_payload_cache: [type, object]
  parses,      \* parses since the caches were cleared, of the Lazy cells
  decoded,     \* ... and by payload_as
  call,        \* per thread: the step of the call it is in
  of,          \* per thread: the cell or the type the call is for
  held,        \* per thread: the references it holds, [of, object]
  calls, clears

Empty == [type |-> NoType, object |-> 0]

----------------------------------------------------------------------------
(* header() and payload() parse the bytes successfully at most once between
   two clears, however many threads ask at the same time. *)
ParsedOnce == \A c \in Lazy : parses[c] <= 1

Same(r) ==
  \/ \E c \in Lazy : r = [of |-> c, object |-> cell[c]] /\ cell[c] # 0
  \/ r = [of |-> typed.type, object |-> typed.object] /\ typed # Empty

(* A reference that was handed out stays the content of its cell while it is
   held, so that all holders see the same object, of the type they asked
   for: no later call replaces or empties a cell. *)
RefsLive == \A t \in Threads : \A r \in held[t] : Same(r)

(* payload_as panics only after another type's payload was decoded and cached
   first: the bytes decode to two types. *)
PanicNeedsTwoTypes ==
  \A t \in Threads : call[t] = "panicked" =>
    \E T \in decodes : T # of[t] /\ of[t] \in decodes
============================================================================
