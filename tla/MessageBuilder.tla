--------------------------- MODULE MessageBuilder ---------------------------
(***************************************************************************)
(* Building, sending and answering messages: an application starts a        *)
(* MessageBuilder, sets header fields, and builds; build validates the      *)
(* structure for the message type.  The message is serialized, and its      *)
(* receiver reads the header, forwards it or answers it.  Nothing else      *)
(* validates: an application may put a message together with RawMessage::new, *)
(* and what is received may come from any other implementation.             *)
(*                                                                         *)
(* Of a header the rules look at the routing entries and their optional     *)
(* client ids, at the correlation, and at the presence of the other fields. *)
(***************************************************************************)
EXTENDS Naturals, Sequences

CONSTANTS
  ClientIds,    \* ids of connected clients
  NoId,         \* Option::None of a routing entry's client_id
  RequestIds,   \* correlation ids
  Absent,       \* Option::None of a header field; no builder, no message
  Routings,     \* the routing vectors an application sets: per entry, the
                \* client id or NoId
  Others        \* messages that are made without a builder, here or elsewhere

MessageType == {"Join", "Request", "Response", "Notification", "Broadcast",
                "Publish", "Subscribe", "Unsubscribe"}
Flags == {"topic", "status", "auth", "client_name"}
HeaderField == Flags \cup {"routing", "reqrep"}

RequestResponse == [req_type : {"request", "correlation"}, id : RequestIds]

Header ==
  [routing : Seq(ClientIds \cup {NoId}) \cup {Absent},
   reqrep : RequestResponse \cup {Absent},
   flags : SUBSET Flags]
RawMessage == [message_type : MessageType, client_id : ClientIds, header : Header]

ASSUME BuilderAssumption ==
  /\ NoId \notin ClientIds
  /\ Routings \subseteq Seq(ClientIds \cup {NoId})
  /\ Others \subseteq RawMessage
  /\ Absent \notin Seq(ClientIds \cup {NoId}) \cup RequestResponse \cup RawMessage

VARIABLES
  builder,    \* the MessageBuilder in use, or Absent
  built,      \* the RawMessage to be sent, or Absent
  unchecked,  \* history: what was done to it without validation, of
              \* "new", "create_response", "with_status"
  inbox,      \* the Message that was received last, or Absent
  readable    \* its header can be deserialized

vars == <<builder, built, unchecked, inbox, readable>>

Init ==
  /\ builder = Absent
  /\ built = Absent /\ unchecked = {}
  /\ inbox = Absent /\ readable = FALSE

----------------------------------------------------------------------------
(* validate_message_structure *)
Required(ty) ==
  CASE ty = "Join" -> {"client_name"}
    [] ty \in {"Request", "Response"} -> {"routing", "reqrep"}
    [] ty = "Notification" -> {"routing"}
    [] ty = "Broadcast" -> {}
    [] ty \in {"Publish", "Subscribe", "Unsubscribe"} -> {"topic"}

Forbidden(ty) ==
  CASE ty = "Join" -> {"routing", "reqrep", "topic", "status"}
    [] ty \in {"Request", "Response"} -> {"topic", "auth"}
    [] ty = "Notification" -> {"reqrep", "topic", "auth"}
    [] ty = "Broadcast" -> {"routing", "reqrep", "topic", "auth"}
    [] ty = "Publish" -> {"routing", "reqrep", "auth"}
    [] ty \in {"Subscribe", "Unsubscribe"} -> {"routing", "reqrep", "status", "auth"}

is_present_in(f, h) ==
  \/ f \in h.flags
  \/ f = "routing" /\ h.routing # Absent
  \/ f = "reqrep" /\ h.reqrep # Absent

RoutingValid(ty, r) ==
  /\ ty \in {"Request", "Response"} => Len(r) = 1
  /\ ty = "Response" => r[1] # NoId
  /\ ty = "Notification" => r # <<>>

validate_message_structure(ty, h) ==
  /\ \A f \in Required(ty) : is_present_in(f, h)
  /\ \A f \in Forbidden(ty) : ~is_present_in(f, h)
  /\ h.routing # Absent => RoutingValid(ty, h.routing)

(* Header fields are serialized by name; a routing entry is serialized as an
   array without the client_id it does not have, and an array of two is no
   Routing to the receiver: header() fails. *)
HeaderReadable(h) ==
  h.routing # Absent => \A i \in DOMAIN h.routing : h.routing[i] # NoId

----------------------------------------------------------------------------
(* The constructors. *)
EmptyHeader == [routing |-> Absent, reqrep |-> Absent, flags |-> {}]
new(ty, c) == [message_type |-> ty, client_id |-> c, header |-> EmptyHeader]

Route(b, to) == [b EXCEPT !.header.routing = <<to>>]
Correlate(b, type, id) ==
  [b EXCEPT !.header.reqrep = [req_type |-> type, id |-> id]]
Mark(b, f) == [b EXCEPT !.header.flags = @ \cup {f}]

join(c) == Mark(new("Join", c), "client_name")
join_with_auth(c) == Mark(join(c), "auth")
request(c, to) == Route(new("Request", c), to)
notification(c, to) == Route(new("Notification", c), to)
response(c, id, to) ==
  Correlate(Route(new("Response", c), to), "correlation", id)
simple_broadcast(c) == Mark(new("Broadcast", c), "topic")
simple_publish(c) == Mark(new("Publish", c), "topic")
simple_subscribe(c) == Mark(new("Subscribe", c), "topic")

(* The JOIN of Peer::from_stream, with a correlation id to wait for. *)
peer_join(c, id, auth) ==
  LET b == Correlate(join(c), "request", id)
  IN  IF auth THEN Mark(b, "auth") ELSE b

Start(b) ==
  /\ builder = Absent /\ built = Absent
  /\ builder' = b
  /\ UNCHANGED <<built, unchecked, inbox, readable>>

construct ==
  \E c \in ClientIds :
    \/ \E ty \in MessageType : Start(new(ty, c))
    \/ Start(join(c)) \/ Start(join_with_auth(c))
    \/ \E to \in ClientIds \cup {NoId} :
         \/ Start(request(c, to))
         \/ Start(notification(c, to))
    \/ \E to \in ClientIds, id \in RequestIds : Start(response(c, id, to))
    \/ \E id \in RequestIds, auth \in BOOLEAN :
         Start(peer_join(c, id, auth))
    \/ Start(simple_broadcast(c))
    \/ Start(simple_publish(c))
    \/ Start(simple_subscribe(c))

(* response_from_request copies the correlation as it is. *)
response_from_request(c, status) ==
  /\ inbox # Absent
  /\ LET b == [new("Response", c) EXCEPT
                 !.header.reqrep =
                   IF readable THEN inbox.header.reqrep ELSE Absent]
     IN  Start(IF status THEN Mark(b, "status") ELSE b)

----------------------------------------------------------------------------
(* The setters. *)
Set(b) ==
  /\ builder # Absent
  /\ builder' = b
  /\ UNCHANGED <<built, unchecked, inbox, readable>>

set_routing(r) == Set([builder EXCEPT !.header.routing = r])
set_reqrep(q) == Set([builder EXCEPT !.header.reqrep = q])
set_flag(f) == Set(Mark(builder, f))

forward_to(to) ==
  /\ inbox # Absent
  /\ Set(Route([builder EXCEPT !.header.reqrep =
           IF readable /\ inbox.header.reqrep # Absent
           THEN inbox.header.reqrep ELSE @], to))

----------------------------------------------------------------------------
(* build, and build_with_payload. *)
build_ok ==
  /\ builder # Absent
  /\ validate_message_structure(builder.message_type, builder.header)
  /\ built' = builder
  /\ builder' = Absent
  /\ UNCHANGED <<unchecked, inbox, readable>>

build_err ==
  /\ builder # Absent
  /\ ~validate_message_structure(builder.message_type, builder.header)
  /\ builder' = Absent
  /\ UNCHANGED <<built, unchecked, inbox, readable>>

(* RawMessage::new, or a change of its public fields. *)
new_raw(m) ==
  /\ builder = Absent /\ built = Absent
  /\ built' = m /\ unchecked' = {"new"}
  /\ UNCHANGED <<builder, inbox, readable>>

(* ResponseContext::with_status *)
with_status ==
  /\ built # Absent
  /\ built' = Mark(built, "status")
  /\ unchecked' = unchecked \cup {"with_status"}
  /\ UNCHANGED <<builder, inbox, readable>>

(* Message::create_response: no validation of what it makes. *)
Response(c, status) ==
  [message_type |-> "Response", client_id |-> c,
   header |-> [routing |-> [inbox.header.routing EXCEPT ![1] = inbox.client_id],
               reqrep |-> [req_type |-> "correlation",
                           id |-> inbox.header.reqrep.id],
               flags |-> IF status THEN {"status"} ELSE {}]]

Answerable ==
  /\ inbox # Absent /\ inbox.message_type = "Request"
  /\ readable
  /\ inbox.header.reqrep # Absent
  /\ inbox.header.routing \notin {Absent, <<>>}

create_response_SameRoute(c, status) ==
  /\ builder = Absent /\ built = Absent
  /\ Answerable
  /\ built' = [Response(c, status) EXCEPT !.header.routing = inbox.header.routing]
  /\ unchecked' = {"create_response"}
  /\ UNCHANGED <<builder, inbox, readable>>

create_response_Append(c, status) ==
  /\ builder = Absent /\ built = Absent
  /\ Answerable
  /\ built' = [Response(c, status) EXCEPT
                 !.header.routing = Append(inbox.header.routing, inbox.client_id)]
  /\ unchecked' = {"create_response"}
  /\ UNCHANGED <<builder, inbox, readable>>

create_response(c, status) ==
  /\ builder = Absent /\ built = Absent
  /\ Answerable
  /\ built' = Response(c, status)
  /\ unchecked' = {"create_response"}
  /\ UNCHANGED <<builder, inbox, readable>>

(* The message is sent, received and read by the other side. *)
transmit ==
  /\ built # Absent
  /\ inbox' = built /\ readable' = HeaderReadable(built.header)
  /\ built' = Absent /\ unchecked' = {}
  /\ UNCHANGED builder

(* A message of another implementation is received.  It may have left out the
   client_id of an entry in a way that can be read, or have no readable header. *)
receive(m) ==
  /\ built = Absent
  /\ inbox' = m /\ readable' \in BOOLEAN
  /\ UNCHANGED <<builder, built, unchecked>>

Next ==
  \/ construct
  \/ \E c \in ClientIds, status \in BOOLEAN :
       response_from_request(c, status) \/ create_response(c, status)
  \/ \E r \in Routings : set_routing(r)
  \/ \E q \in RequestResponse : set_reqrep(q)
  \/ \E f \in Flags : set_flag(f)
  \/ \E to \in ClientIds \cup {NoId} : forward_to(to)
  \/ \E m \in Others : new_raw(m) \/ receive(m)
  \/ build_ok \/ build_err
  \/ with_status \/ transmit

Spec == Init /\ [][Next]_vars

----------------------------------------------------------------------------
(* Types; an answer is made only to a request whose header was read. *)
TypeOK ==
  /\ builder \in RawMessage \cup {Absent}
  /\ built \in RawMessage \cup {Absent} /\ inbox \in RawMessage \cup {Absent}
  /\ unchecked \subseteq {"new", "create_response", "with_status"}
  /\ readable \in BOOLEAN
  /\ "create_response" \in unchecked =>
       built # Absent /\ built.message_type = "Response" /\ Answerable

Valid(m) == validate_message_structure(m.message_type, m.header)

(* A message that is sent breaks the rules of its type only if nothing ever
   checked it, if with_status gave it a status where its type allows none, or
   if it answers a request that broke them itself by having several routes.
   Whatever else is wrong with a request, its answer is in order. *)
SentValid ==
  built # Absent /\ ~Valid(built) =>
    \/ "new" \in unchecked
    \/ "with_status" \in unchecked /\ "status" \in Forbidden(built.message_type)
    \/ "create_response" \in unchecked /\ Len(inbox.header.routing) > 1

(* The answer to a request, whether it satisfies the rules or not, names the
   client that sent it in its first route and carries its id; if the request
   had one route, with an id or without, the answer can be read. *)
AnswersReachRequester ==
  "create_response" \in unchecked =>
    /\ built.header.routing[1] = inbox.client_id
    /\ built.header.reqrep = [req_type |-> "correlation",
                              id |-> inbox.header.reqrep.id]
    /\ Len(inbox.header.routing) = 1 => HeaderReadable(built.header)
=============================================================================
