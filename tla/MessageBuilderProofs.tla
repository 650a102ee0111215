------------------------ MODULE MessageBuilderProofs ------------------------
(***************************************************************************)
(* Which messages break the rules of their type and where answers go, for   *)
(* any clients, correlation ids and routing vectors, and for any messages that *)
(* others make; and, in the second half, the caches of a received Message.  *)
(***************************************************************************)
EXTENDS MessageBuilder, LazyCells, TLAPS

USE BuilderAssumption

(* What is sent has the causes of SentValid and AnswersReachRequester; a
   builder and a message to be sent are not there together, and a message that
   has been sent leaves no history. *)
IInv ==
  /\ TypeOK
  /\ SentValid
  /\ AnswersReachRequester
  /\ builder = Absent \/ built = Absent
  /\ built = Absent => unchecked = {}

----------------------------------------------------------------------------
(* The constructors and setters make messages. *)
LEMMA NewType ==
  ASSUME NEW ty \in MessageType, NEW c \in ClientIds
  PROVE  new(ty, c) \in RawMessage
  BY DEF new, EmptyHeader, RawMessage, Header

(* set_routing to one receiver makes a message. *)
LEMMA RouteType ==
  ASSUME NEW b \in RawMessage, NEW to \in ClientIds \cup {NoId}
  PROVE  Route(b, to) \in RawMessage
<1>1. <<to>> \in Seq(ClientIds \cup {NoId})
  OBVIOUS
<1> QED BY <1>1 DEF Route, RawMessage, Header

(* Setting the correlation makes a message. *)
LEMMA CorrelateType ==
  ASSUME NEW b \in RawMessage, NEW type \in {"request", "correlation"},
         NEW id \in RequestIds
  PROVE  Correlate(b, type, id) \in RawMessage
  BY DEF Correlate, RawMessage, Header, RequestResponse

(* Setting one of the other fields makes a message. *)
LEMMA MarkType ==
  ASSUME NEW b \in RawMessage, NEW f \in Flags
  PROVE  Mark(b, f) \in RawMessage
  BY DEF Mark, RawMessage, Header

(* What Mark changes. *)
LEMMA MarkParts ==
  ASSUME NEW b \in RawMessage, NEW f \in Flags
  PROVE  /\ Mark(b, f).message_type = b.message_type
         /\ Mark(b, f).header.routing = b.header.routing
         /\ Mark(b, f).header.reqrep = b.header.reqrep
         /\ Mark(b, f).header.flags = b.header.flags \cup {f}
  BY DEF Mark, RawMessage, Header

(* A step of the builder changes nothing that was sent. *)
LEMMA BuilderStep ==
  ASSUME IInv, builder' \in RawMessage \cup {Absent},
         builder' = Absent \/ built = Absent,
         UNCHANGED <<built, unchecked, inbox, readable>>
  PROVE  IInv'
<1>1. /\ Answerable' <=> Answerable
      /\ \A m : Valid(m)' <=> Valid(m)
  BY DEF Answerable, Valid
<1>2. SentValid' /\ AnswersReachRequester'
  BY <1>1 DEF IInv, SentValid, AnswersReachRequester, Valid
<1> QED BY <1>1, <1>2 DEF IInv, TypeOK

(* Starting a builder sends nothing. *)
LEMMA StartStep ==
  ASSUME IInv, NEW b \in RawMessage, Start(b)
  PROVE  IInv'
  BY BuilderStep DEF Start

(* The constructors only start builders. *)
LEMMA ConstructStep == ASSUME IInv, construct PROVE IInv'
<1> PICK c \in ClientIds :
      \/ \E ty \in MessageType : Start(new(ty, c))
      \/ Start(join(c)) \/ Start(join_with_auth(c))
      \/ \E to \in ClientIds \cup {NoId} :
           \/ Start(request(c, to))
           \/ Start(notification(c, to))
      \/ \E to \in ClientIds, id \in RequestIds :
           Start(response(c, id, to))
      \/ \E id \in RequestIds, auth \in BOOLEAN :
           Start(peer_join(c, id, auth))
      \/ Start(simple_broadcast(c))
      \/ Start(simple_publish(c))
      \/ Start(simple_subscribe(c))
  BY DEF construct
<1>1. \A ty \in MessageType : new(ty, c) \in RawMessage
  BY NewType
<1>2. join(c) \in RawMessage
  BY <1>1, MarkType DEF join, MessageType, Flags
<1>3. join_with_auth(c) \in RawMessage
  BY <1>2, MarkType DEF join_with_auth, Flags
<1>4. \A to \in ClientIds \cup {NoId} :
        request(c, to) \in RawMessage /\ notification(c, to) \in RawMessage
  BY <1>1, RouteType DEF request, notification, MessageType
<1>5. \A to \in ClientIds, id \in RequestIds : response(c, id, to) \in RawMessage
  BY <1>1, RouteType, CorrelateType DEF response, MessageType
<1>6. \A id \in RequestIds, auth \in BOOLEAN : peer_join(c, id, auth) \in RawMessage
  BY <1>2, CorrelateType, MarkType DEF peer_join, Flags
<1>7. /\ simple_broadcast(c) \in RawMessage
      /\ simple_publish(c) \in RawMessage
      /\ simple_subscribe(c) \in RawMessage
  BY <1>1, MarkType DEF simple_broadcast, simple_publish, simple_subscribe,
                        MessageType, Flags
<1> QED BY <1>1, <1>2, <1>3, <1>4, <1>5, <1>6, <1>7, StartStep

(* response_from_request only starts a builder. *)
LEMMA FromRequestStep ==
  ASSUME IInv, NEW c \in ClientIds, NEW status \in BOOLEAN,
         response_from_request(c, status)
  PROVE  IInv'
<1> DEFINE q == IF readable THEN inbox.header.reqrep ELSE Absent
           b == [new("Response", c) EXCEPT !.header.reqrep = q]
<1>1. inbox \in RawMessage
  BY DEF response_from_request, IInv, TypeOK
<1>2. q \in RequestResponse \cup {Absent}
  BY <1>1 DEF RawMessage, Header
<1>3. new("Response", c) \in RawMessage
  BY NewType DEF MessageType
<1> HIDE DEF q
<1>4. b \in RawMessage
  BY <1>2, <1>3 DEF RawMessage, Header
<1>5. Mark(b, "status") \in RawMessage
  BY <1>4, MarkType DEF Flags
<1>6. Start(IF status THEN Mark(b, "status") ELSE b)
  BY DEF response_from_request, q
<1> QED BY <1>4, <1>5, <1>6, StartStep

(* A setter changes the builder alone. *)
LEMMA SetStep ==
  ASSUME IInv, NEW b \in RawMessage, Set(b)
  PROVE  IInv'
  BY BuilderStep DEF Set, IInv

(* Every setter of an application is such a step. *)
LEMMA SettersStep ==
  ASSUME IInv,
         \/ \E r \in Routings : set_routing(r)
         \/ \E q \in RequestResponse : set_reqrep(q)
         \/ \E f \in Flags : set_flag(f)
         \/ \E to \in ClientIds \cup {NoId} : forward_to(to)
  PROVE  IInv'
<1>1. builder \in RawMessage
  BY DEF IInv, TypeOK, set_routing, set_reqrep, set_flag, forward_to, Set
<1>2. ASSUME NEW r \in Routings, set_routing(r) PROVE IInv'
  <2>1. [builder EXCEPT !.header.routing = r] \in RawMessage
    BY <1>1 DEF RawMessage, Header
  <2> QED BY <1>2, <2>1, SetStep DEF set_routing
<1>3. ASSUME NEW q \in RequestResponse, set_reqrep(q) PROVE IInv'
  <2>1. [builder EXCEPT !.header.reqrep = q] \in RawMessage
    BY <1>1 DEF RawMessage, Header
  <2> QED BY <1>3, <2>1, SetStep DEF set_reqrep
<1>4. ASSUME NEW f \in Flags, set_flag(f) PROVE IInv'
  BY <1>1, <1>4, MarkType, SetStep DEF set_flag
<1>5. ASSUME NEW to \in ClientIds \cup {NoId}, forward_to(to) PROVE IInv'
  <2> DEFINE q == IF readable /\ inbox.header.reqrep # Absent
                  THEN inbox.header.reqrep ELSE builder.header.reqrep
  <2>1. inbox \in RawMessage
    BY <1>5 DEF forward_to, IInv, TypeOK
  <2>2. q \in RequestResponse \cup {Absent}
    BY <1>1, <2>1 DEF RawMessage, Header
  <2> HIDE DEF q
  <2>3. [builder EXCEPT !.header.reqrep = q] \in RawMessage
    BY <1>1, <2>2 DEF RawMessage, Header
  <2>4. Route([builder EXCEPT !.header.reqrep = q], to) \in RawMessage
    BY <2>3, RouteType
  <2>5. Set(Route([builder EXCEPT !.header.reqrep = q], to))
    BY <1>5 DEF forward_to, q
  <2> QED BY <2>4, <2>5, SetStep
<1> QED BY <1>2, <1>3, <1>4, <1>5

(* build lets only valid messages out. *)
LEMMA BuildStep ==
  ASSUME IInv, build_ok \/ build_err
  PROVE  IInv'
<1>1. CASE build_ok
  <2>1. /\ built = Absent /\ unchecked = {}
        /\ builder # Absent /\ builder \in RawMessage /\ Valid(builder)
        /\ built' = builder /\ builder' = Absent
        /\ UNCHANGED <<unchecked, inbox, readable>>
    BY <1>1 DEF build_ok, IInv, TypeOK, Valid
  <2>2. TypeOK'
    BY <2>1 DEF IInv, TypeOK
  <2>3. SentValid' /\ AnswersReachRequester'
    BY <2>1 DEF SentValid, AnswersReachRequester, Valid
  <2> QED BY <2>1, <2>2, <2>3 DEF IInv
<1>2. CASE build_err
  BY <1>2, BuilderStep DEF build_err
<1> QED BY <1>1, <1>2

(* RawMessage::new lets out what it is given. *)
LEMMA NewRawStep ==
  ASSUME IInv, NEW m \in Others, new_raw(m)
  PROVE  IInv'
<1>1. /\ built' = m /\ unchecked' = {"new"} /\ builder' = Absent
      /\ m \in RawMessage /\ UNCHANGED <<inbox, readable>>
  BY DEF new_raw
<1>2. TypeOK'
  BY <1>1 DEF IInv, TypeOK
<1>3. SentValid' /\ AnswersReachRequester'
  BY <1>1 DEF SentValid, AnswersReachRequester
<1> QED BY <1>1, <1>2, <1>3 DEF IInv

(* A status breaks no rule but the one that forbids it. *)
LEMMA StatusRule ==
  ASSUME NEW m \in RawMessage, Valid(m), "status" \notin Forbidden(m.message_type)
  PROVE  Valid(Mark(m, "status"))
<1> DEFINE n == Mark(m, "status")
<1>1. /\ n.message_type = m.message_type /\ n.header.routing = m.header.routing
      /\ n.header.reqrep = m.header.reqrep
      /\ n.header.flags = m.header.flags \cup {"status"}
  BY MarkParts DEF Flags
<1> HIDE DEF n
<1>2. \A f : /\ is_present_in(f, m.header) => is_present_in(f, n.header)
             /\ is_present_in(f, n.header) => is_present_in(f, m.header) \/ f = "status"
  BY <1>1 DEF is_present_in
<1> QED BY <1>1, <1>2 DEF Valid, validate_message_structure, n

(* with_status leaves routes and correlation as they are. *)
LEMMA WithStatusStep == ASSUME IInv, with_status PROVE IInv'
<1>1. /\ built \in RawMessage /\ built # Absent /\ builder = Absent
      /\ built' = Mark(built, "status")
      /\ unchecked' = unchecked \cup {"with_status"}
      /\ UNCHANGED <<builder, inbox, readable>>
  BY DEF with_status, IInv, TypeOK
<1>2. /\ built' \in RawMessage /\ built'.message_type = built.message_type
      /\ built'.header.routing = built.header.routing
      /\ built'.header.reqrep = built.header.reqrep
  BY <1>1, MarkType, MarkParts DEF Flags
<1>3. TypeOK'
  BY <1>1, <1>2 DEF IInv, TypeOK, Answerable
<1>4. AnswersReachRequester'
  BY <1>1, <1>2 DEF IInv, AnswersReachRequester, HeaderReadable
<1>5. SentValid'
  <2>1. CASE Valid(built) /\ "status" \notin Forbidden(built.message_type)
    <3>1. Valid(built')
      BY <1>1, <2>1, StatusRule
    <3>2. Valid(built)'
      BY <3>1 DEF Valid
    <3> QED BY <3>2 DEF SentValid
  <2>2. CASE "status" \in Forbidden(built.message_type)
    BY <1>1, <1>2, <2>2 DEF SentValid
  <2>3. CASE ~Valid(built)
    <3>1. \/ "new" \in unchecked
          \/ "status" \in Forbidden(built.message_type)
          \/ "create_response" \in unchecked /\ Len(inbox.header.routing) > 1
      BY <1>1, <2>3 DEF IInv, SentValid
    <3> QED BY <1>1, <1>2, <3>1 DEF SentValid
  <2> QED BY <2>1, <2>2, <2>3
<1> QED BY <1>1, <1>2, <1>3, <1>4, <1>5 DEF IInv

(* What replacing the first of some routes leaves. *)
LEMMA AnswerRoute ==
  ASSUME NEW r \in Seq(ClientIds \cup {NoId}), r # <<>>, NEW c \in ClientIds
  PROVE  /\ [r EXCEPT ![1] = c] \in Seq(ClientIds \cup {NoId})
         /\ [r EXCEPT ![1] = c][1] = c
         /\ Len(r) = 1 \/ Len(r) > 1
         /\ Len(r) = 1 => [r EXCEPT ![1] = c] = <<c>>
<1>1. Len(r) \in Nat /\ Len(r) # 0 /\ r \in [1 .. Len(r) -> ClientIds \cup {NoId}]
  OBVIOUS
<1>2. Len(r) = 1 \/ Len(r) > 1
  BY <1>1
<1>3. /\ [r EXCEPT ![1] = c] \in [1 .. Len(r) -> ClientIds \cup {NoId}]
      /\ [r EXCEPT ![1] = c][1] = c
  BY <1>1, <1>2
<1>4. [r EXCEPT ![1] = c] \in Seq(ClientIds \cup {NoId})
  BY <1>1, <1>3
<1>5. Len(r) = 1 => [r EXCEPT ![1] = c] = <<c>>
  OBVIOUS
<1> QED BY <1>2, <1>3, <1>4, <1>5

(* create_response validates nothing; what it makes of a request with one route
   is valid, and the first route is that of the sender. *)
LEMMA CreateResponseStep ==
  ASSUME IInv, NEW c \in ClientIds, NEW status \in BOOLEAN,
         create_response(c, status)
  PROVE  IInv'
<1> DEFINE h == inbox.header
           f == IF status THEN {"status"} ELSE {}
           q == [req_type |-> "correlation", id |-> h.reqrep.id]
           t == [h.routing EXCEPT ![1] = inbox.client_id]
           m == [message_type |-> "Response", client_id |-> c,
                 header |-> [routing |-> t, reqrep |-> q, flags |-> f]]
<1>1. /\ Answerable /\ inbox \in RawMessage
      /\ h.reqrep # Absent /\ h.routing # Absent /\ h.routing # <<>>
  BY DEF create_response, Answerable, IInv, TypeOK
<1>2. /\ h.routing \in Seq(ClientIds \cup {NoId}) /\ inbox.client_id \in ClientIds
      /\ h.reqrep \in RequestResponse
  BY <1>1 DEF RawMessage, Header
<1>3. /\ t \in Seq(ClientIds \cup {NoId}) /\ t[1] = inbox.client_id
      /\ Len(h.routing) = 1 \/ Len(h.routing) > 1
      /\ Len(h.routing) = 1 => t = <<inbox.client_id>>
  BY <1>1, <1>2, AnswerRoute
<1>4. /\ built' = m /\ unchecked' = {"create_response"} /\ builder' = Absent
      /\ UNCHANGED <<inbox, readable>>
  BY DEF create_response, Response
<1>5. q \in RequestResponse /\ f \subseteq {"status"}
  BY <1>2 DEF RequestResponse
<1>6. /\ m.message_type = "Response" /\ m.header.routing = t
      /\ m.header.reqrep = q /\ m.header.flags = f
  OBVIOUS
<1> HIDE DEF h, f, t
<1>7. m \in RawMessage
  BY <1>2, <1>3, <1>5 DEF RawMessage, Header, MessageType, Flags
<1>8. Len(h.routing) = 1 => Valid(m) /\ HeaderReadable(m.header)
  <2> SUFFICES ASSUME Len(h.routing) = 1 PROVE Valid(m) /\ HeaderReadable(m.header)
    OBVIOUS
  <2>1. t = <<inbox.client_id>> /\ inbox.client_id # NoId
    BY <1>2, <1>3
  <2>2. RoutingValid("Response", t)
    BY <2>1 DEF RoutingValid
  <2>3. q # Absent /\ t # Absent
    BY <1>3, <1>5
  <2>4. Required("Response") = {"routing", "reqrep"}
    BY DEF Required
  <2>5. Forbidden("Response") = {"topic", "auth"}
    BY DEF Forbidden
  <2> HIDE DEF q, m
  <2>6. Valid(m)
    BY <1>5, <1>6, <2>2, <2>3, <2>4, <2>5
       DEF Valid, validate_message_structure, is_present_in
  <2>7. HeaderReadable(m.header)
    BY <1>6, <2>1 DEF HeaderReadable
  <2> QED BY <2>6, <2>7
<1>9. TypeOK'
  <2>1. Answerable'
    BY <1>1, <1>4 DEF Answerable
  <2> QED BY <1>4, <1>6, <1>7, <2>1 DEF IInv, TypeOK
<1>10. AnswersReachRequester'
  BY <1>3, <1>4, <1>6, <1>8 DEF AnswersReachRequester, h
<1>11. SentValid'
  BY <1>3, <1>4, <1>8 DEF SentValid, Valid, h
<1>12. built' # Absent
  BY <1>4, <1>7
<1> QED BY <1>4, <1>9, <1>10, <1>11, <1>12 DEF IInv

(* Sending leaves nothing behind, and what is received can be anything. *)
LEMMA TransmitStep ==
  ASSUME IInv, transmit \/ \E m \in Others : receive(m)
  PROVE  IInv'
<1>1. /\ built' = Absent /\ unchecked' = {} /\ builder' = builder
      /\ inbox' \in RawMessage /\ readable' \in BOOLEAN
  BY DEF transmit, receive, IInv, TypeOK, HeaderReadable
<1>2. TypeOK'
  BY <1>1 DEF IInv, TypeOK
<1> QED BY <1>1, <1>2 DEF IInv, SentValid, AnswersReachRequester

(* IInv holds in every state of the program. *)
THEOREM InductiveInvariant == Spec => []IInv
<1>1. Init => IInv
  BY DEF Init, IInv, TypeOK, SentValid, AnswersReachRequester
<1>2. IInv /\ [Next]_vars => IInv'
  <2> SUFFICES ASSUME IInv, [Next]_vars PROVE IInv'
    OBVIOUS
  <2>1. CASE UNCHANGED vars
    BY <2>1, BuilderStep DEF vars, IInv, TypeOK
  <2>2. CASE Next
    BY <2>2, ConstructStep, FromRequestStep, SettersStep, BuildStep, NewRawStep,
       WithStatusStep, CreateResponseStep, TransmitStep DEF Next
  <2> QED BY <2>1, <2>2
<1> QED BY <1>1, <1>2, PTL DEF Spec

(* The builder, the message being sent and the one received have their types,
   and only requests are answered. *)
THEOREM TypeCorrect == Spec => []TypeOK
  BY InductiveInvariant, PTL DEF IInv

(* A message that breaks the rules of its type was never checked, was given a
   status its type forbids, or answers a request with several routes. *)
THEOREM OnlyUncheckedIsInvalid == Spec => []SentValid
  BY InductiveInvariant, PTL DEF IInv

(* create_response answers the client that sent the request, with the id of the
   request, whatever the request looks like. *)
THEOREM AnswersFindRequester == Spec => []AnswersReachRequester
  BY InductiveInvariant, PTL DEF IInv

----------------------------------------------------------------------------
(* What new leaves in a message. *)
LEMMA NewParts ==
  ASSUME NEW ty \in MessageType, NEW c \in ClientIds
  PROVE  /\ new(ty, c).message_type = ty
         /\ new(ty, c).header.routing = Absent
         /\ new(ty, c).header.reqrep = Absent
         /\ new(ty, c).header.flags = {}
  BY DEF new, EmptyHeader

(* What setting the correlation changes. *)
LEMMA CorrelateParts ==
  ASSUME NEW b \in RawMessage, NEW type \in {"request", "correlation"},
         NEW id \in RequestIds
  PROVE  /\ Correlate(b, type, id).message_type = b.message_type
         /\ Correlate(b, type, id).header.routing = b.header.routing
         /\ Correlate(b, type, id).header.reqrep # Absent
         /\ Correlate(b, type, id).header.flags = b.header.flags
<1>1. [req_type |-> type, id |-> id] \in RequestResponse
  BY DEF RequestResponse
<1>2. [req_type |-> type, id |-> id] # Absent
  BY <1>1
<1> QED BY <1>2 DEF Correlate, RawMessage, Header

(* The fields each type needs and refuses. *)
LEMMA Rules ==
  /\ Required("Join") = {"client_name"}
  /\ Forbidden("Join") = {"routing", "reqrep", "topic", "status"}
  /\ Required("Request") = {"routing", "reqrep"}
  /\ Required("Response") = {"routing", "reqrep"}
  /\ Forbidden("Response") = {"topic", "auth"}
  /\ Required("Notification") = {"routing"}
  /\ Forbidden("Notification") = {"reqrep", "topic", "auth"}
  /\ Forbidden("Broadcast") = {"routing", "reqrep", "topic", "auth"}
  /\ Required("Publish") = {"topic"}
  /\ Forbidden("Publish") = {"routing", "reqrep", "auth"}
  /\ Required("Subscribe") = {"topic"}
  /\ Forbidden("Subscribe") = {"routing", "reqrep", "status", "auth"}
  BY DEF Required, Forbidden

(* The message of join, and of join_with_auth. *)
LEMMA JoinParts ==
  ASSUME NEW c \in ClientIds
  PROVE  /\ join(c) \in RawMessage /\ join_with_auth(c) \in RawMessage
         /\ join(c).message_type = "Join"
         /\ join(c).header.routing = Absent /\ join(c).header.reqrep = Absent
         /\ join(c).header.flags = {"client_name"}
         /\ join_with_auth(c).message_type = "Join"
         /\ join_with_auth(c).header.routing = Absent
         /\ join_with_auth(c).header.reqrep = Absent
         /\ join_with_auth(c).header.flags = {"client_name", "auth"}
<1>1. "Join" \in MessageType /\ "client_name" \in Flags /\ "auth" \in Flags
  BY DEF MessageType, Flags
<1>2. /\ join(c) \in RawMessage /\ join(c).message_type = "Join"
      /\ join(c).header.routing = Absent /\ join(c).header.reqrep = Absent
      /\ join(c).header.flags = {"client_name"}
  BY <1>1, NewType, NewParts, MarkType, MarkParts DEF join
<1> QED BY <1>1, <1>2, MarkType, MarkParts DEF join_with_auth

(* The JOIN of Peer::from_stream is refused, for every client, correlation id
   and with or without credentials: no peer ever connects. *)
THEOREM PeerJoinRefused ==
  ASSUME NEW c \in ClientIds, NEW id \in RequestIds, NEW auth \in BOOLEAN
  PROVE  ~Valid(peer_join(c, id, auth))
<1> DEFINE b == Correlate(join(c), "request", id)
<1>1. /\ b \in RawMessage /\ b.message_type = "Join" /\ b.header.reqrep # Absent
  BY JoinParts, CorrelateType, CorrelateParts
<1> HIDE DEF b
<1>2. Mark(b, "auth").message_type = "Join" /\ Mark(b, "auth").header.reqrep # Absent
  BY <1>1, MarkParts DEF Flags
<1>3. /\ peer_join(c, id, auth).message_type = "Join"
      /\ peer_join(c, id, auth).header.reqrep # Absent
  BY <1>1, <1>2 DEF peer_join, b
<1> QED BY <1>3, Rules DEF Valid, validate_message_structure, is_present_in

----------------------------------------------------------------------------
(***************************************************************************)
(* The other half of messages: the caches of a Message that was received, for *)
(* any number of threads, types and calls.  LazyCells is their state, and   *)
(* LazyMessage, taken as an instance, their behaviour; neither shares anything *)
(* with MessageBuilder.                                                     *)
(***************************************************************************)

Cache == INSTANCE LazyMessage

(* A call is for a cell or for a type, according to its step. *)
CallsOK ==
  \A t \in Threads :
    /\ call[t] \in {"get", "init"} => of[t] \in Lazy
    /\ call[t] \in {"look", "decode", "read", "panicked"} => of[t] \in Types

(* A cell holds the object of the one parse there was; while a thread parses
   there was none. *)
CellsOK == \A c \in Lazy : cell[c] = parses[c] /\ parses[c] <= 1

InitOK ==
  /\ \A t \in Threads : call[t] = "init" => cell[of[t]] = 0
  /\ \A t, u \in Threads :
       call[t] = "init" /\ call[u] = "init" /\ of[t] = of[u] => t = u

(* The typed cell is empty or holds a decoded payload; it is full when
   payload_as reads it back. *)
TypedOK ==
  /\ typed = Empty \/ (typed.type \in decodes /\ typed.type # NoType)
  /\ \A t \in Threads :
       call[t] = "read" => typed # Empty /\ of[t] \in decodes

CacheIInv ==
  /\ Cache!TypeOK /\ CallsOK /\ CellsOK /\ InitOK /\ TypedOK
  /\ RefsLive /\ PanicNeedsTwoTypes

USE LazyAssumption DEF Lazy, Cache!Lazy, Empty, Cache!Empty

(* A new message has empty cells and no callers. *)
LEMMA CacheInitInv == Cache!Init => CacheIInv
  BY DEF Cache!Init, CacheIInv, Cache!TypeOK, CallsOK, CellsOK, InitOK, TypedOK,
       RefsLive, PanicNeedsTwoTypes, Empty

(* A step of one thread that leaves the cells and the references alone. *)
LEMMA CallStep ==
  ASSUME CacheIInv, NEW t \in Threads,
         NEW s \in {"idle", "get", "look", "decode"},
         NEW x \in Lazy \cup Types \cup {NoType},
         call' = [call EXCEPT ![t] = s], of' = [of EXCEPT ![t] = x],
         s = "get" => x \in Lazy, s \in {"look", "decode"} => x \in Types,
         calls' \in [Threads -> Nat],
         UNCHANGED <<Cache!message, cell, typed, parses, decoded, held, clears>>
  PROVE  CacheIInv'
<1>1. Cache!TypeOK'
  BY DEF CacheIInv, Cache!TypeOK, Cache!message
<1>2. CallsOK'
  BY DEF CacheIInv, Cache!TypeOK, CallsOK
<1>3. CellsOK'
  BY DEF CacheIInv, CellsOK
<1>4. InitOK'
  BY DEF CacheIInv, Cache!TypeOK, InitOK
<1>5. TypedOK'
  BY DEF CacheIInv, Cache!TypeOK, TypedOK, Cache!message
<1>6. RefsLive'
  BY DEF CacheIInv, RefsLive, Same
<1>7. PanicNeedsTwoTypes'
  BY DEF CacheIInv, Cache!TypeOK, PanicNeedsTwoTypes, Cache!message
<1> QED BY <1>1, <1>2, <1>3, <1>4, <1>5, <1>6, <1>7 DEF CacheIInv

(* A call that returns a reference to what is in a cell. *)
LEMMA ReturnStep ==
  ASSUME CacheIInv, NEW t \in Threads, NEW o \in Nat, of[t] \in Lazy \cup Types,
         Same([of |-> of[t], object |-> o]),
         Cache!Hold(t, o), Cache!Return(t),
         UNCHANGED <<Cache!message, cell, typed, parses, decoded, calls, clears>>
  PROVE  CacheIInv'
<1>1. Cache!TypeOK'
  BY DEF CacheIInv, Cache!TypeOK, Cache!message, Cache!Hold, Cache!Return
<1>2. CallsOK'
  BY DEF CacheIInv, Cache!TypeOK, CallsOK, Cache!Return
<1>3. CellsOK'
  BY DEF CacheIInv, CellsOK
<1>4. InitOK'
  BY DEF CacheIInv, Cache!TypeOK, InitOK, Cache!Return
<1>5. TypedOK'
  BY DEF CacheIInv, Cache!TypeOK, TypedOK, Cache!message, Cache!Return
<1>6. RefsLive'
  <2> SUFFICES ASSUME NEW u \in Threads, NEW r \in held'[u] PROVE Same(r)'
    BY DEF RefsLive
  <2>1. r \in held[u] \/ r = [of |-> of[t], object |-> o]
    BY DEF CacheIInv, Cache!TypeOK, Cache!Hold
  <2>2. Same(r)
    BY <2>1 DEF CacheIInv, RefsLive
  <2> QED BY <2>2 DEF Same
<1>7. PanicNeedsTwoTypes'
  BY DEF CacheIInv, Cache!TypeOK, PanicNeedsTwoTypes, Cache!message, Cache!Return
<1> QED BY <1>1, <1>2, <1>3, <1>4, <1>5, <1>6, <1>7 DEF CacheIInv

(* header() and payload() begin to look at their cell. *)
LEMMA GetStep ==
  ASSUME CacheIInv, NEW t \in Threads, NEW c \in Lazy, Cache!get(t, c)
  PROVE  CacheIInv'
<1>1. calls' \in [Threads -> Nat]
  BY DEF CacheIInv, Cache!TypeOK, Cache!get, Cache!Enter
<1> QED BY <1>1, CallStep DEF Cache!get, Cache!Enter

(* payload_as begins to look at the typed cell. *)
LEMMA PayloadAsStep ==
  ASSUME CacheIInv, NEW t \in Threads, NEW T \in Types, Cache!payload_as(t, T)
  PROVE  CacheIInv'
<1>1. calls' \in [Threads -> Nat]
  BY DEF CacheIInv, Cache!TypeOK, Cache!payload_as, Cache!Enter
<1> QED BY <1>1, CallStep DEF Cache!payload_as, Cache!Enter

(* A call that returns an error leaves the cells as they are. *)
LEMMA ErrStep ==
  ASSUME CacheIInv, NEW t \in Threads, Cache!init_err(t) \/ Cache!as_err(t)
  PROVE  CacheIInv'
<1>1. calls' \in [Threads -> Nat]
  BY DEF CacheIInv, Cache!TypeOK, Cache!init_err, Cache!as_err
<1> QED BY <1>1, CallStep DEF Cache!init_err, Cache!as_err, Cache!Return

(* payload_as does not find its type and goes on to decode. *)
LEMMA MissStep ==
  ASSUME CacheIInv, NEW t \in Threads, Cache!as_miss(t)
  PROVE  CacheIInv'
<1>1. /\ calls' \in [Threads -> Nat]
      /\ of' = [of EXCEPT ![t] = of[t]] /\ of[t] \in Types
  BY DEF CacheIInv, Cache!TypeOK, CallsOK, Cache!as_miss
<1> QED BY <1>1, CallStep DEF Cache!as_miss

(* A call that finds a filled cell hands out its object. *)
LEMMA CachedStep ==
  ASSUME CacheIInv, NEW t \in Threads,
         Cache!get_cached(t) \/ Cache!as_cached(t) \/ Cache!as_read(t)
  PROVE  CacheIInv'
<1>1. CASE Cache!get_cached(t)
  <2>1. of[t] \in Lazy /\ cell[of[t]] \in Nat /\ cell[of[t]] # 0
    BY <1>1 DEF CacheIInv, Cache!TypeOK, CallsOK, Cache!get_cached
  <2>2. Same([of |-> of[t], object |-> cell[of[t]]])
    BY <2>1 DEF Same
  <2> QED BY <1>1, <2>1, <2>2, ReturnStep DEF Cache!get_cached
<1>2. CASE Cache!as_cached(t) \/ Cache!as_read(t)
  <2>1. of[t] \in Types /\ typed.type = of[t] /\ typed.object \in Nat
    BY <1>2 DEF CacheIInv, Cache!TypeOK, CallsOK, Cache!as_cached, Cache!as_read
  <2>2. typed # Empty
    BY <2>1 DEF Empty
  <2>3. Same([of |-> of[t], object |-> typed.object])
    BY <2>1, <2>2 DEF Same
  <2> QED BY <1>2, <2>1, <2>3, ReturnStep DEF Cache!as_cached, Cache!as_read
<1> QED BY <1>1, <1>2

(* An initializer starts on an empty cell, and alone. *)
LEMMA TryInitStep ==
  ASSUME CacheIInv, NEW t \in Threads, Cache!try_init(t)
  PROVE  CacheIInv'
<1>1. Cache!TypeOK'
  BY DEF CacheIInv, Cache!TypeOK, Cache!try_init, Cache!message
<1>2. CallsOK'
  BY DEF CacheIInv, Cache!TypeOK, CallsOK, Cache!try_init
<1>3. CellsOK'
  BY DEF CacheIInv, CellsOK, Cache!try_init
<1>4. InitOK'
  BY DEF CacheIInv, Cache!TypeOK, InitOK, Cache!try_init, Cache!Initializing
<1>5. TypedOK'
  BY DEF CacheIInv, Cache!TypeOK, TypedOK, Cache!try_init, Cache!message
<1>6. RefsLive'
  BY DEF CacheIInv, RefsLive, Same, Cache!try_init
<1>7. PanicNeedsTwoTypes'
  BY DEF CacheIInv, Cache!TypeOK, PanicNeedsTwoTypes, Cache!try_init, Cache!message
<1> QED BY <1>1, <1>2, <1>3, <1>4, <1>5, <1>6, <1>7 DEF CacheIInv

(* The initializer that succeeds fills the cell, once. *)
LEMMA InitOkStep ==
  ASSUME CacheIInv, NEW t \in Threads, Cache!init_ok(t)
  PROVE  CacheIInv'
<1> DEFINE c == of[t]
<1>1. /\ c \in Lazy /\ call[t] = "init"
      /\ cell[c] = 0 /\ parses[c] = 0
  BY DEF CacheIInv, Cache!TypeOK, CallsOK, InitOK, CellsOK, Cache!init_ok
<1>2. parses' = [parses EXCEPT ![c] = 1] /\ cell' = [cell EXCEPT ![c] = 1]
  <2>1. parses' = [parses EXCEPT ![c] = parses[c] + 1]
    BY DEF Cache!init_ok
  <2>2. parses' = [parses EXCEPT ![c] = 1]
    BY <1>1, <2>1
  <2>3. parses'[c] = 1
    BY <1>1, <2>2 DEF CacheIInv, Cache!TypeOK
  <2>4. cell' = [cell EXCEPT ![c] = parses'[c]]
    BY DEF Cache!init_ok
  <2> QED BY <2>2, <2>3, <2>4
<1>3. parses'[c] = 1 /\ cell'[c] = 1
  BY <1>1, <1>2 DEF CacheIInv, Cache!TypeOK
<1>4. held' = [held EXCEPT ![t] = @ \cup {[of |-> c, object |-> 1]}]
  BY <1>3 DEF Cache!init_ok, Cache!Hold
<1>5. /\ call' = [call EXCEPT ![t] = "idle"]
      /\ of' = [of EXCEPT ![t] = NoType]
      /\ UNCHANGED <<Cache!message, typed, decoded, calls, clears>>
  BY DEF Cache!init_ok, Cache!Return
<1> HIDE DEF c
<1>6. Cache!TypeOK'
  BY <1>1, <1>2, <1>4, <1>5 DEF CacheIInv, Cache!TypeOK, Cache!message
<1>7. CallsOK'
  BY <1>5 DEF CacheIInv, Cache!TypeOK, CallsOK
<1>8. CellsOK'
  BY <1>1, <1>2 DEF CacheIInv, Cache!TypeOK, CellsOK
<1>9. InitOK'
  <2>1. \A u \in Threads : u # t /\ call[u] = "init" => of[u] # c
    BY <1>1 DEF CacheIInv, InitOK, c
  <2> QED BY <1>1, <1>2, <1>5, <2>1 DEF CacheIInv, Cache!TypeOK, CallsOK, InitOK
<1>10. TypedOK'
  BY <1>5 DEF CacheIInv, Cache!TypeOK, TypedOK, Cache!message
<1>11. RefsLive'
  <2> SUFFICES ASSUME NEW u \in Threads, NEW r \in held'[u] PROVE Same(r)'
    BY DEF RefsLive
  <2>1. r \in held[u] \/ r = [of |-> c, object |-> 1]
    BY <1>4 DEF CacheIInv, Cache!TypeOK
  <2>2. CASE r = [of |-> c, object |-> 1]
    BY <1>1, <1>3, <2>2 DEF Same
  <2>3. CASE r \in held[u]
    <3>1. Same(r)
      BY <2>3 DEF CacheIInv, RefsLive
    <3>2. \A d \in Lazy : cell[d] # 0 => cell'[d] = cell[d]
      BY <1>1, <1>2 DEF CacheIInv, Cache!TypeOK
    <3> QED BY <3>1, <3>2, <1>5 DEF Same
  <2> QED BY <2>1, <2>2, <2>3
<1>12. PanicNeedsTwoTypes'
  BY <1>5 DEF CacheIInv, Cache!TypeOK, PanicNeedsTwoTypes, Cache!message
<1> QED BY <1>6, <1>7, <1>8, <1>9, <1>10, <1>11, <1>12 DEF CacheIInv

(* set fills the typed cell or leaves what another thread put there. *)
LEMMA CacheSetStep ==
  ASSUME CacheIInv, NEW t \in Threads, Cache!as_set(t)
  PROVE  CacheIInv'
<1>1. of[t] \in Types /\ of[t] \in decodes /\ of[t] # NoType
  BY DEF CacheIInv, CallsOK, Cache!as_set
<1>2. decoded' \in Nat /\ decoded' = decoded + 1
  BY DEF CacheIInv, Cache!TypeOK, Cache!as_set
<1>3. \/ typed = Empty /\ typed' = [type |-> of[t], object |-> decoded']
      \/ typed # Empty /\ typed' = typed
  BY DEF Cache!as_set
<1>4. typed'.type \in decodes /\ typed'.type # NoType /\ typed' # Empty
  BY <1>1, <1>3 DEF Empty, CacheIInv, TypedOK
<1>5. Cache!TypeOK'
  <2>1. /\ typed' \in [type : Types \cup {NoType}, object : Nat]
        /\ typed'.object <= decoded'
    BY <1>1, <1>2, <1>3 DEF CacheIInv, Cache!TypeOK
  <2> QED BY <1>2, <2>1 DEF CacheIInv, Cache!TypeOK, Cache!as_set, Cache!message
<1>6. CallsOK'
  BY <1>1 DEF CacheIInv, Cache!TypeOK, CallsOK, Cache!as_set
<1>7. CellsOK'
  BY DEF CacheIInv, CellsOK, Cache!as_set
<1>8. InitOK'
  BY DEF CacheIInv, Cache!TypeOK, InitOK, Cache!as_set
<1>9. TypedOK'
  BY <1>1, <1>4 DEF CacheIInv, Cache!TypeOK, TypedOK, Cache!as_set, Cache!message
<1>10. RefsLive'
  BY <1>3 DEF CacheIInv, RefsLive, Same, Cache!as_set
<1>11. PanicNeedsTwoTypes'
  BY DEF CacheIInv, Cache!TypeOK, PanicNeedsTwoTypes, Cache!as_set, Cache!message
<1> QED BY <1>5, <1>6, <1>7, <1>8, <1>9, <1>10, <1>11 DEF CacheIInv

(* The downcast fails only if another type decoded first. *)
LEMMA PanicStep ==
  ASSUME CacheIInv, NEW t \in Threads, Cache!as_panic(t)
  PROVE  CacheIInv'
<1>1. /\ of[t] \in Types /\ of[t] \in decodes
      /\ typed.type \in decodes /\ typed.type # of[t]
  BY DEF CacheIInv, CallsOK, TypedOK, Cache!as_panic
<1>2. Cache!TypeOK'
  BY DEF CacheIInv, Cache!TypeOK, Cache!as_panic, Cache!message
<1>3. CallsOK'
  BY <1>1 DEF CacheIInv, Cache!TypeOK, CallsOK, Cache!as_panic
<1>4. CellsOK'
  BY DEF CacheIInv, CellsOK, Cache!as_panic
<1>5. InitOK'
  BY DEF CacheIInv, Cache!TypeOK, InitOK, Cache!as_panic
<1>6. TypedOK'
  BY DEF CacheIInv, Cache!TypeOK, TypedOK, Cache!as_panic, Cache!message
<1>7. RefsLive'
  BY DEF CacheIInv, Cache!TypeOK, RefsLive, Same, Cache!as_panic
<1>8. PanicNeedsTwoTypes'
  BY <1>1 DEF CacheIInv, Cache!TypeOK, PanicNeedsTwoTypes, Cache!as_panic,
       Cache!message
<1> QED BY <1>2, <1>3, <1>4, <1>5, <1>6, <1>7, <1>8 DEF CacheIInv

(* Dropping references cannot invalidate others. *)
LEMMA ReleaseStep ==
  ASSUME CacheIInv, NEW t \in Threads, Cache!release(t)
  PROVE  CacheIInv'
<1>1. Cache!TypeOK'
  BY DEF CacheIInv, Cache!TypeOK, Cache!release, Cache!message
<1>2. CallsOK' /\ CellsOK' /\ InitOK' /\ TypedOK' /\ PanicNeedsTwoTypes'
  BY DEF CacheIInv, CallsOK, CellsOK, InitOK, TypedOK, PanicNeedsTwoTypes,
       Cache!release, Cache!message
<1>3. RefsLive'
  BY DEF CacheIInv, Cache!TypeOK, RefsLive, Same, Cache!release
<1> QED BY <1>1, <1>2, <1>3 DEF CacheIInv

(* clear_cache empties the cells when nobody holds a reference. *)
LEMMA ClearStep ==
  ASSUME CacheIInv, Cache!clear_cache
  PROVE  CacheIInv'
<1>1. Cache!TypeOK'
  BY DEF CacheIInv, Cache!TypeOK, Cache!clear_cache, Cache!message, Empty
<1>2. CallsOK' /\ CellsOK' /\ PanicNeedsTwoTypes'
  BY DEF CacheIInv, CallsOK, CellsOK, PanicNeedsTwoTypes, Cache!clear_cache,
       Cache!message
<1>3. InitOK' /\ TypedOK'
  BY DEF CacheIInv, InitOK, TypedOK, Cache!clear_cache, Cache!message
<1>4. RefsLive'
  BY DEF CacheIInv, RefsLive, Cache!clear_cache
<1> QED BY <1>1, <1>2, <1>3, <1>4 DEF CacheIInv

(* IInv holds in every state of the program. *)
THEOREM CacheInvariant == Cache!Spec => []CacheIInv
<1>1. CacheIInv /\ [Cache!Next]_(Cache!vars) => CacheIInv'
  <2> SUFFICES ASSUME CacheIInv, [Cache!Next]_(Cache!vars) PROVE CacheIInv'
    OBVIOUS
  <2>1. CASE UNCHANGED Cache!vars
    BY <2>1 DEF Cache!vars, Cache!message, CacheIInv, Cache!TypeOK, CallsOK,
         CellsOK, InitOK, TypedOK, RefsLive, Same, PanicNeedsTwoTypes
  <2>2. CASE Cache!clear_cache
    BY <2>2, ClearStep
  <2>3. ASSUME NEW t \in Threads,
               \/ \E c \in Lazy : Cache!get(t, c)
               \/ \E T \in Types : Cache!payload_as(t, T)
               \/ Cache!Run(t) \/ Cache!release(t)
        PROVE  CacheIInv'
    BY <2>3, GetStep, PayloadAsStep, ErrStep, MissStep, CachedStep, TryInitStep,
       InitOkStep, CacheSetStep, PanicStep, ReleaseStep DEF Cache!Run
  <2> QED BY <2>1, <2>2, <2>3 DEF Cache!Next
<1> QED BY CacheInitInv, <1>1, PTL DEF Cache!Spec

(* The state of the caches and of the calls always has its types. *)
THEOREM CacheTypeCorrect == Cache!Spec => []Cache!TypeOK
  BY CacheInvariant, PTL DEF CacheIInv

(* header() and payload() parse successfully at most once between two clears,
   for any number of threads. *)
THEOREM HeaderAndPayloadParsedOnce == Cache!Spec => []ParsedOnce
<1>1. CacheIInv => ParsedOnce
  BY DEF CacheIInv, CellsOK, ParsedOnce
<1> QED BY <1>1, CacheInvariant, PTL

(* No reference that header(), payload() or payload_as() returned is ever
   invalidated while it is held. *)
THEOREM ReferencesStayLive == Cache!Spec => []RefsLive
  BY CacheInvariant, PTL DEF CacheIInv

(* payload_as panics only for a payload that decodes to two types. *)
THEOREM OneTypeNeverPanics == Cache!Spec => []PanicNeedsTwoTypes
  BY CacheInvariant, PTL DEF CacheIInv
=============================================================================
