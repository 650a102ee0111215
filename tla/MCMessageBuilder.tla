-------------------------- MODULE MCMessageBuilder --------------------------
(* Instances of MessageBuilder for TLC. *)
EXTENDS MessageBuilder

CONSTANTS c1, c2, r1, r2

MCClientIds == {c1, c2}
MCRequestIds == {r1, r2}

(* None, one without and with an id, and two. *)
MCRoutings == {<<>>, <<NoId>>, <<c1>>, <<c2>>, <<c1, c2>>}

(* Requests that break the rules in one respect each: no route, several (all
   with an id or not), a topic, no correlation, the correlation of an answer;
   and a Publish with a correlation. *)
Asks(r, q, f) ==
  [message_type |-> "Request", client_id |-> c1,
   header |-> [routing |-> r, reqrep |-> q, flags |-> f]]
Id(type, id) == [req_type |-> type, id |-> id]
MCOthers ==
  {Asks(r, Id("request", r1), {}) : r \in {Absent, <<>>, <<c2, NoId>>, <<c1, c2>>}}
  \cup {Asks(<<NoId>>, Id("request", r2), {"topic"}), Asks(<<c2>>, Absent, {}),
        Asks(<<c2>>, Id("correlation", r2), {})}
  \cup {[Asks(Absent, Id("request", r2), {"topic"}) EXCEPT !.message_type = "Publish"]}
=============================================================================
