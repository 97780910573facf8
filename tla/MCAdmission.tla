---------------------------- MODULE MCAdmission ----------------------------
(***************************************************************************)
(* Small instances of Admission: what an App Server and the client could   *)
(* put on the wire of one turn, with the ways in which it could go wrong.  *)
(***************************************************************************)
EXTENDS Admission, TLC

Plain == [type |-> "item", occurrence |-> "q0", ordinal |-> 0, order |-> 0,
          response |-> "r0", client |-> 0, method |-> "turn/start", at |-> 1,
          item |-> "i0", text |-> "t0", bytes |-> 1, exact |-> TRUE, size |-> 1]

Names == {"q0", "q1", "r0", "r1", "i0", "i1", "t0", "t1", "turn/start", "thread/start"}

Typed(type) == [Plain EXCEPT !.type = type]

(* Message of exchange number n, at time t.                                *)
Exchange(type, n, t) ==
    [Typed(type) EXCEPT !.occurrence = IF n = 0 THEN "q0" ELSE "q1",
                     !.response = IF n = 0 THEN "r0" ELSE "r1",
                     !.ordinal = n, !.order = n, !.at = t]

Inexact(x) == [x EXCEPT !.exact = FALSE]

Exchanges ==
    {Exchange(type, n, 2) : type \in {"request", "created", "completed"}, n \in {0, 1}}
      \cup {Exchange("refused", 0, 2), Exchange("refused", 1, 3),
            Exchange("request", 1, 3)}

\* another occurrence for the first request, out of order, or backwards in time
Retries ==
    {[Exchange("request", 0, 2) EXCEPT !.occurrence = "q1"],
     [Exchange("request", 1, 2) EXCEPT !.order = 2],
     Exchange("request", 1, 1), Exchange("created", 0, 1),
     [Exchange("created", 1, 3) EXCEPT !.response = "r0"],
     [Exchange("request", 1, 3) EXCEPT !.occurrence = "q0"]}

Turn == {Typed(type) : type \in {"turn_completed", "approval", "item"}}

Substituted == {Inexact(Typed(type)) : type \in {"created", "turn_completed", "local"}}

Coarse == {Typed("error"), Typed("boundary")}

ClientTurn ==
    {Typed("client_request"), Typed("client_response"),
     [Typed("client_response") EXCEPT !.method = "thread/start"],
     Inexact(Typed("client_response"))}

AllMessages == Exchanges \cup Retries \cup Turn \cup Substituted \cup Coarse \cup ClientTurn

Large(x) == [x EXCEPT !.size = 2]

(* The turn's input and its outputs, of which two and no more are within    *)
(* the bound, and the ways in which their frames could be wrong.           *)
Items ==
    {Large(Typed("input_started")), Typed("input_completed"),
     [Typed("input_completed") EXCEPT !.item = "i1"],
     Typed("agent_started"), Large(Typed("agent_completed")), Typed("turn_summary"),
     [Typed("agent_started") EXCEPT !.item = "i1"],
     [Typed("agent_completed") EXCEPT !.item = "i1", !.text = "t1", !.bytes = 2],
     [Typed("agent_delta") EXCEPT !.item = "i1"],
     Inexact(Typed("agent_completed"))}

(* A turn of one exchange with its items and its client request.           *)
ItemMessages ==
    Items
      \cup {Exchange(type, 0, 2) : type \in {"request", "created", "completed"}}
      \cup {Large(Typed("client_request")), Typed("client_response")}

(* The echo of a user input above 16 KiB that names another turn.          *)
ForeignEcho == Large(Inexact(Typed("input_started")))

EchoMessages ==
    {Typed("client_request"), Typed("client_response"), Exchange("request", 0, 2), ForeignEcho}

============================================================================
