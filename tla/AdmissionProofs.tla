-------------------------- MODULE AdmissionProofs --------------------------
(***************************************************************************)
(* Theorems about Admission, for every vocabulary of messages, capture     *)
(* contract and bound.                                                     *)
(***************************************************************************)
EXTENDS Admission, TLAPS

(* What ties the registers of one mapper together.                         *)
Coherent(m) ==
    /\ Admitted(m) <=> m.disposition = "EXECUTION_ADMITTED"
    /\ m.mechanism = "ADMISSION_INDETERMINATE" => m.disposition = "ADMISSION_INDETERMINATE"
    /\ m.mechanism = "POST_ADMISSION_INTERRUPTED" => Admitted(m)
    /\ m.disposition = "NOT_ADMITTED_MODEL_AT_CAPACITY" => m.pending = NoRequest

(* What no evidence changes: the body of DispositionIsSettled.             *)
Settles(m, n) ==
    /\ m.disposition \in {"EXECUTION_ADMITTED", "ADMISSION_INDETERMINATE"} =>
          n.disposition = m.disposition
    /\ m.disposition = "NOT_ADMITTED_MODEL_AT_CAPACITY" =>
          n.disposition # "EXECUTION_ADMITTED"
    /\ Admitted(m) => n.identity = m.identity
    /\ Disturbed(m) => n.mechanism = m.mechanism

Sends(x) == x.type = "client_request" /\ x.method = "turn/start"

(* A handler of x takes m to n.                                            *)
Moves(m, x, n) ==
    /\ n \in Mapper
    /\ n.expected = m.expected /\ n.cut = m.cut /\ n.retained = m.retained
    /\ Coherent(n)
    /\ Settles(m, n)
    /\ n.echo.input = m.echo.input \/ (Sends(x) /\ Echoing /\ n.echo.input)

----------------------------------------------------------------------------
(* The handlers.                                                           *)

LEMMA MessageFields ==
    ASSUME NEW x \in Messages
    PROVE  /\ x \in Message
           /\ x.occurrence \in Name /\ x.ordinal \in Nat /\ x.order \in Nat
           /\ x.response \in Name /\ x.response # None
           /\ x.client \in Nat /\ x.method \in Name /\ x.at \in Nat
           /\ x.item \in Name /\ x.text \in Name /\ x.bytes \in Nat
           /\ x.size \in Nat /\ x.size > 0
           /\ RequestOf(x) \in Request
BY MessagesAssumption, NameAssumption DEF Message, MaybeName, RequestOf, Request

LEMMA MapperFields ==
    ASSUME NEW m \in Mapper
    PROVE  /\ m.expected \in Nat /\ m.retained \in Nat
           /\ m.identity \in MaybeName /\ m.echo \in Echo
           /\ m.echo.input \in BOOLEAN /\ m.echo.bytes \in Nat
           /\ m.disposition \in Dispositions /\ m.mechanism \in Mechanisms
BY DEF Mapper, Echo

LEMMA Disturbs ==
    ASSUME NEW m \in Mapper, NEW x, Coherent(m)
    PROVE  Moves(m, x, Disturb(m)) /\ Disturb(m).echo = m.echo
BY DEF Disturb, Moves, Coherent, Settles, Mapper, Disturbed, Admitted, Dispositions,
   Mechanisms

LEMMA Stays ==
    ASSUME NEW m \in Mapper, NEW x, Coherent(m)
    PROVE  Moves(m, x, m)
BY DEF Moves, Settles, Coherent

(* StepIf moves when both of its outcomes do.                              *)
LEMMA StepIfMoves ==
    ASSUME NEW m \in Mapper, NEW x, Coherent(m), NEW fits \in BOOLEAN, NEW new, NEW kind,
           fits => Moves(m, x, new)
    PROVE  Moves(m, x, StepIf(fits, m, new, kind).mapper)
<1>1. CASE fits
  BY <1>1 DEF StepIf, Step
<1>2. CASE ~fits
  BY <1>2, Disturbs DEF StepIf, Discrepancy
<1> QED BY <1>1, <1>2

LEMMA RequestMoves ==
    ASSUME NEW m \in Mapper, NEW x \in Messages, Coherent(m), ~Closed(m, x)
    PROVE  Moves(m, x, ProviderRequest(m, x).mapper)
<1> DEFINE new == [m EXCEPT !.pending = RequestOf(x), !.startedAt = x.at]
<1>1. RequestFits(m, x) => Moves(m, x, new)
  BY MessageFields DEF RequestFits, Moves, Coherent, Settles, Mapper, Disturbed, Admitted
<1>2. RequestFits(m, x) \in BOOLEAN
  BY DEF RequestFits
<1> QED BY <1>1, <1>2, StepIfMoves DEF ProviderRequest

LEMMA ResponseMoves ==
    ASSUME NEW m \in Mapper, NEW x \in Messages, Coherent(m), ~Closed(m, x)
    PROVE  Moves(m, x, ResponseStarted(m, x).mapper)
<1> DEFINE new == [m EXCEPT !.pending = NoRequest, !.startedAt = 0, !.last = x.at,
                     !.open = x.response,
                     !.responses = @ \cup {x.response},
                     !.completed = @ \cup {x.occurrence},
                     !.disposition = IF Admitted(m) THEN @ ELSE "EXECUTION_ADMITTED",
                     !.mechanism = IF Admitted(m) THEN "RUNNING" ELSE "EXECUTION_ADMITTED",
                     !.identity = IF Admitted(m) THEN @ ELSE x.response]
           fits == AnswersPending(m, x) /\ x.response \notin m.responses
<1>1. ASSUME fits PROVE Moves(m, x, new)
  <2>1. m.pending # NoRequest /\ ~Disturbed(m) /\ m.disposition # "ADMISSION_INDETERMINATE"
    BY <1>1 DEF AnswersPending, Closed, Disturbed, Coherent
  <2>2. new \in Mapper
    <3>1. /\ m.responses \cup {x.response} \in SUBSET Name
          /\ m.completed \cup {x.occurrence} \in SUBSET Name
      BY MessageFields DEF Mapper
    <3>2. NoRequest \in Request
      BY DEF NoRequest, Request, MaybeName
    <3>3. /\ (IF Admitted(m) THEN m.disposition ELSE "EXECUTION_ADMITTED") \in Dispositions
          /\ (IF Admitted(m) THEN "RUNNING" ELSE "EXECUTION_ADMITTED") \in Mechanisms
          /\ (IF Admitted(m) THEN m.identity ELSE x.response) \in MaybeName
      BY MapperFields, MessageFields DEF Dispositions, Mechanisms, MaybeName
    <3>4. x.response \in MaybeName
      BY MessageFields DEF MaybeName
    <3> QED BY <3>1, <3>2, <3>3, <3>4, MessageFields DEF Mapper
  <2>3. Coherent(new) /\ Settles(m, new)
    BY <2>1, MessageFields DEF Coherent, Settles, Admitted, Mapper
  <2>4. /\ new.expected = m.expected /\ new.cut = m.cut /\ new.retained = m.retained
        /\ new.echo = m.echo
    BY DEF Mapper
  <2> QED BY <2>2, <2>3, <2>4 DEF Moves
<1>2. fits \in BOOLEAN
  BY DEF AnswersPending
<1> HIDE DEF new, fits
<1>3. Moves(m, x, StepIf(fits, m, new, "PROVIDER_EXECUTION_STEP").mapper)
  BY <1>1, <1>2, StepIfMoves
<1> QED BY <1>3 DEF ResponseStarted, new, fits

LEMMA RefusalMoves ==
    ASSUME NEW m \in Mapper, NEW x \in Messages, Coherent(m), ~Closed(m, x)
    PROVE  Moves(m, x, ProviderRefused(m, x).mapper)
<1> DEFINE new == [m EXCEPT !.pending = NoRequest, !.startedAt = 0, !.last = x.at,
                     !.completed = @ \cup {x.occurrence},
                     !.disposition = "NOT_ADMITTED_MODEL_AT_CAPACITY",
                     !.mechanism = "PARKED_NOT_ADMITTED"]
           fits == AnswersPending(m, x) /\ ~Admitted(m)
<1>1. ASSUME fits PROVE Moves(m, x, new)
  <2>1. ~Disturbed(m) /\ m.disposition # "ADMISSION_INDETERMINATE"
    BY DEF Closed, Disturbed, Coherent
  <2>2. new \in Mapper
    <3>1. m.completed \cup {x.occurrence} \in SUBSET Name
      BY MessageFields DEF Mapper
    <3>2. NoRequest \in Request
      BY DEF NoRequest, Request, MaybeName
    <3> QED BY <3>1, <3>2, MessageFields DEF Mapper, MaybeName, Dispositions, Mechanisms
  <2>3. Coherent(new) /\ Settles(m, new)
    BY <1>1, <2>1 DEF Coherent, Settles, Admitted, Mapper
  <2>4. /\ new.expected = m.expected /\ new.cut = m.cut /\ new.retained = m.retained
        /\ new.echo = m.echo
    BY DEF Mapper
  <2> QED BY <2>2, <2>3, <2>4 DEF Moves
<1>2. fits \in BOOLEAN
  BY DEF AnswersPending, Admitted
<1> HIDE DEF new, fits
<1>3. Moves(m, x, StepIf(fits, m, new, "PROVIDER_ADMISSION_REFUSED").mapper)
  BY <1>1, <1>2, StepIfMoves
<1> QED BY <1>3 DEF ProviderRefused, new, fits

LEMMA CompletionMoves ==
    ASSUME NEW m \in Mapper, NEW x \in Messages, Coherent(m), ~Closed(m, x)
    PROVE  Moves(m, x, ResponseCompleted(m, x).mapper)
<1> DEFINE new == [m EXCEPT !.open = None, !.mechanism = "RUNNING"]
           fits == x.exact /\ Admitted(m) /\ x.response = m.open /\ x.response \in m.responses
<1>1. ASSUME fits PROVE Moves(m, x, new)
  <2>1. ~Disturbed(m) /\ Admitted(m)
    BY <1>1 DEF Closed, Disturbed, Coherent
  <2>2. new \in Mapper
    BY DEF Mapper, MaybeName, Mechanisms
  <2> QED BY <2>1, <2>2 DEF Moves, Coherent, Settles, Admitted, Mapper
<1>2. fits \in BOOLEAN
  BY MessagesAssumption DEF Message, Admitted
<1> HIDE DEF new, fits
<1>3. Moves(m, x, StepIf(fits, m, new, "PROVIDER_RESPONSE_COMPLETED").mapper)
  BY <1>1, <1>2, StepIfMoves
<1> QED BY <1>3 DEF ResponseCompleted, new, fits

LEMMA TurnMoves ==
    ASSUME NEW m \in Mapper, NEW x \in Messages, Coherent(m), ~Closed(m, x)
    PROVE  Moves(m, x, TurnCompleted(m, x).mapper)
<1> DEFINE new == [m EXCEPT !.mechanism = IF Admitted(m) THEN "PROVIDER_COMPLETED" ELSE @]
           fits == /\ x.exact
                   /\ m.pending = NoRequest
                   /\ m.open = None
                   /\ IF Admitted(m) THEN m.mechanism # "WAITING_APPROVAL"
                      ELSE /\ m.disposition = "NOT_ADMITTED_MODEL_AT_CAPACITY"
                           /\ m.mechanism = "PARKED_NOT_ADMITTED"
<1>1. ASSUME fits PROVE Moves(m, x, new)
  <2>1. ~Disturbed(m)
    BY <1>1 DEF Closed, Disturbed, Coherent
  <2>2. new \in Mapper
    BY DEF Mapper, Mechanisms
  <2> QED BY <2>1, <2>2 DEF Moves, Coherent, Settles, Admitted, Mapper
<1>2. fits \in BOOLEAN
  BY MessagesAssumption DEF Message, Admitted
<1> HIDE DEF new, fits
<1>3. Moves(m, x, StepIf(fits, m, new, "LOCAL_TURN_FACT").mapper)
  BY <1>1, <1>2, StepIfMoves
<1> QED BY <1>3 DEF TurnCompleted, new, fits

LEMMA ApprovalMoves ==
    ASSUME NEW m \in Mapper, NEW x \in Messages, Coherent(m), ~Closed(m, x)
    PROVE  Moves(m, x, Approval(m, x).mapper)
<1> DEFINE new == [m EXCEPT !.mechanism = "WAITING_APPROVAL"]
           fits == x.exact /\ Admitted(m) /\ m.open = None
<1>1. ASSUME fits PROVE Moves(m, x, new)
  <2>1. ~Disturbed(m) /\ Admitted(m)
    BY <1>1 DEF Closed, Disturbed, Coherent
  <2>2. new \in Mapper
    BY DEF Mapper, Mechanisms
  <2> QED BY <2>1, <2>2 DEF Moves, Coherent, Settles, Admitted, Mapper
<1>2. fits \in BOOLEAN
  BY MessagesAssumption DEF Message, Admitted
<1> HIDE DEF new, fits
<1>3. Moves(m, x, StepIf(fits, m, new, "WAITING_APPROVAL").mapper)
  BY <1>1, <1>2, StepIfMoves
<1> QED BY <1>3 DEF Approval, new, fits

(* A handler that changes only the state of the echo, and not its input.   *)
LEMMA EchoMoves ==
    ASSUME NEW m \in Mapper, NEW x, Coherent(m), NEW e \in Echo, e.input = m.echo.input
    PROVE  Moves(m, x, [m EXCEPT !.echo = e]) /\ [m EXCEPT !.echo = e] \in Mapper
             /\ Coherent([m EXCEPT !.echo = e])
BY DEF Moves, Coherent, Settles, Admitted, Mapper, Disturbed

LEMMA InputMoves ==
    ASSUME NEW m \in Mapper, NEW x \in Messages, Coherent(m)
    PROVE  Moves(m, x, InputItem(m, x).mapper)
<1> DEFINE e1 == [m.echo EXCEPT !.item = x.item]
           e2 == [m.echo EXCEPT !.done = TRUE]
<1>1. e1 \in Echo /\ e1.input = m.echo.input /\ e2 \in Echo /\ e2.input = m.echo.input
  BY MapperFields, MessageFields DEF Echo, MaybeName
<1>2. [m EXCEPT !.echo.item = x.item] = [m EXCEPT !.echo = e1]
  BY DEF Mapper
<1>3. [m EXCEPT !.echo.done = TRUE] = [m EXCEPT !.echo = e2]
  BY DEF Mapper
<1>4. Moves(m, x, [m EXCEPT !.echo.item = x.item]) /\ Moves(m, x, [m EXCEPT !.echo.done = TRUE])
  BY <1>1, <1>2, <1>3, EchoMoves
<1>5. (m.echo.item = None) \in BOOLEAN /\ (m.echo.item = x.item /\ ~m.echo.done) \in BOOLEAN
  OBVIOUS
<1>6. Moves(m, x, StepIf(m.echo.item = None, m, [m EXCEPT !.echo.item = x.item],
                         "FACT_OR_WATERMARK").mapper)
  BY <1>4, <1>5, StepIfMoves
<1>7. Moves(m, x, StepIf(m.echo.item = x.item /\ ~m.echo.done, m,
                         [m EXCEPT !.echo.done = TRUE], "FACT_OR_WATERMARK").mapper)
  BY <1>4, <1>5, StepIfMoves
<1> QED BY <1>6, <1>7 DEF InputItem, Watermark

LEMMA AgentStartMoves ==
    ASSUME NEW m \in Mapper, NEW x \in Messages, Coherent(m)
    PROVE  Moves(m, x, AgentStarted(m, x).mapper)
<1> DEFINE e == [m.echo EXCEPT !.agent = x.item]
<1>1. e \in Echo /\ e.input = m.echo.input
  BY MapperFields, MessageFields DEF Echo, MaybeName
<1>2. [m EXCEPT !.echo.agent = x.item] = [m EXCEPT !.echo = e]
  BY DEF Mapper
<1>3. Moves(m, x, [m EXCEPT !.echo.agent = x.item])
  BY <1>1, <1>2, EchoMoves
<1>4. (m.echo.agent = None /\ x.item \notin m.echo.completed) \in BOOLEAN
  OBVIOUS
<1> QED BY <1>3, <1>4, StepIfMoves DEF AgentStarted, Watermark

LEMMA CountMoves ==
    ASSUME NEW m \in Mapper, NEW x \in Messages, Coherent(m)
    PROVE  /\ Moves(m, x, Count(m, x)) /\ Count(m, x) \in Mapper /\ Coherent(Count(m, x))
           /\ Count(m, x) = [m EXCEPT !.echo = Count(m, x).echo]
           /\ Count(m, x).echo \in Echo /\ Count(m, x).echo.input = m.echo.input
<1> DEFINE e == [m.echo EXCEPT !.bytes = @ + x.bytes]
<1>1. m.echo.bytes + x.bytes \in Nat
  BY MapperFields, MessageFields
<1>2. e \in Echo /\ e.input = m.echo.input
  BY <1>1, MapperFields DEF Echo
<1>3. Count(m, x) = [m EXCEPT !.echo = e]
  BY DEF Mapper, Count
<1>4. Count(m, x).echo = e
  BY <1>3 DEF Mapper
<1> HIDE DEF e
<1> QED BY <1>2, <1>3, <1>4, EchoMoves

(* What moves a mapper after its echo has changed moves the mapper.        *)
LEMMA MovesAfterEcho ==
    ASSUME NEW m \in Mapper, NEW x, NEW e \in Echo, e.input = m.echo.input,
           NEW n, Moves([m EXCEPT !.echo = e], x, n)
    PROVE  Moves(m, x, n)
BY DEF Moves, Settles, Admitted, Disturbed, Mapper

(* A watermark after the bytes of an output were counted.                  *)
LEMMA CountedMoves ==
    ASSUME NEW m \in Mapper, NEW x \in Messages, Coherent(m), NEW fits \in BOOLEAN,
           NEW e \in Echo, e.input = m.echo.input
    PROVE  Moves(m, x, Watermark(fits, Count(m, x), [Count(m, x) EXCEPT !.echo = e]).mapper)
<1> DEFINE c == Count(m, x)
<1>1. /\ c \in Mapper /\ Coherent(c) /\ c.echo.input = m.echo.input /\ c.echo \in Echo
      /\ c = [m EXCEPT !.echo = c.echo]
  BY CountMoves
<1> HIDE DEF c
<1>2. Moves(c, x, [c EXCEPT !.echo = e])
  BY <1>1, EchoMoves
<1>3. Moves(c, x, Watermark(fits, c, [c EXCEPT !.echo = e]).mapper)
  BY <1>1, <1>2, StepIfMoves DEF Watermark
<1>4. Moves([m EXCEPT !.echo = c.echo], x, Watermark(fits, c, [c EXCEPT !.echo = e]).mapper)
  BY <1>1, <1>3, Zenon
<1>5. Moves(m, x, Watermark(fits, c, [c EXCEPT !.echo = e]).mapper)
  BY <1>1, <1>4, MovesAfterEcho
<1> QED BY <1>5 DEF c

LEMMA CountFields ==
    ASSUME NEW m \in Mapper, NEW x \in Messages, Coherent(m)
    PROVE  /\ Count(m, x).echo.bytes \in Nat
           /\ (Count(m, x).echo.bytes <= MaxAgentBytes) \in BOOLEAN
           /\ Count(m, x) = [Count(m, x) EXCEPT !.echo = Count(m, x).echo]
<1>1. Count(m, x) \in Mapper
  BY CountMoves
<1>2. Count(m, x).echo.bytes \in Nat
  BY <1>1, MapperFields
<1>3. Count(m, x) = [Count(m, x) EXCEPT !.echo = Count(m, x).echo]
  BY <1>1 DEF Mapper
<1> QED BY <1>2, <1>3, BoundsAssumption

LEMMA AgentEndMoves ==
    ASSUME NEW m \in Mapper, NEW x \in Messages, Coherent(m)
    PROVE  Moves(m, x, AgentCompleted(m, x).mapper)
<1> DEFINE c == Count(m, x)
           e == [c.echo EXCEPT !.completed = @ \cup {x.item},
                               !.last = <<x.item, x.text>>,
                               !.agent = None]
<1>1. c \in Mapper /\ c.echo \in Echo /\ c.echo.input = m.echo.input
  BY CountMoves
<1>2. e \in Echo /\ e.input = m.echo.input
  <2>1. c.echo.completed \cup {x.item} \in SUBSET Name
    BY <1>1, MessageFields DEF Echo
  <2>2. <<x.item, x.text>> \in MaybeName \X MaybeName /\ None \in MaybeName
    BY MessageFields DEF MaybeName
  <2> HIDE DEF c
  <2> QED BY <1>1, <2>1, <2>2 DEF Echo
<1>3. [c EXCEPT !.echo.completed = @ \cup {x.item},
                !.echo.last = <<x.item, x.text>>,
                !.echo.agent = None] = [c EXCEPT !.echo = e]
  BY <1>1 DEF Mapper, Echo
<1>4. Moves(m, x, Watermark(c.echo.bytes <= MaxAgentBytes, c, [c EXCEPT !.echo = e]).mapper)
  BY <1>2, CountFields, CountedMoves
<1>5. Moves(m, x, Discrepancy(m, "protocol").mapper)
  BY Disturbs DEF Discrepancy
<1> HIDE DEF e
<1> QED BY <1>3, <1>4, <1>5 DEF AgentCompleted, c

LEMMA OtherAgentMoves ==
    ASSUME NEW m \in Mapper, NEW x \in Messages, Coherent(m)
    PROVE  Moves(m, x, OtherAgentCompleted(m, x).mapper)
<1> DEFINE c == Count(m, x)
<1>1. c.echo \in Echo /\ c.echo.input = m.echo.input
  BY CountMoves
<1>2. Moves(m, x, Watermark(c.echo.bytes <= MaxAgentBytes, c, [c EXCEPT !.echo = c.echo]).mapper)
  BY <1>1, CountFields, CountedMoves
<1> QED BY <1>2, CountFields DEF OtherAgentCompleted

LEMMA ClientRequestMoves ==
    ASSUME NEW m \in Mapper, NEW x \in Messages, Coherent(m), x.type = "client_request"
    PROVE  Moves(m, x, ClientRequest(m, x).mapper)
<1> DEFINE chosen == IF SelectsInput(x) THEN [m EXCEPT !.echo.input = TRUE] ELSE m
           issued == [id |-> x.client, method |-> x.method]
           new == [chosen EXCEPT !.clients = @ \cup {issued}]
           free == \A c \in m.clients : c.id # x.client
<1>1. chosen \in Mapper /\ Coherent(chosen)
  BY DEF Mapper, Echo, Coherent, Admitted
<1>2. /\ chosen.expected = m.expected /\ chosen.cut = m.cut /\ chosen.retained = m.retained
      /\ chosen.disposition = m.disposition /\ chosen.mechanism = m.mechanism
      /\ chosen.identity = m.identity
      /\ chosen.echo.input = m.echo.input \/ (Sends(x) /\ Echoing /\ chosen.echo.input)
  BY DEF Mapper, Echo, SelectsInput, Sends
<1>3. chosen.clients \cup {issued} \in SUBSET [id : Nat, method : Name]
  BY <1>1, MessageFields DEF Mapper
<1> HIDE DEF chosen, issued
<1>4. new \in Mapper /\ Coherent(new)
  BY <1>1, <1>3 DEF Mapper, Coherent, Admitted
<1>5. /\ new.expected = m.expected /\ new.cut = m.cut /\ new.retained = m.retained
      /\ new.disposition = m.disposition /\ new.mechanism = m.mechanism
      /\ new.identity = m.identity /\ new.echo = chosen.echo
  BY <1>1, <1>2 DEF Mapper
<1>6. Moves(m, x, new)
  BY <1>2, <1>4, <1>5 DEF Moves, Settles, Admitted, Disturbed
<1>7. Moves(chosen, x, Disturb(chosen)) /\ Disturb(chosen).echo = chosen.echo
  BY <1>1, Disturbs
<1>8. Moves(m, x, Disturb(chosen))
  BY <1>2, <1>7 DEF Moves, Settles, Admitted, Disturbed
<1>9. Moves(m, x, Disturb(m))
  BY Disturbs
<1>10. Moves(m, x, StepIf(free, chosen, new, "CLIENT_REQUEST_ISSUED").mapper)
  BY <1>6, <1>8 DEF StepIf, Step, Discrepancy
<1>11. Moves(m, x, Discrepancy(m, "protocol").mapper)
  BY <1>9 DEF Discrepancy
<1> QED BY <1>10, <1>11 DEF ClientRequest, chosen, issued

LEMMA ClientResponseMoves ==
    ASSUME NEW m \in Mapper, NEW x \in Messages, Coherent(m)
    PROVE  Moves(m, x, ClientResponse(m, x).mapper)
<1> DEFINE issued == [id |-> x.client, method |-> x.method]
           new == [m EXCEPT !.clients = @ \ {issued}]
<1>1. new \in Mapper
  BY DEF Mapper
<1>2. Moves(m, x, new)
  BY <1>1 DEF Moves, Coherent, Settles, Admitted, Disturbed, Mapper
<1>3. (x.exact /\ issued \in m.clients) \in BOOLEAN
  BY MessagesAssumption DEF Message
<1> HIDE DEF new, issued
<1>4. Moves(m, x, StepIf(x.exact /\ issued \in m.clients, m, new, "CLIENT_RESPONSE_RETAINED").mapper)
  BY <1>2, <1>3, StepIfMoves
<1> QED BY <1>4 DEF ClientResponse, new, issued

----------------------------------------------------------------------------
(* A whole message.                                                        *)

LEMMA SummaryMoves ==
    ASSUME NEW m \in Mapper, NEW x \in Messages, Coherent(m), ~Closed(m, x)
    PROVE  Moves(m, x, TurnSummary(m, x).mapper)
<1>1. Moves(m, x, Discrepancy(m, "protocol").mapper)
  BY Disturbs DEF Discrepancy
<1>2. Moves(m, x, TurnCompleted(m, x).mapper)
  BY TurnMoves
<1> QED BY <1>1, <1>2 DEF TurnSummary

LEMMA WatermarkMoves ==
    ASSUME NEW m \in Mapper, NEW x \in Messages, Coherent(m), NEW fits \in BOOLEAN
    PROVE  Moves(m, x, Watermark(fits, m, m).mapper)
BY Stays, StepIfMoves DEF Watermark

LEMMA HandleMoves ==
    ASSUME NEW m \in Mapper, NEW x \in Messages, Coherent(m), ~Closed(m, x)
    PROVE  Moves(m, x, Handle(m, x).mapper)
<1>1. /\ Moves(m, x, ProviderRequest(m, x).mapper)
      /\ Moves(m, x, ResponseStarted(m, x).mapper)
      /\ Moves(m, x, ProviderRefused(m, x).mapper)
      /\ Moves(m, x, ResponseCompleted(m, x).mapper)
      /\ Moves(m, x, TurnCompleted(m, x).mapper)
      /\ Moves(m, x, TurnSummary(m, x).mapper)
      /\ Moves(m, x, Approval(m, x).mapper)
  BY RequestMoves, ResponseMoves, RefusalMoves, CompletionMoves, TurnMoves, SummaryMoves,
     ApprovalMoves
<1>2. /\ Moves(m, x, InputItem(m, x).mapper)
      /\ Moves(m, x, AgentStarted(m, x).mapper)
      /\ Moves(m, x, AgentCompleted(m, x).mapper)
      /\ Moves(m, x, OtherAgentCompleted(m, x).mapper)
  BY InputMoves, AgentStartMoves, AgentEndMoves, OtherAgentMoves
<1>3. /\ x.exact \in BOOLEAN /\ (m.echo.agent = x.item) \in BOOLEAN /\ TRUE \in BOOLEAN
  BY MessagesAssumption DEF Message
<1>4. /\ Moves(m, x, Watermark(x.exact, m, m).mapper)
      /\ Moves(m, x, Watermark(TRUE, m, m).mapper)
  BY <1>3, WatermarkMoves
<1>5. Moves(m, x, AgentDelta(m, x).mapper)
  BY <1>3, WatermarkMoves DEF AgentDelta
<1>6. Moves(m, x, Discrepancy(m, "protocol").mapper)
  BY Disturbs DEF Discrepancy
<1> QED BY <1>1, <1>2, <1>4, <1>5, <1>6, Zenon DEF Handle

LEMMA ConsumeMoves ==
    ASSUME NEW m \in Mapper, NEW x \in Messages, Coherent(m)
    PROVE  Moves(m, x, Consume(m, x).mapper)
<1>1. Moves(m, x, ServerMessage(m, x).mapper)
  <2>1. Moves(m, x, Disturb(m))
    BY Disturbs
  <2>2. ~Closed(m, x) => Moves(m, x, Handle(m, x).mapper)
    BY HandleMoves
  <2> QED BY <2>1, <2>2 DEF ServerMessage, Discrepancy
<1>2. Moves(m, x, ClientResponse(m, x).mapper)
  BY ClientResponseMoves
<1>3. x.type = "client_request" => Moves(m, x, ClientRequest(m, x).mapper)
  BY ClientRequestMoves
<1>4. Moves(m, x, Raise(m).mapper)
  BY Stays DEF Raise
<1>5. CASE x.type \in Client /\ ~ClientFits(x)
  BY <1>4, <1>5 DEF Consume, Client
<1>6. CASE x.type = "client_request" /\ ClientFits(x)
  BY <1>3, <1>6 DEF Consume, Client
<1>7. CASE x.type = "client_response" /\ ClientFits(x)
  BY <1>2, <1>7 DEF Consume, Client
<1>8. CASE x.type \notin Client
  BY <1>1, <1>8 DEF Consume, Client
<1> QED BY <1>5, <1>6, <1>7, <1>8 DEF Client

----------------------------------------------------------------------------
(* A whole operation.                                                      *)

Progress(m, n) == n \in Mapper /\ Coherent(n) /\ Settles(m, n)

Raws == {<<>>} \cup {<<x>> : x \in Messages}

Sources == Kinds \cup {"LOSS", None}

(* What an operation on m may leave behind.                                *)
Outcome(m, o) ==
    /\ Progress(m, o.mapper)
    /\ \/ o.record = Raised
       \/ /\ o.record.kind # "RAISED"
          /\ o.record.ordinal \in Nat /\ o.record.as \in Sources /\ o.record.raw \in Raws

LEMMA RawFields ==
    /\ <<>> \in Raws
    /\ \A x \in Messages : <<x>> \in Raws
    /\ \A raw \in Raws : raw # <<>> => raw[1] \in Messages /\ raw = <<raw[1]>>
    /\ \A raw \in Raws : (IF raw = <<>> THEN 1 ELSE raw[1].size) \in Nat
<1>1. /\ <<>> \in Raws
      /\ \A x \in Messages : <<x>> \in Raws
      /\ \A raw \in Raws : raw # <<>> => raw[1] \in Messages /\ raw = <<raw[1]>>
  BY DEF Raws
<1>2. \A raw \in Raws : raw # <<>> => raw[1].size \in Nat
  BY <1>1, MessageFields
<1> QED BY <1>1, <1>2

LEMMA AtomicOutcome ==
    ASSUME NEW m \in Mapper, Coherent(m), NEW s, NEW o \in Nat, NEW as \in Sources,
           NEW raw \in Raws, NEW cut, Progress(m, s.mapper)
    PROVE  Outcome(m, Atomic(m, s, Envelope(o, as, raw), cut))
<1> DEFINE e == Envelope(o, as, raw)
           r == Record(s, e, cut)
           left == [m EXCEPT !.echo = s.mapper.echo]
           next == [s.mapper EXCEPT !.retained = @ + Size(r)]
<1>1. /\ r.kind = s.kind /\ r.ordinal = o /\ r.as = as /\ r.raw \in Raws
      /\ Size(r) \in Nat
  BY RawFields DEF Record, Envelope, Size
<1>2. Progress(m, m)
  BY DEF Progress, Settles
<1>3. Progress(m, left)
  <2>1. s.mapper.echo \in Echo
    BY MapperFields DEF Progress
  <2> QED BY <2>1 DEF Progress, Coherent, Settles, Admitted, Disturbed, Mapper
<1>4. Progress(m, next)
  <2>1. s.mapper.retained \in Nat /\ s.mapper \in Mapper
    BY MapperFields DEF Progress
  <2> HIDE DEF r
  <2>2. s.mapper.retained + Size(r) \in Nat
    BY <1>1, <2>1
  <2> QED BY <2>2 DEF Progress, Coherent, Settles, Admitted, Disturbed, Mapper
<1>5. CASE m.cut # "open"
  BY <1>2, <1>5 DEF Atomic, Outcome
<1> HIDE DEF e, r, left, next
<1>6. CASE m.cut = "open" /\ (s.kind = "RAISED" \/ m.retained + Size(r) > MaxRetained)
  BY <1>3, <1>6 DEF Atomic, Outcome, r, e, left
<1>7. CASE m.cut = "open" /\ ~(s.kind = "RAISED" \/ m.retained + Size(r) > MaxRetained)
  <2>1. Atomic(m, s, e, cut) = [mapper |-> next, record |-> r]
    BY <1>7 DEF Atomic, r, next
  <2>2. Outcome(m, [mapper |-> next, record |-> r])
    BY <1>1, <1>4, <1>7 DEF Outcome
  <2> QED BY <2>1, <2>2 DEF e
<1> QED BY <1>5, <1>6, <1>7

LEMMA AfterMoves ==
    ASSUME NEW m \in Mapper, Coherent(m), NEW o \in Nat
    PROVE  LET n == After(m, o)
           IN  /\ n \in Mapper /\ Coherent(n)
               /\ n = [m EXCEPT !.expected = IF o < m.expected THEN m.expected ELSE o + 1]
               /\ \A k, x : Moves(n, x, k) => Progress(m, k)
<1> DEFINE n == After(m, o)
<1>1. (IF o < m.expected THEN m.expected ELSE o + 1) \in Nat
  BY MapperFields
<1>2. n = [m EXCEPT !.expected = IF o < m.expected THEN m.expected ELSE o + 1]
  BY DEF After, Mapper
<1>3. n \in Mapper /\ Coherent(n)
  BY <1>1, <1>2 DEF Mapper, Coherent, Admitted
<1>4. /\ n.disposition = m.disposition /\ n.mechanism = m.mechanism
      /\ n.identity = m.identity
  BY <1>2 DEF Mapper
<1> HIDE DEF n
<1>5. \A k, x : Moves(n, x, k) => Progress(m, k)
  BY <1>4 DEF Moves, Progress, Settles, Admitted, Disturbed
<1> QED BY <1>2, <1>3, <1>5 DEF n

LEMMA EnvelopeOutcome ==
    ASSUME NEW m \in Mapper, Coherent(m), NEW o \in Nat, NEW as \in Sources, NEW raw \in Raws
    PROVE  Outcome(m, ConsumeEnvelope(m, Envelope(o, as, raw)))
<1> DEFINE e == Envelope(o, as, raw)
           next == After(m, o)
           s == IF o # m.expected THEN Discrepancy(next, "gap")
                ELSE IF as = "LOSS" THEN Discrepancy(next, "loss")
                ELSE IF raw = <<>> THEN Discrepancy(next, "shape")
                ELSE Consume(next, raw[1])
<1>1. next \in Mapper /\ Coherent(next) /\ \A k, x : Moves(next, x, k) => Progress(m, k)
  BY AfterMoves
<1> HIDE DEF next
<1>2. \A x : Moves(next, x, Disturb(next))
  BY <1>1, Disturbs
<1>3. ASSUME raw # <<>> PROVE Progress(m, Consume(next, raw[1]).mapper)
  <2>1. raw[1] \in Messages
    BY <1>3, RawFields
  <2>2. Moves(next, raw[1], Consume(next, raw[1]).mapper)
    BY <1>1, <2>1, ConsumeMoves
  <2> QED BY <1>1, <2>2
<1>4. Progress(m, s.mapper)
  BY <1>1, <1>2, <1>3 DEF Discrepancy
<1>5. ConsumeEnvelope(m, e) = Atomic(m, s, e, NoCut)
  BY DEF ConsumeEnvelope, Envelope, next
<1> HIDE DEF s
<1> QED BY <1>4, <1>5, AtomicOutcome

LEMMA LossOutcome ==
    ASSUME NEW m \in Mapper, Coherent(m)
    PROVE  Outcome(m, MarkLoss(m))
<1>1. Progress(m, Discrepancy(m, "operator").mapper)
  BY Disturbs DEF Discrepancy, Moves, Progress
<1>2. 0 \in Nat /\ None \in Sources /\ <<>> \in Raws
  BY RawFields DEF Sources
<1> QED BY <1>1, <1>2, AtomicOutcome DEF MarkLoss

LEMMA CutOutcome ==
    ASSUME NEW m \in Mapper, Coherent(m), NEW c
    PROVE  Outcome(m, ConsumeCut(m, c))
<1> DEFINE new == IF Clean(m, c) THEN [m EXCEPT !.cut = "clean"]
                  ELSE [Disturb(m) EXCEPT !.cut = "unclean"]
           s == Step(new, "ACQUISITION_CUT")
<1>1. Progress(m, Disturb(m))
  BY Disturbs DEF Moves, Progress
<1>2. Progress(m, [m EXCEPT !.cut = "clean"])
  BY DEF Progress, Coherent, Settles, Admitted, Disturbed, Mapper
<1>3. Progress(m, [Disturb(m) EXCEPT !.cut = "unclean"])
  <2> DEFINE d == Disturb(m)
  <2> HIDE DEF d
  <2>1. Progress(m, d) => Progress(m, [d EXCEPT !.cut = "unclean"])
    BY DEF Progress, Coherent, Settles, Admitted, Disturbed, Mapper
  <2> QED BY <1>1, <2>1 DEF d
<1>4. Progress(m, s.mapper)
  BY <1>2, <1>3 DEF Step
<1>5. 0 \in Nat /\ None \in Sources /\ <<>> \in Raws
  BY RawFields DEF Sources
<1>6. ConsumeCut(m, c) = Atomic(m, s, Envelope(0, None, <<>>), c)
  BY DEF ConsumeCut
<1> HIDE DEF s
<1> QED BY <1>4, <1>5, <1>6, AtomicOutcome

LEMMA ReplayOutcome ==
    ASSUME NEW n \in Mapper, Coherent(n), NEW m, NEW o, Outcome(m, o), o.record # Raised
    PROVE  Outcome(n, Replay(n, o.record))
<1> DEFINE r == o.record
<1>1. r.ordinal \in Nat /\ r.as \in Sources /\ r.raw \in Raws
  BY DEF Outcome
<1>2. Outcome(n, [mapper |-> n, record |-> Raised])
  BY DEF Outcome, Progress, Settles
<1>3. Outcome(n, ConsumeEnvelope(n, Envelope(r.ordinal, r.as, r.raw)))
  BY <1>1, EnvelopeOutcome
<1>4. Outcome(n, ConsumeCut(n, r.cut)) /\ Outcome(n, MarkLoss(n))
  BY CutOutcome, LossOutcome
<1>5. \/ r.as \in {"CLIENT_REQUEST", "CLIENT_RESPONSE"}
      \/ r.as \in {"NOTIFICATION", "SERVER_REQUEST", "LOSS"}
      \/ r.as = None
  BY <1>1 DEF Sources, Kinds
<1> HIDE DEF r
<1>6. r.as \in {"CLIENT_REQUEST", "CLIENT_RESPONSE"} => Outcome(n, Replay(n, r))
  BY <1>2, <1>3 DEF Replay, None
<1>7. r.as \in {"NOTIFICATION", "SERVER_REQUEST", "LOSS"} => Outcome(n, Replay(n, r))
  BY <1>3 DEF Replay, None
<1>8. r.as = None => Outcome(n, Replay(n, r))
  BY <1>4 DEF Replay, None
<1> QED BY <1>5, <1>6, <1>7, <1>8 DEF r

----------------------------------------------------------------------------
(* The acquisition.                                                        *)

StateInv == TypeOK /\ Coherent(mapper) /\ Coherent(replayed)

Seen == Messages \cup {Gone}

LEMMA RetainTypes ==
    ASSUME StateInv, NEW o, Outcome(mapper, o), NEW seen \in Seq(Seen), Retain(o, seen)
    PROVE  /\ mapper' \in Mapper /\ Coherent(mapper') /\ Settles(mapper, mapper')
           /\ replayed' \in Mapper /\ Coherent(replayed')
           /\ faithful' \in BOOLEAN
           /\ log' \in Seq(Messages \cup {Gone})
<1>1. mapper' \in Mapper /\ Coherent(mapper') /\ Settles(mapper, mapper')
  BY DEF Retain, Outcome, Progress
<1>2. replayed' \in Mapper /\ Coherent(replayed')
  <2>1. CASE o.record = Raised
    <3>1. replayed' = replayed
      BY <2>1 DEF Retain
    <3> QED BY <3>1 DEF StateInv, TypeOK
  <2>2. CASE o.record # Raised
    <3>1. replayed' = Replay(replayed, o.record).mapper
      BY <2>2 DEF Retain
    <3>2. replayed \in Mapper /\ Coherent(replayed)
      BY DEF StateInv, TypeOK
    <3>3. Outcome(replayed, Replay(replayed, o.record))
      BY <2>2, <3>2, ReplayOutcome
    <3> QED BY <3>1, <3>3 DEF Outcome, Progress
  <2> QED BY <2>1, <2>2
<1>3. faithful' \in BOOLEAN
  BY DEF Retain
<1>4. log' \in Seq(Messages \cup {Gone})
  <2>1. log \in Seq(Seen)
    BY DEF StateInv, TypeOK, Seen
  <2>2. log' = log \/ log' = log \o seen
    BY DEF Retain
  <2>3. log \o seen \in Seq(Seen)
    BY <2>1
  <2> QED BY <2>1, <2>2, <2>3 DEF Seen
<1> QED BY <1>1, <1>2, <1>3, <1>4

LEMMA SeenFields ==
    /\ \A x \in Messages : <<x>> \in Seq(Seen)
    /\ <<Gone>> \in Seq(Seen) /\ <<>> \in Seq(Seen)
BY DEF Seen

LEMMA KindFields ==
    ASSUME NEW x \in Messages
    PROVE  KindOf(x) \in Sources
BY DEF KindOf, Sources, Kinds

LEMMA Draws ==
    ASSUME StateInv, Draw
    PROVE  /\ position \in Nat /\ position' \in 0 .. MaxOrdinal
           /\ position' = position + 1
BY BoundsAssumption DEF Draw, StateInv, TypeOK

LEMMA StateInvStep ==
    ASSUME StateInv, [Next]_vars
    PROVE  StateInv' /\ (mapper' = mapper \/ Settles(mapper, mapper'))
<1>1. mapper \in Mapper /\ Coherent(mapper) /\ position \in Nat
  BY BoundsAssumption DEF StateInv, TypeOK
<1>2. ASSUME NEW x \in Messages, Acquire(x)
      PROVE  StateInv' /\ Settles(mapper, mapper')
  <2> DEFINE o == ConsumeEnvelope(mapper, Envelope(position, KindOf(x), <<x>>))
             seen == IF position = mapper.expected THEN <<x>> ELSE <<Gone>>
  <2>1. Outcome(mapper, o)
    BY <1>1, KindFields, RawFields, EnvelopeOutcome
  <2>2. seen \in Seq(Seen)
    BY SeenFields
  <2>3. Retain(o, seen)
    BY <1>2 DEF Acquire
  <2>4. position' \in 0 .. MaxOrdinal
    BY <1>2, Draws DEF Acquire
  <2>5. lost' = lost /\ sent' \in BOOLEAN
    BY <1>2 DEF Acquire
  <2> HIDE DEF o, seen
  <2> QED BY <2>1, <2>2, <2>3, <2>4, <2>5, RetainTypes DEF StateInv, TypeOK
<1>3. ASSUME AcquireLoss
      PROVE  StateInv' /\ Settles(mapper, mapper')
  <2> DEFINE o == ConsumeEnvelope(mapper, Envelope(position, "LOSS", <<>>))
  <2>1. Outcome(mapper, o)
    BY <1>1, RawFields, EnvelopeOutcome DEF Sources
  <2>2. Retain(o, <<Gone>>)
    BY <1>3 DEF AcquireLoss
  <2>3. position' \in 0 .. MaxOrdinal /\ lost' \in BOOLEAN /\ sent' = sent
    BY <1>3, Draws DEF AcquireLoss
  <2> HIDE DEF o
  <2> QED BY <2>1, <2>2, <2>3, SeenFields, RetainTypes DEF StateInv, TypeOK
<1>4. ASSUME MissFrame
      PROVE  StateInv' /\ mapper' = mapper
  <2>1. position' \in 0 .. MaxOrdinal
    BY <1>4, Draws DEF MissFrame
  <2> QED BY <1>4, <2>1 DEF MissFrame, StateInv, TypeOK
<1>5. ASSUME OperationFails
      PROVE  StateInv' /\ Settles(mapper, mapper')
  <2>1. Outcome(mapper, MarkLoss(mapper))
    BY <1>1, LossOutcome
  <2> QED BY <1>5, <2>1, SeenFields, RetainTypes DEF OperationFails, StateInv, TypeOK
<1>6. ASSUME TakeCut
      PROVE  StateInv' /\ Settles(mapper, mapper')
  <2>1. PICK c : Retain(ConsumeCut(mapper, c), <<>>)
    BY <1>6 DEF TakeCut
  <2>2. Outcome(mapper, ConsumeCut(mapper, c))
    BY <1>1, CutOutcome
  <2> QED BY <1>6, <2>1, <2>2, SeenFields, RetainTypes DEF TakeCut, StateInv, TypeOK
<1>7. CASE UNCHANGED vars
  BY <1>7 DEF vars, StateInv, TypeOK
<1> QED BY <1>2, <1>3, <1>4, <1>5, <1>6, <1>7 DEF Next

LEMMA StateInvInit ==
    ASSUME Init
    PROVE  StateInv
<1>1. NoRequest \in Request /\ NoEcho \in Echo
  BY DEF NoRequest, Request, MaybeName, NoEcho, Echo
<1>2. NewMapper \in Mapper
  BY <1>1 DEF NewMapper, Mapper, MaybeName, Dispositions, Mechanisms
<1>3. Coherent(NewMapper)
  BY DEF Coherent, NewMapper, Admitted
<1>4. 0 \in 0 .. MaxOrdinal /\ <<>> \in Seq(Messages \cup {Gone})
  BY BoundsAssumption
<1> QED BY <1>2, <1>3, <1>4 DEF Init, StateInv, TypeOK

(* Every reachable state of mapper, replay and client is well typed.       *)
THEOREM MapperTypes == Spec => []TypeOK
<1>1. StateInv /\ [Next]_vars => StateInv'
  BY StateInvStep
<1>2. StateInv => TypeOK
  BY DEF StateInv
<1> QED BY <1>1, <1>2, StateInvInit, PTL DEF Spec

(* No evidence that comes later repairs a disposition, whatever the App    *)
(* Server sends and in whatever order.                                     *)
THEOREM DispositionStaysSettled == Spec => DispositionIsSettled
<1>1. StateInv /\ [Next]_vars => StateInv'
  BY StateInvStep
<1>2. StateInv /\ [Next]_vars =>
        [/\ mapper.disposition \in {"EXECUTION_ADMITTED", "ADMISSION_INDETERMINATE"} =>
                  mapper'.disposition = mapper.disposition
         /\ mapper.disposition = "NOT_ADMITTED_MODEL_AT_CAPACITY" =>
                  mapper'.disposition # "EXECUTION_ADMITTED"
         /\ Admitted(mapper) => mapper'.identity = mapper.identity
         /\ Disturbed(mapper) => mapper'.mechanism = mapper.mechanism]_mapper
  BY StateInvStep DEF Settles
<1> QED BY <1>1, <1>2, StateInvInit, PTL DEF Spec, DispositionIsSettled

----------------------------------------------------------------------------
(* Replay.  Until an input is selected, only frames that the mapper judges *)
(* with their bytes are admitted to it.                                    *)

Leave(m, echo) == [m EXCEPT !.echo = echo]

Grow(m, n) == [m EXCEPT !.retained = @ + n]

Alike(m, n) == n = Leave(m, n.echo)

(* The mappers are the same but for an echo that an operation has left     *)
(* behind, which then judges nothing any more.                             *)
ReplayInv ==
    /\ faithful
    /\ Alike(mapper, replayed)
    /\ mapper.expected <= position
    /\ mapper.echo # replayed.echo => Disturbed(mapper) \/ mapper.expected < position
    /\ mapper.echo.input = replayed.echo.input

(* Two operations do the same, but for the echo.                           *)
Twin(s, t) ==
    /\ t.kind = s.kind /\ t.detail = s.detail
    /\ s.mapper \in Mapper /\ t.mapper \in Mapper
    /\ Alike(s.mapper, t.mapper)

LEMMA Leaves ==
    ASSUME NEW m \in Mapper, NEW echo \in Echo
    PROVE  /\ Leave(m, echo) \in Mapper
           /\ Leave(m, echo).echo = echo
           /\ Leave(m, m.echo) = m
           /\ Leave(m, echo).cut = m.cut /\ Leave(m, echo).retained = m.retained
           /\ Leave(m, echo).expected = m.expected
           /\ Leave(m, echo).mechanism = m.mechanism
           /\ Leave(m, echo).disposition = m.disposition
           /\ Leave(m, echo).identity = m.identity
           /\ Leave(m, echo).clients = m.clients
  BY DEF Leave, Mapper

LEMMA LeaveAgain ==
    ASSUME NEW m \in Mapper, NEW e, NEW f
    PROVE  Leave(Leave(m, e), f) = Leave(m, f)
  BY DEF Leave, Mapper

LEMMA Grows ==
    ASSUME NEW m \in Mapper, NEW n \in Nat
    PROVE  /\ Grow(m, n) \in Mapper
           /\ Grow(m, n).retained = m.retained + n
           /\ Grow(m, n).echo = m.echo /\ Grow(m, n).cut = m.cut
           /\ Grow(m, n).expected = m.expected /\ Grow(m, n).mechanism = m.mechanism
           /\ \A e : Grow(Leave(m, e), n) = Leave(Grow(m, n), e)
<1>1. m.retained + n \in Nat
  BY MapperFields
<1>2. /\ Grow(m, n) \in Mapper
      /\ Grow(m, n).retained = m.retained + n
      /\ Grow(m, n).echo = m.echo /\ Grow(m, n).cut = m.cut
      /\ Grow(m, n).expected = m.expected /\ Grow(m, n).mechanism = m.mechanism
  BY <1>1 DEF Grow, Mapper
<1>3. ASSUME NEW e PROVE Grow(Leave(m, e), n) = Leave(Grow(m, n), e)
  BY DEF Grow, Leave, Mapper
<1> QED BY <1>2, <1>3

LEMMA AtomicFields ==
    ASSUME NEW m \in Mapper, NEW s, s.mapper \in Mapper, NEW e, e.raw \in Raws, NEW cut
    PROVE  LET r == Record(s, e, cut)
               a == Atomic(m, s, e, cut)
           IN  /\ r.kind = s.kind /\ Size(r) \in Nat
               /\ a.record # Raised =>
                     /\ m.cut = "open" /\ s.kind # "RAISED"
                     /\ m.retained + Size(r) <= MaxRetained
                     /\ a.record = r
                     /\ a.mapper = Grow(s.mapper, Size(r))
               /\ a.record = Raised =>
                     IF m.cut # "open" THEN a.mapper = m
                     ELSE /\ s.kind = "RAISED" \/ m.retained + Size(r) > MaxRetained
                          /\ a.mapper = Leave(m, s.mapper.echo)
<1> DEFINE r == Record(s, e, cut)
           z == Size(r)
           a == Atomic(m, s, e, cut)
<1>1. r.kind = s.kind /\ z \in Nat
  BY RawFields DEF Record, Size
<1>2. m.retained \in Nat
  BY MapperFields
<1>3. a = IF m.cut # "open" THEN [mapper |-> m, record |-> Raised]
          ELSE IF s.kind = "RAISED" \/ m.retained + z > MaxRetained
          THEN [mapper |-> Leave(m, s.mapper.echo), record |-> Raised]
          ELSE [mapper |-> Grow(s.mapper, z), record |-> r]
  BY Zenon DEF Atomic, Leave, Grow
<1> DEFINE Goal == /\ r.kind = s.kind /\ z \in Nat
                   /\ a.record # Raised =>
                         /\ m.cut = "open" /\ s.kind # "RAISED"
                         /\ m.retained + z <= MaxRetained
                         /\ a.record = r
                         /\ a.mapper = Grow(s.mapper, z)
                   /\ a.record = Raised =>
                         IF m.cut # "open" THEN a.mapper = m
                         ELSE /\ s.kind = "RAISED" \/ m.retained + z > MaxRetained
                              /\ a.mapper = Leave(m, s.mapper.echo)
<1> SUFFICES Goal
  OBVIOUS
<1> HIDE DEF r, z, a
<1>4. m.cut # "open" => Goal
  BY <1>1, <1>3
<1>5. m.cut = "open" /\ (s.kind = "RAISED" \/ m.retained + z > MaxRetained) => Goal
  BY <1>1, <1>3
<1>6. m.cut = "open" /\ ~(s.kind = "RAISED" \/ m.retained + z > MaxRetained) => Goal
  <2> SUFFICES ASSUME m.cut = "open",
                      ~(s.kind = "RAISED" \/ m.retained + z > MaxRetained)
               PROVE  Goal
    OBVIOUS
  <2>1. a.mapper = Grow(s.mapper, z) /\ a.record = r
    BY <1>3
  <2>2. r # Raised
    BY <1>1 DEF Raised
  <2>3. m.retained + z <= MaxRetained
    BY <1>1, <1>2, BoundsAssumption
  <2> QED BY <1>1, <2>1, <2>2, <2>3
<1> QED BY <1>4, <1>5, <1>6

(* What disturbs does so to both.                                          *)
LEMMA SameDiscrepancy ==
    ASSUME NEW m \in Mapper, NEW n \in Mapper, Alike(m, n), NEW detail
    PROVE  /\ Twin(Discrepancy(m, detail), Discrepancy(n, detail))
           /\ Discrepancy(m, detail).mapper.echo = m.echo
           /\ Discrepancy(n, detail).mapper.echo = n.echo
<1> USE DEF Alike
<1>1. ASSUME NEW k \in Mapper
      PROVE  Disturb(k) \in Mapper /\ Disturb(k).echo = k.echo
  <2>1. CASE Admitted(k)
    BY <2>1 DEF Disturb, Mapper, Mechanisms
  <2>2. CASE ~Admitted(k)
    BY <2>2 DEF Disturb, Mapper, Dispositions, Mechanisms
  <2> QED BY <2>1, <2>2
<1>2. Disturb(n) = Leave(Disturb(m), n.echo)
  <2> DEFINE e == n.echo
  <2>1. Disturb(Leave(m, e)) = Leave(Disturb(m), e)
    BY DEF Disturb, Leave, Mapper, Admitted
  <2> QED BY <2>1
<1> QED BY <1>1, <1>2 DEF Twin, Discrepancy

LEMMA SameStep ==
    ASSUME NEW m \in Mapper, NEW n \in Mapper, Alike(m, n), NEW kind
    PROVE  Twin(Step(m, kind), Step(n, kind)) /\ Twin(Raise(m), Raise(n))
BY DEF Alike, Twin, Step, Raise

(* A client request, of which only turn/start looks at the echo.           *)
LEMMA SameSending ==
    ASSUME NEW m \in Mapper, NEW n \in Mapper, Alike(m, n), NEW x \in Messages,
           x.type = "client_request", m.echo.input = n.echo.input
    PROVE  LET s == ClientRequest(m, x)
               t == ClientRequest(n, x)
           IN  Twin(s, t) /\ s.mapper.echo.input = t.mapper.echo.input
<1> USE DEF Alike
<1> DEFINE Chosen(k) == IF SelectsInput(x) THEN [k EXCEPT !.echo.input = TRUE] ELSE k
           issued == [id |-> x.client, method |-> x.method]
           c == Chosen(m)
           d == Chosen(n)
           free == \A y \in m.clients : y.id # x.client
<1>1. c \in Mapper /\ d \in Mapper
  BY DEF Mapper, Echo
<1>2. d = Leave(c, d.echo)
  <2> DEFINE e == n.echo
  <2>1. Chosen(Leave(m, e)) = Leave(c, Chosen(Leave(m, e)).echo)
    BY DEF Leave, Mapper
  <2> HIDE DEF Chosen, c, d
  <2> QED BY <2>1 DEF c, d
<1>3. m.echo.input = n.echo.input => c.echo.input = d.echo.input
  BY DEF Mapper, Echo
<1>4. c.clients = m.clients /\ n.clients = m.clients
  BY MapperFields, Leaves DEF Mapper
<1>5. (SelectsInput(x) /\ m.echo.input) <=> (SelectsInput(x) /\ n.echo.input)
  BY DEF SelectsInput, Sends
<1> HIDE DEF c, d
<1>6. c.clients \cup {issued} \in SUBSET [id : Nat, method : Name]
  BY <1>1, MessageFields DEF Mapper
<1> DEFINE u == [c EXCEPT !.clients = @ \cup {issued}]
           v == [d EXCEPT !.clients = @ \cup {issued}]
<1>7. /\ u \in Mapper /\ v \in Mapper
      /\ u.echo = c.echo /\ v.echo = d.echo /\ v = Leave(u, v.echo)
  <2>1. u \in Mapper /\ u.echo = c.echo
    BY <1>1, <1>6 DEF Mapper
  <2>2. \A e : [Leave(c, e) EXCEPT !.clients = @ \cup {issued}] = Leave(u, e)
    BY <1>1 DEF Leave, Mapper
  <2>3. v = Leave(u, d.echo)
    BY <1>2, <2>2
  <2>4. d.echo \in Echo
    BY <1>1, MapperFields
  <2> HIDE DEF u, v
  <2> QED BY <2>1, <2>3, <2>4, Leaves
<1> HIDE DEF u, v, free
<1> DEFINE taken == \A y \in n.clients : y.id # x.client
<1>8. /\ ClientRequest(m, x) = IF ~x.exact \/ (SelectsInput(x) /\ m.echo.input)
                               THEN Discrepancy(m, "protocol")
                               ELSE IF free THEN Step(u, "CLIENT_REQUEST_ISSUED")
                               ELSE Discrepancy(c, "protocol")
      /\ ClientRequest(n, x) = IF ~x.exact \/ (SelectsInput(x) /\ n.echo.input)
                               THEN Discrepancy(n, "protocol")
                               ELSE IF free THEN Step(v, "CLIENT_REQUEST_ISSUED")
                               ELSE Discrepancy(d, "protocol")
  <2>1. ClientRequest(m, x) = IF ~x.exact \/ (SelectsInput(x) /\ m.echo.input)
                              THEN Discrepancy(m, "protocol")
                              ELSE IF free THEN Step(u, "CLIENT_REQUEST_ISSUED")
                              ELSE Discrepancy(c, "protocol")
    BY Zenon DEF ClientRequest, StepIf, free, u, c
  <2>2. ClientRequest(n, x) = IF ~x.exact \/ (SelectsInput(x) /\ n.echo.input)
                              THEN Discrepancy(n, "protocol")
                              ELSE IF taken THEN Step(v, "CLIENT_REQUEST_ISSUED")
                              ELSE Discrepancy(d, "protocol")
    BY Zenon DEF ClientRequest, StepIf, v, d
  <2>3. taken <=> free
    BY <1>4 DEF free
  <2> HIDE DEF taken
  <2> QED BY <2>1, <2>2, <2>3
<1>9. Twin(Step(u, "CLIENT_REQUEST_ISSUED"), Step(v, "CLIENT_REQUEST_ISSUED"))
  BY <1>7, SameStep
<1>10. /\ Twin(Discrepancy(m, "protocol"), Discrepancy(n, "protocol"))
       /\ Discrepancy(m, "protocol").mapper.echo = m.echo
       /\ Discrepancy(n, "protocol").mapper.echo = n.echo
  BY SameDiscrepancy
<1>11. /\ Twin(Discrepancy(c, "protocol"), Discrepancy(d, "protocol"))
       /\ Discrepancy(c, "protocol").mapper.echo = c.echo
       /\ Discrepancy(d, "protocol").mapper.echo = d.echo
  BY <1>1, <1>2, SameDiscrepancy
<1>12. Step(u, "CLIENT_REQUEST_ISSUED").mapper = u /\ Step(v, "CLIENT_REQUEST_ISSUED").mapper = v
  BY DEF Step
<1>13. CASE ~x.exact \/ (SelectsInput(x) /\ m.echo.input)
  BY <1>5, <1>8, <1>10, <1>13
<1>14. CASE ~(~x.exact \/ (SelectsInput(x) /\ m.echo.input)) /\ free
  BY <1>3, <1>5, <1>7, <1>8, <1>9, <1>12, <1>14
<1>15. CASE ~(~x.exact \/ (SelectsInput(x) /\ m.echo.input)) /\ ~free
  BY <1>3, <1>5, <1>8, <1>11, <1>15
<1> QED BY <1>13, <1>14, <1>15

LEMMA SameResponse ==
    ASSUME NEW m \in Mapper, NEW n \in Mapper, Alike(m, n), NEW x \in Messages
    PROVE  LET s == ClientResponse(m, x)
               t == ClientResponse(n, x)
           IN  Twin(s, t) /\ s.mapper.echo = m.echo /\ t.mapper.echo = n.echo
<1> USE DEF Alike
<1> DEFINE issued == [id |-> x.client, method |-> x.method]
           Closes(k) == [k EXCEPT !.clients = @ \ {issued}]
           u == Closes(m)
           v == Closes(n)
           fits == x.exact /\ issued \in m.clients
           kind == "CLIENT_RESPONSE_RETAINED"
<1>1. n.clients = m.clients
  BY MapperFields, Leaves
<1>2. ASSUME NEW k \in Mapper PROVE Closes(k) \in Mapper /\ Closes(k).echo = k.echo
  BY DEF Mapper
<1>3. v = Leave(u, v.echo)
  <2> DEFINE e == n.echo
  <2>1. Closes(Leave(m, e)) = Leave(u, e)
    BY DEF Leave, Mapper
  <2>2. v.echo = e
    BY <1>2
  <2> HIDE DEF Closes, u
  <2> QED BY <2>1, <2>2 DEF v
<1>4. u \in Mapper /\ v \in Mapper /\ u.echo = m.echo /\ v.echo = n.echo
  BY <1>2
<1> HIDE DEF Closes
<1>5. Twin(Step(u, kind), Step(v, kind))
  BY <1>3, <1>4, SameStep
<1>6. /\ Twin(Discrepancy(m, "protocol"), Discrepancy(n, "protocol"))
      /\ Discrepancy(m, "protocol").mapper.echo = m.echo
      /\ Discrepancy(n, "protocol").mapper.echo = n.echo
  BY SameDiscrepancy
<1>7. /\ ClientResponse(m, x) = IF fits THEN Step(u, kind) ELSE Discrepancy(m, "protocol")
      /\ ClientResponse(n, x) = IF x.exact /\ issued \in n.clients THEN Step(v, kind)
                                ELSE Discrepancy(n, "protocol")
  BY Zenon DEF ClientResponse, StepIf, Closes
<1>8. Step(u, kind).mapper = u /\ Step(v, kind).mapper = v
  BY DEF Step
<1>9. (x.exact /\ issued \in n.clients) <=> fits
  BY <1>1
<1> HIDE DEF u, v, fits, issued
<1>10. CASE fits
  BY <1>4, <1>5, <1>7, <1>8, <1>9, <1>10
<1>11. CASE ~fits
  BY <1>6, <1>7, <1>9, <1>11
<1> QED BY <1>10, <1>11

(* A disturbed mapper does the same whatever its echo, but for the         *)
(* selected input.                                                         *)
LEMMA SameConsume ==
    ASSUME NEW m \in Mapper, Coherent(m), NEW n \in Mapper, Alike(m, n),
           NEW x \in Messages, m.echo = n.echo \/ Disturbed(m),
           m.echo.input = n.echo.input
    PROVE  LET s == Consume(m, x)
               t == Consume(n, x)
           IN  /\ Twin(s, t)
               /\ m.echo = n.echo => s.mapper.echo = t.mapper.echo
               /\ s.mapper.echo.input = t.mapper.echo.input
<1> USE DEF Alike
<1>1. CASE m.echo = n.echo
  <2>1. n = m
    BY <1>1, Leaves, MapperFields
  <2>2. Consume(m, x).mapper \in Mapper
    BY ConsumeMoves DEF Moves
  <2> DEFINE s == Consume(m, x)
  <2> HIDE DEF s
  <2>3. Twin(s, s)
    <3>1. s.mapper = Leave(s.mapper, s.mapper.echo)
      BY <2>2, Leaves, MapperFields DEF s
    <3> QED BY <2>2, <3>1 DEF Twin, s
  <2> QED BY <2>1, <2>3 DEF s
<1>2. CASE m.echo # n.echo
  <2>1. Disturbed(m) /\ n.mechanism = m.mechanism /\ n.disposition = m.disposition
    BY <1>2, MapperFields, Leaves
  <2>2. Closed(m, x) /\ Closed(n, x)
    BY <2>1 DEF Closed, Disturbed, Coherent
  <2>3. ASSUME NEW d
        PROVE  /\ Twin(Discrepancy(m, d), Discrepancy(n, d))
               /\ Discrepancy(m, d).mapper.echo = m.echo
               /\ Discrepancy(n, d).mapper.echo = n.echo
    BY SameDiscrepancy
  <2>4. CASE x.type \notin Client
    <3>1. Fits(m, x) <=> Fits(n, x)
      BY DEF Fits, Selected
    <3>2. /\ Consume(m, x) = IF Fits(m, x) THEN Discrepancy(m, "protocol")
                             ELSE Discrepancy(m, "custody")
          /\ Consume(n, x) = IF Fits(n, x) THEN Discrepancy(n, "protocol")
                             ELSE Discrepancy(n, "custody")
      BY <2>2, <2>4, Zenon DEF Consume, ServerMessage, Client
    <3> QED BY <1>2, <2>3, <3>1, <3>2
  <2>5. CASE x.type \in Client /\ ~ClientFits(x)
    <3>1. Consume(m, x) = Raise(m) /\ Consume(n, x) = Raise(n)
      BY <2>5 DEF Consume
    <3>2. Raise(m).mapper = m /\ Raise(n).mapper = n
      BY DEF Raise
    <3> QED BY <1>2, <3>1, <3>2, SameStep
  <2>6. CASE x.type = "client_request" /\ ClientFits(x)
    <3>1. Consume(m, x) = ClientRequest(m, x) /\ Consume(n, x) = ClientRequest(n, x)
      BY <2>6 DEF Consume, Client
    <3> QED BY <1>2, <2>6, <3>1, SameSending
  <2>7. CASE x.type = "client_response" /\ ClientFits(x)
    <3>1. Consume(m, x) = ClientResponse(m, x) /\ Consume(n, x) = ClientResponse(n, x)
      BY <2>7 DEF Consume, Client
    <3> QED BY <1>2, <3>1, SameResponse
  <2> QED BY <2>4, <2>5, <2>6, <2>7 DEF Client
<1> QED BY <1>1, <1>2

(* A message within its bound is retained with its bytes.                  *)
LEMMA KeptDetail ==
    ASSUME NEW m \in Mapper, NEW x \in Messages, x.type \in Client \/ Fits(m, x)
    PROVE  Consume(m, x).detail \in {None, "protocol"}
<1> DEFINE Kept(s) == s.detail \in {None, "protocol"}
<1>1. \A k, kind : Step(k, kind).detail = None /\ Raise(k).detail = None
  BY DEF Step, Raise
<1>2. \A k : Discrepancy(k, "protocol").detail = "protocol"
  BY DEF Discrepancy
<1>3. \A fits, k, new, kind : StepIf(fits, k, new, kind).detail \in {None, "protocol"}
  BY <1>1, <1>2 DEF StepIf
<1>4. \A fits, k, new : Watermark(fits, k, new).detail \in {None, "protocol"}
  BY <1>3 DEF Watermark
<1>5. /\ ProviderRequest(m, x).detail \in {None, "protocol"}
      /\ ResponseStarted(m, x).detail \in {None, "protocol"}
      /\ ProviderRefused(m, x).detail \in {None, "protocol"}
      /\ ResponseCompleted(m, x).detail \in {None, "protocol"}
      /\ TurnCompleted(m, x).detail \in {None, "protocol"}
      /\ Approval(m, x).detail \in {None, "protocol"}
      /\ ClientResponse(m, x).detail \in {None, "protocol"}
  BY <1>3, Zenon DEF ProviderRequest, ResponseStarted, ProviderRefused, ResponseCompleted,
     TurnCompleted, Approval, ClientResponse
<1>6. /\ InputItem(m, x).detail \in {None, "protocol"}
      /\ AgentStarted(m, x).detail \in {None, "protocol"}
      /\ AgentDelta(m, x).detail \in {None, "protocol"}
  BY <1>4, Zenon DEF InputItem, AgentStarted, AgentDelta
<1>7. /\ AgentCompleted(m, x).detail \in {None, "protocol"}
      /\ OtherAgentCompleted(m, x).detail \in {None, "protocol"}
      /\ TurnSummary(m, x).detail \in {None, "protocol"}
      /\ ClientRequest(m, x).detail \in {None, "protocol"}
  BY <1>2, <1>3, <1>4, <1>5, Zenon DEF AgentCompleted, OtherAgentCompleted, TurnSummary,
     ClientRequest
<1>8. Kept(Handle(m, x))
  <2>1. /\ Kept(ProviderRequest(m, x)) /\ Kept(ResponseStarted(m, x))
        /\ Kept(ProviderRefused(m, x)) /\ Kept(ResponseCompleted(m, x))
        /\ Kept(TurnCompleted(m, x)) /\ Kept(TurnSummary(m, x)) /\ Kept(Approval(m, x))
        /\ Kept(InputItem(m, x)) /\ Kept(AgentStarted(m, x)) /\ Kept(AgentDelta(m, x))
        /\ Kept(AgentCompleted(m, x)) /\ Kept(OtherAgentCompleted(m, x))
        /\ Kept(Watermark(x.exact, m, m)) /\ Kept(Watermark(TRUE, m, m))
        /\ Kept(Discrepancy(m, "protocol"))
    BY <1>2, <1>4, <1>5, <1>6, <1>7
  <2> HIDE DEF Kept
  <2> QED BY <2>1, Zenon DEF Handle
<1>9. CASE x.type \in Client
  BY <1>1, <1>5, <1>7, <1>9 DEF Consume, Client
<1>10. CASE x.type \notin Client
  <2>1. Consume(m, x) = ServerMessage(m, x) /\ Fits(m, x)
    BY <1>10, Zenon DEF Consume, Client
  <2> QED BY <1>2, <1>8, <2>1 DEF ServerMessage
<1> QED BY <1>9, <1>10

(* The record that a makes of m makes b of n, and no echo comes apart.     *)
Reproduces(m, n, a, b) ==
    a.record # Raised =>
       /\ b.record = a.record
       /\ Alike(a.mapper, b.mapper)
       /\ m.echo = n.echo => a.mapper.echo = b.mapper.echo
       /\ m.echo.input = n.echo.input => a.mapper.echo.input = b.mapper.echo.input
       /\ a.mapper.retained >= m.retained

LEMMA TwinReproduces ==
    ASSUME NEW m \in Mapper, NEW n \in Mapper, Alike(m, n),
           NEW s, NEW t, Twin(s, t), s.mapper.retained = m.retained,
           m.echo = n.echo => s.mapper.echo = t.mapper.echo,
           m.echo.input = n.echo.input => s.mapper.echo.input = t.mapper.echo.input,
           NEW o, NEW as, NEW raw \in Raws, NEW cut
    PROVE  Reproduces(m, n, Atomic(m, s, Envelope(o, as, raw), cut),
                      Atomic(n, t, Envelope(o, as, Atomic(m, s, Envelope(o, as, raw),
                                                          cut).record.raw), cut))
<1> USE DEF Alike
<1> DEFINE r == Record(s, Envelope(o, as, raw), cut)
           q == Record(t, Envelope(o, as, r.raw), cut)
           z == Size(r)
           a == Atomic(m, s, Envelope(o, as, raw), cut)
           b == Atomic(n, t, Envelope(o, as, r.raw), cut)
<1>0. s.mapper \in Mapper /\ t.mapper \in Mapper
  BY DEF Twin
<1>1. a.record # Raised =>
          /\ m.cut = "open" /\ s.kind # "RAISED"
          /\ m.retained + z <= MaxRetained
          /\ a.record = r
          /\ a.mapper = Grow(s.mapper, z)
          /\ z \in Nat
  <2> DEFINE e == Envelope(o, as, raw)
             r1 == Record(s, e, cut)
             a1 == Atomic(m, s, e, cut)
  <2>1. e.raw \in Raws
    BY DEF Envelope
  <2> HIDE DEF e
  <2>2. /\ Size(r1) \in Nat
        /\ a1.record # Raised =>
              /\ m.cut = "open" /\ s.kind # "RAISED"
              /\ m.retained + Size(r1) <= MaxRetained
              /\ a1.record = r1
              /\ a1.mapper = Grow(s.mapper, Size(r1))
    BY <1>0, <2>1, AtomicFields
  <2>3. r1 = r /\ a1 = a
    BY DEF e
  <2> HIDE DEF r1, a1, r, a
  <2> QED BY <2>2, <2>3 DEF z
<1>2. q = r
  <2>1. r.raw = IF s.detail \in {"gap", "custody", "shape"} THEN <<>> ELSE raw
    BY DEF Record, Envelope
  <2>2. q.raw = IF s.detail \in {"gap", "custody", "shape"} THEN <<>> ELSE r.raw
    BY DEF Record, Envelope, Twin
  <2>3. q.raw = r.raw
    BY <2>1, <2>2
  <2>4. /\ r = [kind |-> s.kind, detail |-> s.detail, ordinal |-> o, as |-> as,
                raw |-> r.raw, cut |-> cut]
        /\ q = [kind |-> t.kind, detail |-> t.detail, ordinal |-> o, as |-> as,
                raw |-> q.raw, cut |-> cut]
    BY DEF Record, Envelope
  <2> HIDE DEF r, q
  <2> QED BY <2>3, <2>4 DEF Twin
<1>3. b = IF n.cut # "open" THEN [mapper |-> n, record |-> Raised]
          ELSE IF t.kind = "RAISED" \/ n.retained + Size(q) > MaxRetained
          THEN [mapper |-> Leave(n, t.mapper.echo), record |-> Raised]
          ELSE [mapper |-> Grow(t.mapper, Size(q)), record |-> q]
  BY Zenon DEF Atomic, Leave, Grow
<1>4. b = IF n.cut # "open" THEN [mapper |-> n, record |-> Raised]
          ELSE IF t.kind = "RAISED" \/ n.retained + z > MaxRetained
          THEN [mapper |-> Leave(n, t.mapper.echo), record |-> Raised]
          ELSE [mapper |-> Grow(t.mapper, z), record |-> r]
  <2> HIDE DEF r, q, b
  <2> QED BY <1>2, <1>3 DEF z
<1> HIDE DEF r, q, z, b, a
<1> SUFFICES ASSUME a.record # Raised
             PROVE  /\ b.record = a.record
                    /\ Alike(a.mapper, b.mapper)
                    /\ m.echo = n.echo => a.mapper.echo = b.mapper.echo
                    /\ m.echo.input = n.echo.input =>
                          a.mapper.echo.input = b.mapper.echo.input
                    /\ a.mapper.retained >= m.retained
  <2>1. a.record # Raised => a.record = r
    BY <1>1
  <2> HIDE DEF Alike
  <2> QED BY <2>1, Zenon DEF Reproduces, a, b
<1>5. n.cut = "open" /\ n.retained = m.retained
  BY <1>1, MapperFields, Leaves
<1>6. ~(t.kind = "RAISED" \/ n.retained + z > MaxRetained)
  <2>1. m.retained \in Nat
    BY MapperFields
  <2> QED BY <1>1, <1>5, <2>1, BoundsAssumption DEF Twin
<1>7. b.mapper = Grow(t.mapper, z) /\ b.record = r
  BY <1>4, <1>5, <1>6
<1>8. Grow(t.mapper, z) = Leave(a.mapper, t.mapper.echo)
  BY <1>0, <1>1, Grows DEF Twin
<1>9. /\ a.mapper \in Mapper /\ a.mapper.echo = s.mapper.echo
      /\ a.mapper.retained = m.retained + z
  BY <1>0, <1>1, Grows
<1>10. b.mapper.echo = t.mapper.echo
  <2>1. t.mapper.echo \in Echo
    BY <1>0, MapperFields
  <2>2. Leave(a.mapper, t.mapper.echo).echo = t.mapper.echo
    BY <1>9, <2>1, Leaves
  <2> QED BY <1>7, <1>8, <2>2
<1>11. a.mapper.retained >= m.retained
  BY <1>1, <1>9, MapperFields
<1> QED BY <1>1, <1>7, <1>8, <1>9, <1>10, <1>11

(* The next mapper of the one is the next of the other, but for the echo.  *)
LEMMA AfterFields ==
    ASSUME NEW m \in Mapper, NEW o \in Nat
    PROVE  /\ After(m, o) \in Mapper
           /\ After(m, o).echo = m.echo /\ After(m, o).cut = m.cut
           /\ After(m, o).retained = m.retained
           /\ After(m, o).mechanism = m.mechanism /\ After(m, o).identity = m.identity
           /\ After(m, o).disposition = m.disposition
           /\ After(m, o).expected = IF o < m.expected THEN m.expected ELSE o + 1
           /\ \A e : After(Leave(m, e), o) = Leave(After(m, o), e)
<1>1. (IF o < m.expected THEN m.expected ELSE o + 1) \in Nat
  BY MapperFields
<1> DEFINE n == (IF o < m.expected THEN m.expected ELSE o + 1)
<1>2. After(m, o) = [m EXCEPT !.expected = n]
  BY DEF After, Mapper
<1>3. \A e : After(Leave(m, e), o) = Leave(After(m, o), e)
  BY DEF After, Leave, Mapper
<1> HIDE DEF n
<1>4. /\ [m EXCEPT !.expected = n] \in Mapper
      /\ [m EXCEPT !.expected = n].expected = n
      /\ [m EXCEPT !.expected = n].echo = m.echo
      /\ [m EXCEPT !.expected = n].cut = m.cut
      /\ [m EXCEPT !.expected = n].retained = m.retained
      /\ [m EXCEPT !.expected = n].mechanism = m.mechanism
      /\ [m EXCEPT !.expected = n].identity = m.identity
      /\ [m EXCEPT !.expected = n].disposition = m.disposition
  BY <1>1 DEF n, Mapper
<1> QED BY <1>2, <1>3, <1>4 DEF n

LEMMA Nexts ==
    ASSUME NEW m \in Mapper, NEW n \in Mapper, Alike(m, n), NEW o \in Nat
    PROVE  Alike(After(m, o), After(n, o))
<1>1. \A e : After(Leave(m, e), o) = Leave(After(m, o), e)
  BY AfterFields
<1>2. After(n, o).echo = n.echo
  BY AfterFields
<1> QED BY <1>1, <1>2 DEF Alike

(* What a record says of the operation that made it.                       *)
Records(s, o, as, raw, cut, r) ==
    r # Raised =>
       /\ s.kind # "RAISED" /\ r.kind = s.kind
       /\ r.ordinal = o /\ r.as = as /\ r.cut = cut
       /\ r.raw = IF s.detail \in {"gap", "custody", "shape"} THEN <<>> ELSE raw

LEMMA RecordFields ==
    ASSUME NEW m, NEW s, NEW o, NEW as, NEW raw, NEW cut
    PROVE  Records(s, o, as, raw, cut, Atomic(m, s, Envelope(o, as, raw), cut).record)
<1> DEFINE e == Envelope(o, as, raw)
           r == Record(s, e, cut)
           a == Atomic(m, s, e, cut)
<1>1. /\ r.kind = s.kind /\ r.ordinal = o /\ r.as = as /\ r.cut = cut
      /\ r.raw = IF s.detail \in {"gap", "custody", "shape"} THEN <<>> ELSE raw
  BY DEF Record, Envelope
<1> HIDE DEF e
<1>2. (m.cut = "open" /\ s.kind # "RAISED" /\ a.record = r) \/ a.record = Raised
  BY DEF Atomic
<1> HIDE DEF r, a
<1>3. a.record # Raised =>
          /\ s.kind # "RAISED" /\ a.record.kind = s.kind
          /\ a.record.ordinal = o /\ a.record.as = as /\ a.record.cut = cut
          /\ a.record.raw = IF s.detail \in {"gap", "custody", "shape"} THEN <<>> ELSE raw
  BY <1>1, <1>2
<1> QED BY <1>3 DEF a, e, Records

LEMMA MissReplays ==
    ASSUME NEW m \in Mapper, NEW n \in Mapper, Alike(m, n), NEW o \in Nat,
           NEW as \in {"NOTIFICATION", "SERVER_REQUEST", "LOSS"},
           o # m.expected \/ as = "LOSS", NEW raw \in Raws
    PROVE  LET a == ConsumeEnvelope(m, Envelope(o, as, raw))
           IN  Reproduces(m, n, a, Replay(n, a.record))
<1> DEFINE p == After(m, o)
           q == After(n, o)
           detail == IF o # m.expected THEN "gap" ELSE "loss"
           s == Discrepancy(p, detail)
           t == Discrepancy(q, detail)
           a == Atomic(m, s, Envelope(o, as, raw), NoCut)
           b == Atomic(n, t, Envelope(o, as, a.record.raw), NoCut)
<1>1. p \in Mapper /\ q \in Mapper /\ Alike(p, q)
  BY AfterFields, Nexts
<1>2. p.echo = m.echo /\ q.echo = n.echo /\ p.retained = m.retained
  BY AfterFields
<1> HIDE DEF p, q, detail
<1>3. Twin(s, t) /\ s.mapper.echo = p.echo /\ t.mapper.echo = q.echo
  BY <1>1, SameDiscrepancy
<1>4. s.mapper.retained = m.retained
  BY <1>1, <1>2 DEF Discrepancy, Disturb, Mapper
<1> HIDE DEF s, t
<1>5. Reproduces(m, n, a, b)
  BY <1>2, <1>3, <1>4, Zenon, TwinReproduces
<1>6. ConsumeEnvelope(m, Envelope(o, as, raw)) = a
  BY DEF ConsumeEnvelope, Envelope, s, p, detail
<1>7. ASSUME a.record # Raised PROVE Replay(n, a.record) = b
  <2>1. Records(s, o, as, raw, NoCut, a.record)
    BY Zenon, RecordFields
  <2> HIDE DEF a
  <2>3. a.record.as = as /\ a.record.ordinal = o
    BY <1>7, <2>1 DEF Records
  <2>4. Replay(n, a.record) = ConsumeEnvelope(n, Envelope(o, as, a.record.raw))
    BY <2>3 DEF Replay, None
  <2>5. n.expected = m.expected
    BY MapperFields, Leaves DEF Alike
  <2>6. ConsumeEnvelope(n, Envelope(o, as, a.record.raw)) = b
    BY <2>5 DEF ConsumeEnvelope, Envelope, t, q, detail
  <2> QED BY <2>4, <2>6
<1> HIDE DEF a, b
<1>8. Reproduces(m, n, a, Replay(n, a.record))
  BY <1>5, <1>7 DEF Reproduces
<1> QED BY <1>6, <1>8

LEMMA LossReplays ==
    ASSUME NEW m \in Mapper, NEW n \in Mapper, Alike(m, n)
    PROVE  Reproduces(m, n, MarkLoss(m), Replay(n, MarkLoss(m).record))
<1> DEFINE s == Discrepancy(m, "operator")
           t == Discrepancy(n, "operator")
           a == Atomic(m, s, Envelope(0, None, <<>>), NoCut)
           b == Atomic(n, t, Envelope(0, None, a.record.raw), NoCut)
<1>1. Twin(s, t) /\ s.mapper.echo = m.echo /\ t.mapper.echo = n.echo
  BY SameDiscrepancy
<1>2. s.mapper.retained = m.retained
  BY DEF Discrepancy, Disturb, Mapper
<1>3. s.kind = "ADMISSION_DISCREPANCY"
  BY DEF Discrepancy
<1> HIDE DEF s, t
<1>4. <<>> \in Raws
  BY RawFields
<1>5. Reproduces(m, n, a, b)
  BY <1>1, <1>2, <1>4, Zenon, TwinReproduces
<1>6. ASSUME a.record # Raised PROVE Replay(n, a.record) = b
  <2>1. Records(s, 0, None, <<>>, NoCut, a.record)
    BY Zenon, RecordFields
  <2> HIDE DEF a
  <2>2. a.record.as = None /\ a.record.kind # "ACQUISITION_CUT" /\ a.record.raw = <<>>
    BY <1>3, <1>6, <2>1 DEF Records
  <2>3. Replay(n, a.record) = MarkLoss(n)
    BY <2>2 DEF Replay, None
  <2> QED BY <2>2, <2>3 DEF MarkLoss, t
<1>7. MarkLoss(m) = a
  BY DEF MarkLoss, s
<1> HIDE DEF a, b
<1>8. Reproduces(m, n, a, Replay(n, a.record))
  BY <1>5, <1>6 DEF Reproduces
<1> QED BY <1>7, <1>8

LEMMA CutReplays ==
    ASSUME NEW m \in Mapper, NEW n \in Mapper, Alike(m, n), NEW c
    PROVE  Reproduces(m, n, ConsumeCut(m, c), Replay(n, ConsumeCut(m, c).record))
<1> DEFINE New(k) == IF Clean(k, c) THEN [k EXCEPT !.cut = "clean"]
                     ELSE [Disturb(k) EXCEPT !.cut = "unclean"]
           s == Step(New(m), "ACQUISITION_CUT")
           t == Step(New(n), "ACQUISITION_CUT")
           a == Atomic(m, s, Envelope(0, None, <<>>), c)
           b == Atomic(n, t, Envelope(0, None, a.record.raw), c)
<1>1. Clean(m, c) <=> Clean(n, c)
  BY MapperFields, Leaves DEF Clean, Alike
<1>2. ASSUME NEW k \in Mapper
      PROVE  New(k) \in Mapper /\ New(k).echo = k.echo /\ New(k).retained = k.retained
  <2>1. Disturb(k) \in Mapper /\ Disturb(k).echo = k.echo /\ Disturb(k).retained = k.retained
    <3>1. CASE Admitted(k)
      BY <3>1 DEF Disturb, Mapper, Mechanisms
    <3>2. CASE ~Admitted(k)
      BY <3>2 DEF Disturb, Mapper, Dispositions, Mechanisms
    <3> QED BY <3>1, <3>2
  <2> DEFINE d == Disturb(k)
  <2> HIDE DEF d
  <2>2. d \in Mapper => /\ [d EXCEPT !.cut = "unclean"] \in Mapper
                        /\ [d EXCEPT !.cut = "unclean"].echo = d.echo
                        /\ [d EXCEPT !.cut = "unclean"].retained = d.retained
    BY DEF Mapper
  <2>3. /\ [k EXCEPT !.cut = "clean"] \in Mapper
        /\ [k EXCEPT !.cut = "clean"].echo = k.echo
        /\ [k EXCEPT !.cut = "clean"].retained = k.retained
    BY DEF Mapper
  <2>4. New(k) = [k EXCEPT !.cut = "clean"] \/ New(k) = [d EXCEPT !.cut = "unclean"]
    BY DEF d
  <2> HIDE DEF New
  <2> QED BY <2>1, <2>2, <2>3, <2>4 DEF d
<1>3. Alike(New(m), New(n))
  <2> DEFINE e == n.echo
  <2>1. ~Clean(m, c) => [Disturb(Leave(m, e)) EXCEPT !.cut = "unclean"]
                          = Leave([Disturb(m) EXCEPT !.cut = "unclean"], e)
    BY DEF Disturb, Leave, Mapper, Admitted
  <2>2. [Leave(m, e) EXCEPT !.cut = "clean"] = Leave([m EXCEPT !.cut = "clean"], e)
    BY DEF Leave, Mapper
  <2>3. n = Leave(m, e)
    BY DEF Alike
  <2>4. New(n) = Leave(New(m), e)
    BY <1>1, <2>1, <2>2, <2>3
  <2>5. New(n).echo = e
    BY <1>2
  <2> HIDE DEF New
  <2> QED BY <2>4, <2>5 DEF Alike
<1>4. Twin(s, t) /\ s.mapper = New(m) /\ t.mapper = New(n) /\ s.kind = "ACQUISITION_CUT"
  <2>1. New(m) \in Mapper /\ New(n) \in Mapper
    BY <1>2
  <2> HIDE DEF New
  <2> QED BY <1>3, <2>1 DEF Twin, Step
<1>5. /\ s.mapper.retained = m.retained
      /\ s.mapper.echo = m.echo /\ t.mapper.echo = n.echo
  BY <1>2, <1>4
<1> HIDE DEF s, t
<1>6. <<>> \in Raws
  BY RawFields
<1>7. Reproduces(m, n, a, b)
  BY <1>4, <1>5, <1>6, Zenon, TwinReproduces
<1>8. ASSUME a.record # Raised PROVE Replay(n, a.record) = b
  <2>1. Records(s, 0, None, <<>>, c, a.record)
    BY Zenon, RecordFields
  <2> HIDE DEF a
  <2>2. /\ a.record.as = None /\ a.record.kind = "ACQUISITION_CUT"
        /\ a.record.raw = <<>> /\ a.record.cut = c
    BY <1>4, <1>8, <2>1 DEF Records
  <2>3. Replay(n, a.record) = ConsumeCut(n, c)
    BY <2>2 DEF Replay, None
  <2> QED BY <2>2, <2>3 DEF ConsumeCut, t
<1>9. ConsumeCut(m, c) = a
  BY DEF ConsumeCut, s
<1> HIDE DEF a, b
<1>10. Reproduces(m, n, a, Replay(n, a.record))
  BY <1>7, <1>8 DEF Reproduces
<1> QED BY <1>9, <1>10

(* The next message, which is within its bound.                            *)
LEMMA MessageReplays ==
    ASSUME NEW m \in Mapper, Coherent(m), NEW n \in Mapper, Alike(m, n),
           NEW x \in Messages, NEW o, o = m.expected,
           x.type \in Client \/ Fits(m, x),
           m.echo = n.echo \/ Disturbed(m),
           m.echo.input = n.echo.input
    PROVE  LET a == ConsumeEnvelope(m, Envelope(o, KindOf(x), <<x>>))
           IN  Reproduces(m, n, a, Replay(n, a.record))
<1> DEFINE p == After(m, o)
           q == After(n, o)
           s == Consume(p, x)
           t == Consume(q, x)
           a == Atomic(m, s, Envelope(o, KindOf(x), <<x>>), NoCut)
           b == Atomic(n, t, Envelope(o, KindOf(x), a.record.raw), NoCut)
<1>0. o \in Nat /\ <<x>> \in Raws /\ <<x>> # <<>> /\ <<x>>[1] = x
  BY MapperFields, RawFields
<1>1. p \in Mapper /\ q \in Mapper /\ Alike(p, q) /\ Coherent(p)
  BY <1>0, AfterFields, AfterMoves, Nexts
<1>2. /\ p.echo = m.echo /\ q.echo = n.echo /\ p.retained = m.retained
      /\ p.mechanism = m.mechanism
  BY <1>0, AfterFields
<1> HIDE DEF p, q
<1>3. s.mapper \in Mapper /\ s.mapper.retained = m.retained
  BY <1>1, <1>2, ConsumeMoves DEF Moves
<1>4. s.detail \in {None, "protocol"}
  <2>1. x.type \in Client \/ Fits(p, x)
    BY <1>2 DEF Fits, Selected
  <2> QED BY <1>1, <2>1, KeptDetail
<1>5. ConsumeEnvelope(m, Envelope(o, KindOf(x), <<x>>)) = a
  <2>1. KindOf(x) # "LOSS"
    BY DEF KindOf
  <2> QED BY <1>0, <2>1 DEF ConsumeEnvelope, Envelope, p
<1> SUFFICES ASSUME a.record # Raised
             PROVE  Reproduces(m, n, a, Replay(n, a.record))
  <2> HIDE DEF a
  <2>1. a.record = Raised => Reproduces(m, n, a, Replay(n, a.record))
    BY DEF Reproduces
  <2> QED BY <1>5, <2>1
<1>6. /\ a.record.as = KindOf(x) /\ a.record.ordinal = o /\ a.record.raw = <<x>>
  <2>1. Records(s, o, KindOf(x), <<x>>, NoCut, a.record)
    BY Zenon, RecordFields
  <2> HIDE DEF a, s
  <2> QED BY <1>4, <2>1 DEF Records, None
<1>9. /\ Twin(s, t)
      /\ m.echo = n.echo => s.mapper.echo = t.mapper.echo
      /\ s.mapper.echo.input = t.mapper.echo.input
  <2>1. p.echo = q.echo \/ Disturbed(p)
    BY <1>2 DEF Disturbed
  <2>2. p.echo.input = q.echo.input
    BY <1>2
  <2> QED BY <1>1, <1>2, <2>1, <2>2, SameConsume
<1> HIDE DEF s, t
<1>10. Reproduces(m, n, a, b)
  BY <1>0, <1>3, <1>9, Zenon, TwinReproduces
<1>11. Replay(n, a.record) = b
  <2> HIDE DEF a
  <2>1. KindOf(x) \in {"CLIENT_REQUEST", "CLIENT_RESPONSE", "NOTIFICATION", "SERVER_REQUEST"}
    BY DEF KindOf
  <2>2. Replay(n, a.record) = ConsumeEnvelope(n, Envelope(o, KindOf(x), <<x>>))
    BY <1>0, <1>6, <2>1 DEF Replay, None
  <2>3. n.expected = o
    BY MapperFields, Leaves DEF Alike
  <2>4. ConsumeEnvelope(n, Envelope(o, KindOf(x), <<x>>))
          = Atomic(n, t, Envelope(o, KindOf(x), <<x>>), NoCut)
    BY <1>0, <2>1, <2>3 DEF ConsumeEnvelope, Envelope, t, q
  <2> QED BY <1>6, <2>2, <2>4
<1> HIDE DEF a, b
<1> QED BY <1>10, <1>11

----------------------------------------------------------------------------
(* What an operation leaves behind, raised or not.                         *)

Effect(m, s, a) ==
    /\ a.mapper \in Mapper
    /\ a.record # Raised =>
          /\ m.cut = "open" /\ a.mapper.cut = s.mapper.cut
          /\ a.mapper.expected = s.mapper.expected /\ a.mapper.echo = s.mapper.echo
          /\ a.mapper.mechanism = s.mapper.mechanism
    /\ a.record = Raised =>
          IF m.cut = "open" THEN a.mapper = Leave(m, s.mapper.echo) ELSE a.mapper = m

LEMMA AtomicEffect ==
    ASSUME NEW m \in Mapper, NEW s, s.mapper \in Mapper, NEW o, NEW as, NEW raw \in Raws,
           NEW cut
    PROVE  Effect(m, s, Atomic(m, s, Envelope(o, as, raw), cut))
<1> DEFINE e == Envelope(o, as, raw)
           z == Size(Record(s, e, cut))
           a == Atomic(m, s, e, cut)
<1>1. e.raw \in Raws
  BY DEF Envelope
<1> HIDE DEF e
<1>2. /\ z \in Nat
      /\ a.record # Raised => m.cut = "open" /\ a.mapper = Grow(s.mapper, z)
      /\ a.record = Raised =>
            IF m.cut # "open" THEN a.mapper = m ELSE a.mapper = Leave(m, s.mapper.echo)
  BY <1>1, AtomicFields
<1>3. s.mapper.echo \in Echo
  BY MapperFields
<1> HIDE DEF z, a
<1>4. Effect(m, s, a)
  <2>1. CASE a.record = Raised
    BY <1>2, <1>3, <2>1, Leaves DEF Effect
  <2>2. CASE a.record # Raised
    BY <1>2, <2>2, Grows DEF Effect
  <2> QED BY <2>1, <2>2
<1> QED BY <1>4 DEF a, e

(* An operation that leaves the echo alone.                                *)
LEMMA QuietStep ==
    ASSUME StateInv, ReplayInv, NEW s, s.mapper \in Mapper, s.mapper.echo = mapper.echo,
           NEW a, Effect(mapper, s, a), NEW seen, Retain(a, seen),
           Reproduces(mapper, replayed, a, Replay(replayed, a.record)),
           position \in Nat, position' \in Nat, position <= position', sent' = sent,
           s.mapper.expected <= position',
           mapper.echo # replayed.echo =>
              Disturbed(s.mapper) \/ s.mapper.expected < position'
    PROVE  ReplayInv'
<1> DEFINE b == Replay(replayed, a.record)
<1>1. /\ mapper \in Mapper /\ replayed \in Mapper
      /\ mapper.expected \in Nat /\ mapper.retained \in Nat
  BY MapperFields DEF StateInv, TypeOK
<1>2. mapper' = a.mapper /\ mapper' \in Mapper
  BY DEF Retain, Effect
<1>3. CASE a.record = Raised
  <2>1. mapper' = mapper
    <3>1. Leave(mapper, mapper.echo) = mapper
      BY <1>1, MapperFields, Leaves
    <3> QED BY <1>2, <1>3, <3>1 DEF Effect
  <2>2. replayed' = replayed /\ faithful'
    BY <1>3 DEF Retain, ReplayInv
  <2> QED BY <1>1, <2>1, <2>2 DEF ReplayInv, Disturbed
<1>4. CASE a.record # Raised
  <2>1. replayed' = b.mapper /\ faithful' = (faithful /\ b.record = a.record)
    BY <1>4 DEF Retain
  <2> HIDE DEF b
  <2>2. /\ b.record = a.record
        /\ Alike(a.mapper, b.mapper)
        /\ mapper.echo = replayed.echo => a.mapper.echo = b.mapper.echo
        /\ mapper.echo.input = replayed.echo.input => a.mapper.echo.input = b.mapper.echo.input
        /\ a.mapper.retained >= mapper.retained
    BY <1>4 DEF Reproduces, b
  <2>3. /\ mapper.cut = "open" /\ mapper'.expected = s.mapper.expected
        /\ mapper'.echo = mapper.echo /\ mapper'.mechanism = s.mapper.mechanism
    BY <1>2, <1>4 DEF Effect
  <2>4. faithful' /\ Alike(mapper', replayed')
    BY <1>2, <2>1, <2>2 DEF ReplayInv
  <2>5. mapper'.expected <= position'
    BY <2>3
  <2>6. mapper'.echo # replayed'.echo => Disturbed(mapper') \/ mapper'.expected < position'
    BY <1>2, <2>1, <2>2, <2>3 DEF Disturbed
  <2>7. mapper'.echo.input = replayed'.echo.input
    BY <1>2, <2>1, <2>2 DEF ReplayInv
  <2> QED BY <2>4, <2>5, <2>6, <2>7 DEF ReplayInv
<1> QED BY <1>3, <1>4

LEMMA MissStep ==
    ASSUME StateInv, ReplayInv, NEW as \in {"NOTIFICATION", "SERVER_REQUEST", "LOSS"},
           position # mapper.expected \/ as = "LOSS", NEW raw \in Raws, NEW seen,
           Retain(ConsumeEnvelope(mapper, Envelope(position, as, raw)), seen),
           position \in Nat, position' = position + 1, sent' = sent
    PROVE  ReplayInv'
<1> DEFINE p == After(mapper, position)
           detail == IF position # mapper.expected THEN "gap" ELSE "loss"
           s == Discrepancy(p, detail)
           a == Atomic(mapper, s, Envelope(position, as, raw), NoCut)
<1>1. mapper \in Mapper /\ replayed \in Mapper /\ Alike(mapper, replayed)
  BY DEF StateInv, TypeOK, ReplayInv
<1>2. p \in Mapper /\ p.echo = mapper.echo /\ p.expected = position + 1
  <2>1. mapper.expected \in Nat /\ ~(position < mapper.expected)
    BY <1>1, MapperFields DEF ReplayInv
  <2> QED BY <1>1, <2>1, AfterFields
<1> HIDE DEF p, detail
<1>3. /\ s.mapper \in Mapper /\ s.mapper.echo = mapper.echo
      /\ s.mapper.expected = position + 1 /\ Disturbed(s.mapper)
  <2>1. CASE Admitted(p)
    BY <1>2, <2>1 DEF Discrepancy, Disturb, Disturbed, Mapper, Mechanisms
  <2>2. CASE ~Admitted(p)
    BY <1>2, <2>2 DEF Discrepancy, Disturb, Disturbed, Mapper, Mechanisms, Dispositions
  <2> QED BY <2>1, <2>2
<1>4. ConsumeEnvelope(mapper, Envelope(position, as, raw)) = a
  BY DEF ConsumeEnvelope, Envelope, p, detail
<1> HIDE DEF s
<1>5. Reproduces(mapper, replayed, a, Replay(replayed, a.record))
  <2>1. Reproduces(mapper, replayed, ConsumeEnvelope(mapper, Envelope(position, as, raw)),
                   Replay(replayed,
                          ConsumeEnvelope(mapper, Envelope(position, as, raw)).record))
    BY <1>1, MissReplays
  <2> HIDE DEF a
  <2> QED BY <1>4, <2>1
<1>6. Effect(mapper, s, a)
  BY <1>1, <1>3, Zenon, AtomicEffect
<1>7. Retain(a, seen)
  BY <1>4
<1> HIDE DEF a
<1> QED BY <1>3, <1>5, <1>6, <1>7, QuietStep

LEMMA LossStep ==
    ASSUME StateInv, ReplayInv, NEW seen, Retain(MarkLoss(mapper), seen),
           position \in Nat, position' = position, sent' = sent
    PROVE  ReplayInv'
<1> DEFINE s == Discrepancy(mapper, "operator")
           a == MarkLoss(mapper)
<1>1. mapper \in Mapper /\ replayed \in Mapper /\ Alike(mapper, replayed)
  BY DEF StateInv, TypeOK, ReplayInv
<1>2. /\ s.mapper \in Mapper /\ s.mapper.echo = mapper.echo
      /\ s.mapper.expected = mapper.expected /\ Disturbed(s.mapper)
  <2>1. CASE Admitted(mapper)
    BY <1>1, <2>1 DEF Discrepancy, Disturb, Disturbed, Mapper, Mechanisms
  <2>2. CASE ~Admitted(mapper)
    BY <1>1, <2>2 DEF Discrepancy, Disturb, Disturbed, Mapper, Mechanisms, Dispositions
  <2> QED BY <2>1, <2>2
<1>3. s.mapper.expected <= position'
  BY <1>2 DEF ReplayInv
<1> HIDE DEF s
<1>4. Effect(mapper, s, a)
  <2>1. <<>> \in Raws
    BY RawFields
  <2>2. Effect(mapper, s, Atomic(mapper, s, Envelope(0, None, <<>>), NoCut))
    BY <1>1, <1>2, <2>1, Zenon, AtomicEffect
  <2> QED BY <2>2 DEF MarkLoss, s
<1>5. Reproduces(mapper, replayed, a, Replay(replayed, a.record))
  BY <1>1, LossReplays
<1> HIDE DEF a
<1>6. Retain(a, seen) /\ position <= position'
  BY DEF a
<1> QED BY <1>2, <1>3, <1>4, <1>5, <1>6, QuietStep

LEMMA CutStep ==
    ASSUME StateInv, ReplayInv, NEW c, c.high = position, NEW seen,
           Retain(ConsumeCut(mapper, c), seen),
           position \in Nat, position' = position, sent' = sent
    PROVE  ReplayInv'
<1> DEFINE new == IF Clean(mapper, c) THEN [mapper EXCEPT !.cut = "clean"]
                  ELSE [Disturb(mapper) EXCEPT !.cut = "unclean"]
           s == Step(new, "ACQUISITION_CUT")
           a == ConsumeCut(mapper, c)
<1>1. mapper \in Mapper /\ replayed \in Mapper /\ Alike(mapper, replayed)
  BY DEF StateInv, TypeOK, ReplayInv
<1>2. /\ s.mapper \in Mapper /\ s.mapper.echo = mapper.echo
      /\ s.mapper.expected = mapper.expected
      /\ ~Clean(mapper, c) => Disturbed(s.mapper)
  <2> DEFINE d == Disturb(mapper)
  <2>1. d \in Mapper /\ d.echo = mapper.echo /\ d.expected = mapper.expected /\ Disturbed(d)
    <3>1. CASE Admitted(mapper)
      BY <1>1, <3>1 DEF Disturb, Disturbed, Mapper, Mechanisms
    <3>2. CASE ~Admitted(mapper)
      BY <1>1, <3>2 DEF Disturb, Disturbed, Mapper, Mechanisms, Dispositions
    <3> QED BY <3>1, <3>2
  <2> HIDE DEF d
  <2>2. /\ [d EXCEPT !.cut = "unclean"] \in Mapper
        /\ [d EXCEPT !.cut = "unclean"].echo = d.echo
        /\ [d EXCEPT !.cut = "unclean"].expected = d.expected
        /\ [d EXCEPT !.cut = "unclean"].mechanism = d.mechanism
    BY <2>1 DEF Mapper
  <2>3. /\ [mapper EXCEPT !.cut = "clean"] \in Mapper
        /\ [mapper EXCEPT !.cut = "clean"].echo = mapper.echo
        /\ [mapper EXCEPT !.cut = "clean"].expected = mapper.expected
    BY <1>1 DEF Mapper
  <2>4. s.mapper = IF Clean(mapper, c) THEN [mapper EXCEPT !.cut = "clean"]
                   ELSE [d EXCEPT !.cut = "unclean"]
    BY DEF Step, d
  <2> HIDE DEF s
  <2> QED BY <2>1, <2>2, <2>3, <2>4 DEF Disturbed
<1> HIDE DEF s
<1>3. s.mapper.expected <= position'
  BY <1>2 DEF ReplayInv
<1>4. mapper.echo # replayed.echo => Disturbed(s.mapper) \/ s.mapper.expected < position'
  <2>1. mapper.echo # replayed.echo => ~Clean(mapper, c) \/ mapper.expected < position
    BY DEF ReplayInv, Clean, Disturbed
  <2> QED BY <1>2, <2>1
<1>5. Effect(mapper, s, a)
  <2>1. <<>> \in Raws
    BY RawFields
  <2>2. Effect(mapper, s, Atomic(mapper, s, Envelope(0, None, <<>>), c))
    BY <1>1, <1>2, <2>1, Zenon, AtomicEffect
  <2> QED BY <2>2 DEF ConsumeCut, s
<1>6. Reproduces(mapper, replayed, a, Replay(replayed, a.record))
  BY <1>1, CutReplays
<1> HIDE DEF a
<1>7. Retain(a, seen) /\ position <= position'
  BY DEF a
<1> QED BY <1>2, <1>3, <1>4, <1>5, <1>6, <1>7, QuietStep

(* Before that the client admits nothing beyond the mapper's bound.        *)
LEMMA AdmittedFits ==
    ASSUME ~(Echoing /\ sent), NEW x \in Messages, Admits(x)
    PROVE  x.type \in Client \/ Fits(mapper, x)
  BY DEF Admits, Fits

LEMMA MessageStep ==
    ASSUME StateInv, ReplayInv, NEW x \in Messages, Admits(x), ~(Echoing /\ sent'),
           position = mapper.expected, NEW seen,
           Retain(ConsumeEnvelope(mapper, Envelope(position, KindOf(x), <<x>>)), seen),
           position \in Nat, position' = position + 1, sent' = (sent \/ Sends(x))
    PROVE  ReplayInv'
<1> DEFINE p == After(mapper, position)
           s == Consume(p, x)
           e == Envelope(position, KindOf(x), <<x>>)
           a == Atomic(mapper, s, e, NoCut)
           b == Replay(replayed, a.record)
           z == Size(Record(s, e, NoCut))
<1>1. /\ mapper \in Mapper /\ replayed \in Mapper /\ Alike(mapper, replayed)
      /\ Coherent(mapper) /\ mapper.retained \in Nat
      /\ mapper.echo = replayed.echo \/ Disturbed(mapper)
      /\ mapper.echo.input = replayed.echo.input
  BY MapperFields DEF StateInv, TypeOK, ReplayInv
<1>2. <<x>> \in Raws /\ <<x>> # <<>> /\ <<x>>[1] = x
  BY RawFields
<1>3. /\ p \in Mapper /\ Coherent(p) /\ p.echo = mapper.echo /\ p.cut = mapper.cut
      /\ p.expected = position + 1 /\ p.mechanism = mapper.mechanism
  BY <1>1, AfterFields, AfterMoves
<1> HIDE DEF p
<1>4. /\ s.mapper \in Mapper /\ s.mapper.expected = position + 1
      /\ s.mapper.cut = mapper.cut
      /\ s.mapper.echo.input = mapper.echo.input
      /\ Disturbed(mapper) => Disturbed(s.mapper)
  <2>1. ~(Sends(x) /\ Echoing)
    OBVIOUS
  <2> QED BY <1>3, <2>1, ConsumeMoves DEF Moves, Settles, Disturbed
<1>5. ConsumeEnvelope(mapper, e) = a
  <2>1. KindOf(x) # "LOSS"
    BY DEF KindOf
  <2> QED BY <1>2, <2>1 DEF ConsumeEnvelope, Envelope, p, Consume
<1>6. Effect(mapper, s, a)
  <2> HIDE DEF s
  <2> QED BY <1>1, <1>2, <1>4, Zenon, AtomicEffect
<1>7. mapper' = a.mapper
  BY <1>5 DEF Retain
<1>8. CASE mapper.cut # "open"
  <2> HIDE DEF a
  <2>1. a.record = Raised /\ mapper' = mapper
    BY <1>6, <1>7, <1>8 DEF Effect
  <2>2. replayed' = replayed /\ faithful'
    BY <1>5, <2>1 DEF Retain, ReplayInv
  <2>3. mapper'.expected < position'
    BY <1>1, <2>1
  <2> QED BY <1>8, <2>1, <2>2, <2>3 DEF ReplayInv
<1>9. CASE mapper.cut = "open" /\ a.record # Raised
  <2>1. Reproduces(mapper, replayed, a, b)
    <3>1. Reproduces(mapper, replayed, ConsumeEnvelope(mapper, e),
                     Replay(replayed, ConsumeEnvelope(mapper, e).record))
      <4>1. ~(Echoing /\ sent)
        OBVIOUS
      <4>2. x.type \in Client \/ Fits(mapper, x)
        BY <4>1, AdmittedFits
      <4> QED BY <1>1, <1>9, <4>2, MessageReplays
    <3> HIDE DEF a, e
    <3> QED BY <1>5, <3>1
  <2>2. replayed' = b.mapper /\ faithful' = (faithful /\ b.record = a.record)
    <3> HIDE DEF a, e
    <3> QED BY <1>5, <1>9 DEF Retain, e
  <2> HIDE DEF a, b, s
  <2>3. /\ b.record = a.record
        /\ Alike(a.mapper, b.mapper)
        /\ mapper.echo = replayed.echo => a.mapper.echo = b.mapper.echo
        /\ mapper.echo.input = replayed.echo.input => a.mapper.echo.input = b.mapper.echo.input
        /\ a.mapper.retained >= mapper.retained
    BY <1>9, <2>1 DEF Reproduces
  <2>4. /\ mapper'.expected = position + 1
        /\ mapper'.echo = s.mapper.echo /\ mapper'.mechanism = s.mapper.mechanism
    BY <1>4, <1>6, <1>7, <1>9 DEF Effect
  <2>5. faithful' /\ Alike(mapper', replayed')
    BY <1>7, <2>2, <2>3 DEF ReplayInv
  <2>6. mapper'.expected <= position'
    BY <2>4
  <2>7. mapper'.echo # replayed'.echo => Disturbed(mapper')
    BY <1>1, <1>4, <1>7, <2>2, <2>3, <2>4 DEF Disturbed
  <2>8. mapper'.echo.input = replayed'.echo.input
    BY <1>1, <1>7, <2>2, <2>3
  <2> QED BY <2>5, <2>6, <2>7, <2>8 DEF ReplayInv
<1>10. CASE mapper.cut = "open" /\ a.record = Raised
  <2> HIDE DEF a
  <2>2. mapper' = Leave(mapper, s.mapper.echo)
    BY <1>6, <1>7, <1>10 DEF Effect
  <2>3. replayed' = replayed /\ faithful'
    BY <1>5, <1>10 DEF Retain, ReplayInv
  <2>4. s.mapper.echo \in Echo
    BY <1>4, MapperFields
  <2>5. /\ mapper'.expected = mapper.expected /\ mapper'.echo = s.mapper.echo
        /\ mapper'.retained = mapper.retained /\ Alike(mapper', replayed')
    <3> HIDE DEF s
    <3> QED BY <1>1, <2>2, <2>3, <2>4, Leaves, LeaveAgain DEF Alike
  <2>6. mapper'.expected < position' /\ mapper'.expected <= position'
    BY <2>5
  <2>7. mapper'.echo.input = replayed'.echo.input
    BY <1>1, <1>4, <2>3, <2>5
  <2> QED BY <2>3, <2>5, <2>6, <2>7 DEF ReplayInv
<1> QED BY <1>8, <1>9, <1>10

LEMMA ReplayInvStep ==
    ASSUME StateInv, ReplayInv, [Next]_vars, ~(Echoing /\ sent')
    PROVE  ReplayInv'
<1>1. position \in Nat
  BY BoundsAssumption DEF StateInv, TypeOK
<1>2. ASSUME NEW x \in Messages, Acquire(x) PROVE ReplayInv'
  <2> DEFINE seen == IF position = mapper.expected THEN <<x>> ELSE <<Gone>>
  <2>1. /\ Retain(ConsumeEnvelope(mapper, Envelope(position, KindOf(x), <<x>>)), seen)
        /\ position' = position + 1 /\ Admits(x)
        /\ x.type \in Client => position = mapper.expected
    BY <1>2 DEF Acquire, Draw
  <2>2. sent' = (sent \/ Sends(x))
    BY <1>2 DEF Acquire, Sends
  <2> HIDE DEF seen
  <2>3. CASE position = mapper.expected
    BY <1>1, <2>1, <2>2, <2>3, MessageStep
  <2>4. CASE position # mapper.expected
    <3>1. KindOf(x) \in {"NOTIFICATION", "SERVER_REQUEST", "LOSS"} /\ ~Sends(x)
      BY <2>1, <2>4 DEF KindOf, Client, Sends
    <3>2. sent' = sent
      BY <2>2, <3>1 DEF StateInv, TypeOK
    <3>3. <<x>> \in Raws
      BY RawFields
    <3> QED BY <1>1, <2>1, <2>4, <3>1, <3>2, <3>3, MissStep
  <2> QED BY <2>3, <2>4
<1>3. ASSUME AcquireLoss PROVE ReplayInv'
  <2>1. /\ Retain(ConsumeEnvelope(mapper, Envelope(position, "LOSS", <<>>)), <<Gone>>)
        /\ position' = position + 1 /\ sent' = sent
    BY <1>3 DEF AcquireLoss, Draw
  <2>2. <<>> \in Raws
    BY RawFields
  <2> QED BY <1>1, <2>1, <2>2, MissStep
<1>4. ASSUME MissFrame PROVE ReplayInv'
  <2>1. /\ mapper' = mapper /\ replayed' = replayed /\ faithful' = faithful
        /\ sent' = sent /\ position' = position + 1
    BY <1>4 DEF MissFrame, Draw
  <2>2. mapper'.expected < position' /\ mapper'.expected <= position'
    BY <1>1, <2>1, MapperFields DEF ReplayInv, StateInv, TypeOK
  <2>3. Alike(mapper', replayed')
    BY <2>1 DEF ReplayInv
  <2> QED BY <2>1, <2>2, <2>3 DEF ReplayInv
<1>5. ASSUME OperationFails PROVE ReplayInv'
  <2>1. Retain(MarkLoss(mapper), <<Gone>>) /\ position' = position /\ sent' = sent
    BY <1>5 DEF OperationFails
  <2> QED BY <1>1, <2>1, LossStep
<1>6. ASSUME TakeCut PROVE ReplayInv'
  <2>1. PICK c : c.high = position /\ Retain(ConsumeCut(mapper, c), <<>>)
    BY <1>6 DEF TakeCut
  <2>2. position' = position /\ sent' = sent
    BY <1>6 DEF TakeCut
  <2> QED BY <1>1, <2>1, <2>2, CutStep
<1>7. CASE UNCHANGED vars
  BY <1>7 DEF vars, ReplayInv, Disturbed
<1> QED BY <1>2, <1>3, <1>4, <1>5, <1>6, <1>7 DEF Next

(* Whatever the App Server puts on the wire and in whatever order, every   *)
(* snapshot is reproduced by replay(), state and records alike, after any  *)
(* gap, loss, refusal, failure or cut: for as long as it lives under the   *)
(* contracts without echoes, and before turn/start under the other.        *)
THEOREM SnapshotsReplay == Spec => [](~(Echoing /\ sent) => SnapshotReplays)
<1> DEFINE Inv == ~(Echoing /\ sent) => ReplayInv
<1>1. Init => ReplayInv
  <2> SUFFICES ASSUME Init PROVE ReplayInv
    OBVIOUS
  <2>1. mapper \in Mapper /\ replayed = mapper /\ faithful
    BY StateInvInit DEF Init, StateInv, TypeOK
  <2>2. mapper.expected = 0 /\ position = 0 /\ ~sent
    BY DEF Init, NewMapper
  <2>3. Alike(mapper, replayed)
    BY <2>1, MapperFields, Leaves DEF Alike
  <2> QED BY <2>1, <2>2, <2>3 DEF ReplayInv
<1>2. StateInv /\ [Next]_vars => StateInv'
  BY StateInvStep
<1>3. StateInv /\ Inv /\ [Next]_vars => Inv'
  <2>1. [Next]_vars => (sent => sent')
    BY DEF Next, Acquire, AcquireLoss, MissFrame, OperationFails, TakeCut, vars
  <2> QED BY <2>1, ReplayInvStep
<1>4. StateInv /\ ReplayInv => SnapshotReplays
  <2> SUFFICES ASSUME StateInv, ReplayInv PROVE SnapshotReplays
    OBVIOUS
  <2>1. mapper \in Mapper /\ replayed = Leave(mapper, replayed.echo)
    BY DEF StateInv, TypeOK, ReplayInv, Alike
  <2>2. Leave(replayed, mapper.echo) = mapper
    <3>1. \A e : Leave(Leave(mapper, e), mapper.echo) = mapper
      BY <2>1, LeaveAgain, MapperFields, Leaves
    <3> QED BY <2>1, <3>1
  <2> QED BY <2>2 DEF SnapshotReplays, Leave, ReplayInv
<1>5. Init => StateInv
  BY StateInvInit
<1>6. Init => Inv
  BY <1>1
<1>7. StateInv /\ Inv => (~(Echoing /\ sent) => SnapshotReplays)
  BY <1>4
<1> QED BY <1>2, <1>3, <1>5, <1>6, <1>7, PTL DEF Spec

=============================================================================
