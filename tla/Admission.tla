----------------------------- MODULE Admission -----------------------------
(***************************************************************************)
(* The provider admission mapper (provider_admission.py): it consumes the  *)
(* envelopes of one App Server acquisition in order and decides whether    *)
(* the provider admitted the turn.  The mapper is a record; its handlers   *)
(* are operators from mapper and message to the next mapper and what is    *)
(* retained.  Next to it runs the mapper that replay() builds from the     *)
(* evidence retained so far.                                               *)
(*                                                                         *)
(* A message carries what the handlers compare with the mapper's state.    *)
(* "exact" says that its closed fields, identities and constants are those *)
(* of the binding and, for an echo of user input, of the input sent.       *)
(***************************************************************************)
EXTENDS Naturals, Sequences, FiniteSets, Functions

CONSTANTS
    Name,           \* identities, methods and texts
    Contract,       \* the capture contract of the request's schema
    Messages,       \* what the App Server and the client may put on the wire
    RawBound,       \* MAXIMUM_RAW_EVIDENCE_BYTES
    MaxAgentBytes,  \* MAXIMUM_BOUNDED_AGENT_OUTPUT_BYTES
    MaxRetained,    \* bound on retained evidence, of which a record takes its size
    MaxOrdinal      \* bound on the envelopes of one acquisition

Boundary == {"request", "created", "refused", "completed", "boundary"}
Inputs == {"input_started", "input_completed"}
Agents == {"agent_started", "agent_delta", "agent_completed"}
Ends == {"turn_completed", "turn_summary"}
Local == Inputs \cup Agents \cup Ends \cup {"local", "item", "error"}
Client == {"client_request", "client_response"}

None == "none"
MaybeName == Name \cup {None}

\* item, text and bytes are those of a user input or an agent output
Message == [type : Boundary \cup Local \cup Client \cup {"approval"},
            occurrence : Name, ordinal : Nat, order : Nat, response : Name,
            client : Nat, method : Name, at : Nat \ {0},
            item : Name, text : Name, bytes : Nat,
            exact : BOOLEAN, size : Nat \ {0}]

ASSUME ContractAssumption ==
    Contract \in {"LEGACY_V1", "BOUNDED_TURN_V1", "BOUNDED_TURN_ECHO_V1"}
ASSUME NameAssumption == None \notin Name
ASSUME MessagesAssumption == Messages \subseteq Message
ASSUME BoundsAssumption ==
    RawBound \in Nat /\ MaxAgentBytes \in Nat /\ MaxRetained \in Nat /\ MaxOrdinal \in Nat

----------------------------------------------------------------------------
(* The mapper.                                                             *)

Request == [occurrence : MaybeName, ordinal : Nat, order : Nat]

NoRequest == [occurrence |-> None, ordinal |-> 0, order |-> 0]

Dispositions == {"UNRESOLVED", "EXECUTION_ADMITTED", "NOT_ADMITTED_MODEL_AT_CAPACITY",
                 "ADMISSION_INDETERMINATE"}

Mechanisms == {"DISPATCHING", "EXECUTION_ADMITTED", "RUNNING", "WAITING_APPROVAL",
               "PARKED_NOT_ADMITTED", "PROVIDER_COMPLETED", "ADMISSION_INDETERMINATE",
               "POST_ADMISSION_INTERRUPTED"}

(* What the bounded-turn-echo contract keeps of large items: whether the    *)
(* input is selected, its item and whether it is complete, the agent item  *)
(* under way, those completed, their bytes, and the last with its text.    *)
Echo == [input : BOOLEAN, item : MaybeName, done : BOOLEAN, agent : MaybeName,
         completed : SUBSET Name, bytes : Nat, last : MaybeName \X MaybeName]

NoEcho == [input |-> FALSE, item |-> None, done |-> FALSE, agent |-> None,
           completed |-> {}, bytes |-> 0, last |-> <<None, None>>]

\* identity: the response that first proved admission; times are 0 when unset
Mapper == [pending : Request, startedAt : Nat, open : MaybeName,
           clients : SUBSET [id : Nat, method : Name],
           completed : SUBSET Name, responses : SUBSET Name, last : Nat,
           disposition : Dispositions, mechanism : Mechanisms, identity : MaybeName,
           expected : Nat, cut : {"open", "clean", "unclean"}, retained : Nat,
           echo : Echo]

NewMapper == [pending |-> NoRequest, startedAt |-> 0, open |-> None, clients |-> {},
              completed |-> {}, responses |-> {}, last |-> 0,
              disposition |-> "UNRESOLVED", mechanism |-> "DISPATCHING",
              identity |-> None, expected |-> 0, cut |-> "open", retained |-> 0,
              echo |-> NoEcho]

Admitted(m) == m.identity # None

(* Mutant: the interruption of an admitted turn overwrites its admission.  *)
Mutant_Disturb(m) ==
    IF Admitted(m)
    THEN [m EXCEPT !.disposition = "POST_ADMISSION_INTERRUPTED"]
    ELSE [m EXCEPT !.mechanism = "ADMISSION_INDETERMINATE",
                   !.disposition = "ADMISSION_INDETERMINATE"]

(* The state after evidence that contradicts or is missing.                *)
Disturb(m) ==
    IF Admitted(m)
    THEN [m EXCEPT !.mechanism = "POST_ADMISSION_INTERRUPTED"]
    ELSE [m EXCEPT !.mechanism = "ADMISSION_INDETERMINATE",
                   !.disposition = "ADMISSION_INDETERMINATE"]

----------------------------------------------------------------------------
(* What a handler does: the next mapper and the kind of record, or RAISED. *)

Step(m, kind) == [mapper |-> m, kind |-> kind, detail |-> None]

Discrepancy(m, detail) ==
    [mapper |-> Disturb(m), kind |-> "ADMISSION_DISCREPANCY", detail |-> detail]

Raise(m) == [mapper |-> m, kind |-> "RAISED", detail |-> None]

StepIf(fits, m, new, kind) == IF fits THEN Step(new, kind) ELSE Discrepancy(m, "protocol")

RequestOf(x) == [occurrence |-> x.occurrence, ordinal |-> x.ordinal, order |-> x.order]

RequestFits(m, x) ==
    /\ x.exact
    /\ m.last = 0 \/ x.at >= m.last
    /\ m.disposition \notin {"NOT_ADMITTED_MODEL_AT_CAPACITY", "ADMISSION_INDETERMINATE"}
    /\ m.pending = NoRequest
    /\ m.open = None
    /\ x.ordinal = Cardinality(m.completed)
    /\ x.order = Cardinality(m.completed)
    /\ x.occurrence \notin m.completed
    /\ x.ordinal > 0 => Admitted(m)

(* Mutant: a new request may hide one that has no answer yet.              *)
Mutant_ProviderRequest(m, x) ==
    StepIf(RequestFits([m EXCEPT !.pending = NoRequest], x), m,
           [m EXCEPT !.pending = RequestOf(x), !.startedAt = x.at],
           "PROVIDER_REQUEST_STARTED")

ProviderRequest(m, x) ==
    StepIf(RequestFits(m, x), m,
           [m EXCEPT !.pending = RequestOf(x), !.startedAt = x.at],
           "PROVIDER_REQUEST_STARTED")

(* A response or refusal answers exactly the pending request, later.       *)
AnswersPending(m, x) ==
    /\ x.exact
    /\ m.pending # NoRequest
    /\ RequestOf(x) = m.pending
    /\ x.at >= m.startedAt

ResponseStarted(m, x) ==
    StepIf(AnswersPending(m, x) /\ x.response \notin m.responses, m,
           [m EXCEPT !.pending = NoRequest, !.startedAt = 0, !.last = x.at,
                     !.open = x.response,
                     !.responses = @ \cup {x.response},
                     !.completed = @ \cup {x.occurrence},
                     !.disposition = IF Admitted(m) THEN @ ELSE "EXECUTION_ADMITTED",
                     !.mechanism = IF Admitted(m) THEN "RUNNING" ELSE "EXECUTION_ADMITTED",
                     !.identity = IF Admitted(m) THEN @ ELSE x.response],
           "PROVIDER_EXECUTION_STEP")

(* Mutant: a refusal of a later request overrules the admission.           *)
Mutant_ProviderRefused(m, x) ==
    StepIf(AnswersPending(m, x), m,
           [m EXCEPT !.pending = NoRequest, !.startedAt = 0, !.last = x.at,
                     !.completed = @ \cup {x.occurrence},
                     !.disposition = "NOT_ADMITTED_MODEL_AT_CAPACITY",
                     !.mechanism = "PARKED_NOT_ADMITTED"],
           "PROVIDER_ADMISSION_REFUSED")

ProviderRefused(m, x) ==
    StepIf(AnswersPending(m, x) /\ ~Admitted(m), m,
           [m EXCEPT !.pending = NoRequest, !.startedAt = 0, !.last = x.at,
                     !.completed = @ \cup {x.occurrence},
                     !.disposition = "NOT_ADMITTED_MODEL_AT_CAPACITY",
                     !.mechanism = "PARKED_NOT_ADMITTED"],
           "PROVIDER_ADMISSION_REFUSED")

ResponseCompleted(m, x) ==
    StepIf(x.exact /\ Admitted(m) /\ x.response = m.open /\ x.response \in m.responses, m,
           [m EXCEPT !.open = None, !.mechanism = "RUNNING"],
           "PROVIDER_RESPONSE_COMPLETED")

(* turn/completed of an admitted turn closes it; of a refused one it is    *)
(* only noted.                                                             *)
TurnCompleted(m, x) ==
    StepIf(/\ x.exact
           /\ m.pending = NoRequest
           /\ m.open = None
           /\ IF Admitted(m) THEN m.mechanism # "WAITING_APPROVAL"
              ELSE /\ m.disposition = "NOT_ADMITTED_MODEL_AT_CAPACITY"
                   /\ m.mechanism = "PARKED_NOT_ADMITTED",
           m,
           [m EXCEPT !.mechanism = IF Admitted(m) THEN "PROVIDER_COMPLETED" ELSE @],
           "LOCAL_TURN_FACT")

Approval(m, x) ==
    StepIf(x.exact /\ Admitted(m) /\ m.open = None, m,
           [m EXCEPT !.mechanism = "WAITING_APPROVAL"],
           "WAITING_APPROVAL")

Echoing == Contract = "BOUNDED_TURN_ECHO_V1"

(* turn/start selects the one input of the turn, before the identity of    *)
(* the request is looked at.                                               *)
SelectsInput(x) == Echoing /\ x.method = "turn/start"

ClientRequest(m, x) ==
    LET chosen == IF SelectsInput(x) THEN [m EXCEPT !.echo.input = TRUE] ELSE m
    IN  IF ~x.exact \/ (SelectsInput(x) /\ m.echo.input)
        THEN Discrepancy(m, "protocol")
        ELSE StepIf(\A c \in m.clients : c.id # x.client, chosen,
                    [chosen EXCEPT !.clients =
                        @ \cup {[id |-> x.client, method |-> x.method]}],
                    "CLIENT_REQUEST_ISSUED")

ClientResponse(m, x) ==
    LET issued == [id |-> x.client, method |-> x.method]
    IN  StepIf(x.exact /\ issued \in m.clients, m,
               [m EXCEPT !.clients = @ \ {issued}],
               "CLIENT_RESPONSE_RETAINED")

(* The frames for which the contract grants the larger bound.              *)
Selected(m, x) ==
    /\ Echoing
    /\ x.exact
    /\ x.type \in Agents \cup {"turn_summary"} \/ (x.type \in Inputs /\ m.echo.input)

Watermark(fits, m, new) == StepIf(fits, m, new, "FACT_OR_WATERMARK")

InputItem(m, x) ==
    IF x.type = "input_started"
    THEN Watermark(m.echo.item = None, m, [m EXCEPT !.echo.item = x.item])
    ELSE Watermark(m.echo.item = x.item /\ ~m.echo.done, m, [m EXCEPT !.echo.done = TRUE])

AgentStarted(m, x) ==
    Watermark(m.echo.agent = None /\ x.item \notin m.echo.completed, m,
              [m EXCEPT !.echo.agent = x.item])

AgentDelta(m, x) == Watermark(m.echo.agent = x.item, m, m)

(* Mutant: only the last output counts.                                    *)
Mutant_Count(m, x) == [m EXCEPT !.echo.bytes = x.bytes]

(* The bytes of a completed output count even when they are too many.      *)
Count(m, x) == [m EXCEPT !.echo.bytes = @ + x.bytes]

AgentCompleted(m, x) ==
    LET counted == Count(m, x)
    IN  IF m.echo.agent # x.item \/ x.item \in m.echo.completed
        THEN Discrepancy(m, "protocol")
        ELSE Watermark(counted.echo.bytes <= MaxAgentBytes, counted,
                       [counted EXCEPT !.echo.completed = @ \cup {x.item},
                                       !.echo.last = <<x.item, x.text>>,
                                       !.echo.agent = None])

(* An agent output of the turn outside the closed shape is only counted.   *)
OtherAgentCompleted(m, x) ==
    LET counted == Count(m, x)
    IN  Watermark(counted.echo.bytes <= MaxAgentBytes, counted, counted)

(* The summary at the end of the turn repeats its last output.             *)
TurnSummary(m, x) ==
    IF Selected(m, x) /\ (m.echo.agent # None \/ m.echo.last # <<x.item, x.text>>)
    THEN Discrepancy(m, "protocol")
    ELSE TurnCompleted(m, x)

(* Nothing may follow an indeterminate, interrupted or completed turn, and *)
(* nothing from the provider an unanswered approval.                       *)
Closed(m, x) ==
    \/ m.disposition = "ADMISSION_INDETERMINATE"
    \/ m.mechanism \in {"PROVIDER_COMPLETED", "POST_ADMISSION_INTERRUPTED"}
    \/ m.mechanism = "WAITING_APPROVAL" /\ x.type \in Boundary \cup {"approval"}

Handle(m, x) ==
    CASE x.type = "request"         -> ProviderRequest(m, x)
      [] x.type = "created"         -> ResponseStarted(m, x)
      [] x.type = "refused"         -> ProviderRefused(m, x)
      [] x.type = "completed"       -> ResponseCompleted(m, x)
      [] x.type = "turn_completed"  -> TurnCompleted(m, x)
      [] x.type = "turn_summary"    -> TurnSummary(m, x)
      [] x.type = "approval"        -> Approval(m, x)
      [] x.type \in {"boundary", "error"} -> Discrepancy(m, "protocol")
      [] x.type = "local"           -> Watermark(x.exact, m, m)
      [] x.type \in Inputs /\ Selected(m, x) -> InputItem(m, x)
      [] x.type = "agent_started" /\ Selected(m, x) -> AgentStarted(m, x)
      [] x.type = "agent_delta" /\ Selected(m, x) -> AgentDelta(m, x)
      [] x.type = "agent_completed" /\ Selected(m, x) -> AgentCompleted(m, x)
      [] x.type = "agent_completed" /\ Echoing /\ ~x.exact -> OtherAgentCompleted(m, x)
      [] OTHER -> Watermark(TRUE, m, m)

Fits(m, x) == x.size <= RawBound \/ Selected(m, x)

(* Mutant: the App Server's messages are handled whatever came before.     *)
Mutant_ServerMessage(m, x) ==
    IF Fits(m, x) THEN Handle(m, x) ELSE Discrepancy(m, "custody")

ServerMessage(m, x) ==
    IF ~Fits(m, x) THEN Discrepancy(m, "custody")
    ELSE IF Closed(m, x) THEN Discrepancy(m, "protocol")
    ELSE Handle(m, x)

(* The wire bytes of a client message are checked outside any handler.     *)
ClientFits(x) ==
    x.size <= RawBound \/ (/\ x.type = "client_request"
                           /\ x.method = "turn/start"
                           /\ Contract # "LEGACY_V1")

Consume(m, x) ==
    CASE x.type \in Client /\ ~ClientFits(x) -> Raise(m)
      [] x.type = "client_request" /\ ClientFits(x) -> ClientRequest(m, x)
      [] x.type = "client_response" /\ ClientFits(x) -> ClientResponse(m, x)
      [] OTHER -> ServerMessage(m, x)

----------------------------------------------------------------------------
(* Envelopes, the cut, and what is retained of them.                       *)

Kinds == {"NOTIFICATION", "SERVER_REQUEST", "CLIENT_REQUEST", "CLIENT_RESPONSE"}

KindOf(x) ==
    CASE x.type = "client_request"  -> "CLIENT_REQUEST"
      [] x.type = "client_response" -> "CLIENT_RESPONSE"
      [] x.type = "approval"        -> "SERVER_REQUEST"
      [] OTHER                      -> "NOTIFICATION"

(* <<x>> is a message, <<>> the absence of one.                            *)
Envelope(o, as, raw) == [ordinal |-> o, as |-> as, raw |-> raw]

NoCut == [quiesced |-> FALSE, loss |-> FALSE, exited |-> FALSE, high |-> 0]

Raised == [kind |-> "RAISED"]

(* Records of a gap, of a frame beyond the bound and of a message that is  *)
(* missing keep no wire bytes.                                             *)
Record(step, e, cut) ==
    [kind |-> step.kind, detail |-> step.detail, ordinal |-> e.ordinal, as |-> e.as,
     raw |-> IF step.detail \in {"gap", "custody", "shape"} THEN <<>> ELSE e.raw,
     cut |-> cut]

Size(r) == IF r.raw = <<>> THEN 1 ELSE r.raw[1].size

(* Mutant: what the operation did stays when its evidence is refused.      *)
Mutant_Atomic(m, step, e, cut) ==
    LET r == Record(step, e, cut)
    IN  IF m.cut # "open" \/ step.kind = "RAISED"
        THEN [mapper |-> m, record |-> Raised]
        ELSE IF m.retained + Size(r) > MaxRetained
        THEN [mapper |-> step.mapper, record |-> Raised]
        ELSE [mapper |-> [step.mapper EXCEPT !.retained = @ + Size(r)], record |-> r]

(* _atomic: an operation that raises, also because its record exceeds the  *)
(* bound or the cut is already there, changes nothing, but for the state   *)
(* of the echo, which the checkpoint leaves out.                           *)
Atomic(m, step, e, cut) ==
    LET r == Record(step, e, cut)
    IN  IF m.cut # "open" THEN [mapper |-> m, record |-> Raised]
        ELSE IF step.kind = "RAISED" \/ m.retained + Size(r) > MaxRetained
        THEN [mapper |-> [m EXCEPT !.echo = step.mapper.echo], record |-> Raised]
        ELSE [mapper |-> [step.mapper EXCEPT !.retained = @ + Size(r)], record |-> r]

After(m, o) == [m EXCEPT !.expected = IF o < @ THEN @ ELSE o + 1]

ConsumeEnvelope(m, e) ==
    LET next == After(m, e.ordinal)
        step == IF e.ordinal # m.expected THEN Discrepancy(next, "gap")
                ELSE IF e.as = "LOSS" THEN Discrepancy(next, "loss")
                ELSE IF e.raw = <<>> THEN Discrepancy(next, "shape")
                ELSE Consume(next, e.raw[1])
    IN  Atomic(m, step, e, NoCut)

MarkLoss(m) == Atomic(m, Discrepancy(m, "operator"), Envelope(0, None, <<>>), NoCut)

(* Mutant: outstanding client requests do not spoil the cut.               *)
Mutant_Clean(m, c) ==
    /\ c.quiesced
    /\ c.exited
    /\ ~c.loss
    /\ c.high = m.expected
    /\ m.mechanism \in {"PROVIDER_COMPLETED", "PARKED_NOT_ADMITTED"}

Clean(m, c) ==
    /\ c.quiesced
    /\ c.exited
    /\ ~c.loss
    /\ c.high = m.expected
    /\ m.clients = {}
    /\ m.mechanism \in {"PROVIDER_COMPLETED", "PARKED_NOT_ADMITTED"}

ConsumeCut(m, c) ==
    LET new == IF Clean(m, c) THEN [m EXCEPT !.cut = "clean"]
               ELSE [Disturb(m) EXCEPT !.cut = "unclean"]
    IN  Atomic(m, Step(new, "ACQUISITION_CUT"), Envelope(0, None, <<>>), c)

(* What replay() makes of one retained record.  A record without bytes of  *)
(* a client message does not tell its request method.                      *)
Replay(m, r) ==
    CASE r.as \in {"CLIENT_REQUEST", "CLIENT_RESPONSE"} /\ r.raw = <<>> ->
            [mapper |-> m, record |-> Raised]
      [] r.as \in {"CLIENT_REQUEST", "CLIENT_RESPONSE"} /\ r.raw # <<>> ->
            ConsumeEnvelope(m, Envelope(r.ordinal, r.as, r.raw))
      [] r.as \in {"NOTIFICATION", "SERVER_REQUEST", "LOSS"} ->
            ConsumeEnvelope(m, Envelope(r.ordinal, r.as, r.raw))
      [] r.as = None /\ r.kind = "ACQUISITION_CUT" -> ConsumeCut(m, r.cut)
      [] r.as = None /\ r.kind # "ACQUISITION_CUT" -> MarkLoss(m)

----------------------------------------------------------------------------
(* One acquisition.                                                        *)

VARIABLES
    mapper,         \* the live mapper
    replayed,       \* the mapper replay() builds from what mapper retained
    faithful,       \* so far every record was reproduced exactly
    position,       \* ordinals the client has drawn
    lost,           \* the client has counted a loss
    sent,           \* the client has sent turn/start
    log             \* what was consumed up to the first disturbance

vars == <<mapper, replayed, faithful, position, lost, sent, log>>

(* Stands in the log for everything that disturbs without being a message. *)
Gone == [type |-> "gone"]

Disturbed(m) == m.mechanism \in {"ADMISSION_INDETERMINATE", "POST_ADMISSION_INTERRUPTED"}

TypeOK ==
    /\ mapper \in Mapper
    /\ replayed \in Mapper
    /\ faithful \in BOOLEAN
    /\ position \in 0 .. MaxOrdinal
    /\ lost \in BOOLEAN
    /\ sent \in BOOLEAN
    /\ log \in Seq(Messages \cup {Gone})

Init ==
    /\ mapper = NewMapper
    /\ replayed = NewMapper
    /\ faithful = TRUE
    /\ position = 0
    /\ lost = FALSE
    /\ sent = FALSE
    /\ log = <<>>

(* The live mapper did outcome.record; replay() sees that record, if any.  *)
Retain(outcome, seen) ==
    LET again == Replay(replayed, outcome.record)
        none == outcome.record = Raised
    IN  /\ mapper' = outcome.mapper
        /\ replayed' = IF none THEN replayed ELSE again.mapper
        /\ faithful' = (faithful /\ (none \/ again.record = outcome.record))
        /\ log' = IF none \/ Disturbed(mapper) THEN log ELSE log \o seen

(* The stream may go on until it is quiesced.                              *)
Draw ==
    /\ position < MaxOrdinal
    /\ mapper.cut # "clean"
    /\ position' = position + 1

(* What the client admits above the common bound: turn/start itself, and   *)
(* once it is sent the echo of its input, whatever turn the echo names, and *)
(* output of the turn.                                                     *)
Admits(x) ==
    \/ x.size <= RawBound
    \/ x.type \in Client /\ ClientFits(x)
    \/ Echoing /\ sent /\ x.type \in Inputs
    \/ Echoing /\ sent /\ x.type \in Agents \cup {"turn_summary"} /\ x.exact

(* The next frame reaches the mapper.  The client sends its requests       *)
(* before the runner drains the queue the first time, so none of them and  *)
(* none of their responses follows a gap.                                  *)
Acquire(x) ==
    /\ Draw
    /\ x.type \in Client => position = mapper.expected
    /\ Admits(x)
    /\ Retain(ConsumeEnvelope(mapper, Envelope(position, KindOf(x), <<x>>)),
              IF position = mapper.expected THEN <<x>> ELSE <<Gone>>)
    /\ sent' = (sent \/ (x.type = "client_request" /\ x.method = "turn/start"))
    /\ UNCHANGED lost

(* The client reports a frame it refused.                                  *)
AcquireLoss ==
    /\ Draw
    /\ lost' = TRUE
    /\ Retain(ConsumeEnvelope(mapper, Envelope(position, "LOSS", <<>>)), <<Gone>>)
    /\ UNCHANGED sent

(* Its queue is full: the ordinal is drawn, the envelope is nowhere.       *)
MissFrame ==
    /\ Draw
    /\ lost' = TRUE
    /\ UNCHANGED <<mapper, replayed, faithful, sent, log>>

(* The runner marks an operation that failed.                              *)
OperationFails ==
    /\ Retain(MarkLoss(mapper), <<Gone>>)
    /\ UNCHANGED <<position, lost, sent>>

(* The client's cut reaches the mapper.                                    *)
TakeCut ==
    /\ \E quiesced, exited \in BOOLEAN :
           LET c == [quiesced |-> quiesced, loss |-> lost, exited |-> exited, high |-> position]
               outcome == ConsumeCut(mapper, c)
           IN  Retain(outcome, <<>>)
    /\ UNCHANGED <<position, lost, sent>>

Next == \/ \E x \in Messages : Acquire(x)
        \/ AcquireLoss
        \/ MissFrame
        \/ OperationFails
        \/ TakeCut

Spec == Init /\ [][Next]_vars

----------------------------------------------------------------------------
(* The reference: which histories of messages prove what.  It looks at the *)
(* history only and knows nothing of the mapper's registers.               *)

Of(w, types) == {j \in DOMAIN w : w[j].type \in types}

Earlier(w, i, types) == {j \in Of(w, types) : j < i}

SameRequest(x, y) ==
    x.occurrence = y.occurrence /\ x.ordinal = y.ordinal /\ x.order = y.order

(* The request at j has its response or refusal before i.                  *)
Answered(w, j, i) ==
    \E k \in Earlier(w, i, {"created", "refused"}) : j < k /\ SameRequest(w[j], w[k])

(* The response created at j is complete before i.                         *)
Finished(w, j, i) ==
    \E k \in Earlier(w, i, {"completed"}) : j < k /\ w[k].response = w[j].response

(* Every exchange begun before i is over.                                  *)
Quiet(w, i) ==
    /\ \A j \in Earlier(w, i, {"request"}) : Answered(w, j, i)
    /\ \A j \in Earlier(w, i, {"created"}) : Finished(w, j, i)

LegalRequest(w, i) ==
    LET before == Earlier(w, i, {"request"})
    IN  /\ Quiet(w, i)
        /\ Earlier(w, i, {"refused"}) = {}
        /\ w[i].ordinal = Cardinality(before)
        /\ w[i].order = Cardinality(before)
        /\ \A j \in before : w[j].occurrence # w[i].occurrence
        /\ \A j \in Earlier(w, i, {"created"}) : w[j].at <= w[i].at

LegalAnswer(w, i) ==
    /\ \E j \in Earlier(w, i, {"request"}) :
           SameRequest(w[j], w[i]) /\ ~Answered(w, j, i) /\ w[j].at <= w[i].at
    /\ \A j \in Earlier(w, i, {"created"}) :
           w[i].type = "created" /\ w[j].response # w[i].response

LegalCompletion(w, i) ==
    \E j \in Earlier(w, i, {"created"}) :
        w[j].response = w[i].response /\ ~Finished(w, j, i)

LegalApproval(w, i) ==
    LET created == Earlier(w, i, {"created"})
    IN  created # {} /\ \A j \in created : Finished(w, j, i)

(* The frames before i that belong to the echo contract's large items.     *)
Starts(w, i) == {j \in Earlier(w, i, {"client_request"}) : w[j].method = "turn/start"}

Echoed(w, i) ==
    /\ Echoing
    /\ w[i].exact
    /\ w[i].type \in Agents \cup {"turn_summary"}
          \/ (w[i].type \in Inputs /\ Starts(w, i) # {})

EarlierEcho(w, i, type) == {j \in Earlier(w, i, {type}) : Echoed(w, j)}

LegalInput(w, i) ==
    /\ EarlierEcho(w, i, w[i].type) = {}
    /\ w[i].type = "input_completed" =>
          \E j \in EarlierEcho(w, i, "input_started") : w[j].item = w[i].item

(* The output begun at j is under way at i.                                *)
UnderWay(w, j, i) ==
    \A k \in EarlierEcho(w, i, "agent_completed") : j < k => w[k].item # w[j].item

OutputAt(w, i) == {j \in EarlierEcho(w, i, "agent_started") : UnderWay(w, j, i)}

LegalAgent(w, i) ==
    IF w[i].type = "agent_started"
    THEN /\ OutputAt(w, i) = {}
         /\ \A j \in EarlierEcho(w, i, "agent_started") : w[j].item # w[i].item
    ELSE \E j \in OutputAt(w, i) : w[j].item = w[i].item

Bytes(w, indices) == SumFunctionOnSet([j \in indices |-> w[j].bytes], indices)

(* All output completed up to i is within the contract's bound.            *)
WithinBytes(w, i) == Bytes(w, Earlier(w, i + 1, {"agent_completed"})) <= MaxAgentBytes

(* The summary repeats the output completed last, and none is under way.   *)
LegalSummary(w, i) ==
    /\ OutputAt(w, i) = {}
    /\ \E j \in EarlierEcho(w, i, "agent_completed") :
          /\ w[j].item = w[i].item /\ w[j].text = w[i].text
          /\ \A k \in EarlierEcho(w, i, "agent_completed") : k <= j

LegalItem(w, i) ==
    /\ Echoed(w, i) /\ w[i].type \in Inputs => LegalInput(w, i)
    /\ Echoed(w, i) /\ w[i].type \in Agents => LegalAgent(w, i)
    /\ Echoed(w, i) /\ w[i].type = "turn_summary" => LegalSummary(w, i)
    /\ Echoing /\ w[i].type = "agent_completed" => WithinBytes(w, i)

LegalEnd(w, i) == Quiet(w, i) /\ Earlier(w, i, {"created", "refused"}) # {}

(* The client request at j has its response before i.                      *)
Replied(w, j, i) ==
    \E k \in Earlier(w, i, {"client_response"}) : j < k /\ w[k].client = w[j].client

LegalClient(w, i) ==
    LET open == {j \in Earlier(w, i, {"client_request"}) :
                    w[j].client = w[i].client /\ ~Replied(w, j, i)}
    IN  IF w[i].type = "client_request"
        THEN open = {} /\ (SelectsInput(w[i]) => Starts(w, i) = {})
        ELSE \E j \in open : w[j].method = w[i].method

(* Nothing but client messages after the end of an admitted turn, nothing  *)
(* of the provider after an approval request.                              *)
InSeason(w, i) ==
    /\ \A j \in Earlier(w, i, Ends) :
           w[i].type \in Client \/ Earlier(w, j, {"created"}) = {}
    /\ Earlier(w, i, {"approval"}) # {} =>
           w[i].type \notin Boundary \cup Ends \cup {"approval"}

LegalAt(w, i) ==
    /\ w[i].type \notin {"gone", "error", "boundary"}
    /\ w[i].size <= RawBound \/ Echoed(w, i) \/ (w[i].type \in Client /\ ClientFits(w[i]))
    /\ w[i].type \in Boundary \cup Client \cup Ends \cup {"approval", "local"} => w[i].exact
    /\ LegalItem(w, i)
    /\ InSeason(w, i)
    /\ w[i].type = "request" => LegalRequest(w, i)
    /\ w[i].type \in {"created", "refused"} => LegalAnswer(w, i)
    /\ w[i].type = "completed" => LegalCompletion(w, i)
    /\ w[i].type = "approval" => LegalApproval(w, i)
    /\ w[i].type \in Ends => LegalEnd(w, i)
    /\ w[i].type \in Client => LegalClient(w, i)

Legal(w) == \A i \in DOMAIN w : LegalAt(w, i)

----------------------------------------------------------------------------
(* Properties.                                                             *)

(* Until the cut, the mapper reports a discrepancy exactly when what it    *)
(* consumed is not a legal history: no hidden retry, substituted, late,    *)
(* duplicated or missing frame passes, and no honest turn is refused.      *)
DiscrepancyIsExact == mapper.cut = "open" => (Disturbed(mapper) <=> ~Legal(log))

(* The disposition says what the legal part of the history proves: the     *)
(* first response proves admission, a refusal that none was created, and a *)
(* turn found disturbed before either proves nothing.                      *)
DispositionIsProved ==
    LET created == Of(log, {"created"})
        legal == {j \in created : \A i \in 1 .. j : LegalAt(log, i)}
    IN  /\ mapper.disposition = "EXECUTION_ADMITTED" <=> legal # {}
        /\ Admitted(mapper) =>
               \E j \in legal : /\ mapper.identity = log[j].response
                                /\ \A k \in legal : j <= k
        /\ mapper.disposition = "NOT_ADMITTED_MODEL_AT_CAPACITY" =>
               Legal(log) /\ Of(log, {"refused"}) # {} /\ created = {}

(* A clean cut is taken only of an acquisition that lost nothing, whose    *)
(* every ordinal was consumed, whose history is legal and over, with every *)
(* client request answered.                                                *)
CleanCutIsComplete ==
    mapper.cut = "clean" =>
        LET n == Len(log)
        IN  /\ ~lost
            /\ n = position
            /\ Legal(log)
            /\ Quiet(log, n + 1)
            /\ \A j \in Of(log, {"client_request"}) : Replied(log, j, n + 1)
            /\ IF Of(log, {"refused"}) = {} THEN Of(log, Ends) # {}
               ELSE Of(log, {"created"}) = {}

(* No evidence that comes later repairs a disposition: an admission is     *)
(* never revoked nor its execution exchanged, an indeterminate dispatch    *)
(* never decided, and the end of a disturbed mechanism is the end.         *)
DispositionIsSettled ==
    [][/\ mapper.disposition \in {"EXECUTION_ADMITTED", "ADMISSION_INDETERMINATE"} =>
              mapper'.disposition = mapper.disposition
       /\ mapper.disposition = "NOT_ADMITTED_MODEL_AT_CAPACITY" =>
              mapper'.disposition # "EXECUTION_ADMITTED"
       /\ Admitted(mapper) => mapper'.identity = mapper.identity
       /\ Disturbed(mapper) => mapper'.mechanism = mapper.mechanism]_mapper

(* A snapshot taken at any time is reproduced by replay() from its         *)
(* retained evidence, state and records alike, so inspect can answer,      *)
(* whatever an operation that raised has left in the state of the echo.    *)
SnapshotReplays == faithful /\ [replayed EXCEPT !.echo = mapper.echo] = mapper

============================================================================
