--------------------------- MODULE ProviderRunner ---------------------------
(***************************************************************************)
(* The bounded provider runner (provider_runner.py): invocations of the    *)
(* commands run and close-prelaunch share one custody store.  run claims   *)
(* its dispatch, starts an App Server, sends one turn and derives the      *)
(* outcome from the evidence it acquired; close-prelaunch retains that the *)
(* dispatch was never launched.                                            *)
(*                                                                         *)
(* A process is one command; the service that restarts the runner, or an   *)
(* owner that closes the dispatch meanwhile, is another process.  The App  *)
(* Server is external and may emit any events in any order.                *)
(***************************************************************************)
EXTENDS Naturals, Sequences, SequencesExt

CONSTANTS
    Proc,           \* command invocations
    Inputs,         \* request, brief, backend and dispatch record, as one value
    Jobs,           \* the commands that may be given
    Attested,       \* closures an owner prepared
    Events,         \* what an App Server may report of a turn
    MaxEvents,      \* bound on the events of one turn
    Faults          \* TRUE: crashes, storage errors, lost frames, interrupts

\* "other" is a status the runner does not know
TurnEnds == {"completed", "failed", "interrupted", "other"}

Dispatch == {i.dispatch : i \in Inputs}

(* "valid" stands for validate_request, validate_dispatch and provenance.  *)
Input == [dispatch : Dispatch, body : STRING, valid : BOOLEAN]

Job == [command : {"run", "close", "close_preflight"},
        input : Inputs, closure : Attested]

ASSUME InputsAssumption == \A i \in Inputs : i.valid \in BOOLEAN
ASSUME JobsAssumption == Jobs \subseteq Job
ASSUME EventsAssumption == Events \subseteq {"ADMITTED", "REFUSED", "APPROVAL", "BREACH"}
                                            \cup TurnEnds
ASSUME MaxEventsAssumption == MaxEvents \in Nat
ASSUME RunnerFaultsAssumption == Faults \in BOOLEAN

VARIABLES
    file,           \* the store's file: absent, bare (no table yet), ready
    rows,           \* provider_runs: dispatch -> input and record
    pc,             \* where each invocation stands
    job,            \* its command and arguments
    rec,            \* its in-memory record; at the end, what it returned
    app,            \* its App Server
    wire,           \* envelopes issued by its acquisition, with their truth
    head,           \* how many of them drain() has taken
    loss,           \* loss_generation > 0
    mapper,         \* its admission mapper
    contacts        \* turns sent for each dispatch

custody == <<file, rows>>
evidence == <<app, wire, head, loss, mapper, contacts>>
vars == <<file, rows, pc, job, rec, app, wire, head, loss, mapper, contacts>>

----------------------------------------------------------------------------
(* Records and closures.                                                   *)

NoClosure == <<"none">>
ObservedBy(p) == <<"observed", p>>
AttestedBy(c) == <<"attested", c>>
Closure == {NoClosure} \cup {ObservedBy(p) : p \in Proc} \cup {AttestedBy(c) : c \in Attested}

Known == {"PROVIDER_COMPLETED", "PROVIDER_FAILED", "PROVIDER_INTERRUPTED",
          "NOT_ADMITTED_MODEL_AT_CAPACITY"}

Record == [state : Known \cup {"OUTCOME_UNKNOWN", "PRELAUNCH_CLOSED"},
           thread : BOOLEAN, turn : BOOLEAN, closure : Closure, ended : BOOLEAN]

(* Mutant: the claim is recorded in a state of no receipt.                 *)
Mutant_FreshRecord == [state |-> "CLAIMED", thread |-> FALSE, turn |-> FALSE,
                       closure |-> NoClosure, ended |-> FALSE]

FreshRecord == [state |-> "OUTCOME_UNKNOWN", thread |-> FALSE, turn |-> FALSE,
                closure |-> NoClosure, ended |-> FALSE]

ClosedRecord(c) == [FreshRecord EXCEPT !.state = "PRELAUNCH_CLOSED", !.closure = c]

Row == [input : Inputs, record : Record]

Insert(i, k) ==
    rows' = [d \in DOMAIN rows \cup {i.dispatch} |->
                IF d = i.dispatch THEN [input |-> i, record |-> k] ELSE rows[d]]

----------------------------------------------------------------------------
(* The admission mapper, as coarse as the runner reads it.  ADMITTED is    *)
(* one exchange of a provider request and its response.                    *)

Mechanisms == {"NONE", "DISPATCHING", "RUNNING", "WAITING_APPROVAL", "PARKED",
               "COMPLETED", "INDETERMINATE", "INTERRUPTED"}

Mapper == [mech : Mechanisms, admitted : BOOLEAN, status : TurnEnds \cup {"none"},
           seen : Nat]

NoMapper == [mech |-> "NONE", admitted |-> FALSE, status |-> "none", seen |-> 0]

NewMapper == [NoMapper EXCEPT !.mech = "DISPATCHING"]

Envelope == [event : Events, as : {"MESSAGE", "LOSS", "MISSING"}]

Discrepancy(m) ==
    [m EXCEPT !.mech = IF m.admitted THEN "INTERRUPTED" ELSE "INDETERMINATE"]

(* mark_acquisition_loss, if there is a mapper.                            *)
MarkLoss(m) == IF m.mech = "NONE" THEN m ELSE Discrepancy(m)

Observe(m, e) ==
    CASE e = "ADMITTED" /\ m.mech \in {"DISPATCHING", "RUNNING"} ->
            [m EXCEPT !.mech = "RUNNING", !.admitted = TRUE]
      [] e = "REFUSED" /\ m.mech = "DISPATCHING" -> [m EXCEPT !.mech = "PARKED"]
      [] e = "APPROVAL" /\ m.mech = "RUNNING" -> [m EXCEPT !.mech = "WAITING_APPROVAL"]
      [] e \in TurnEnds /\ m.mech = "RUNNING" -> [m EXCEPT !.mech = "COMPLETED"]
      [] e \in TurnEnds /\ m.mech = "PARKED" -> m
      [] OTHER -> Discrepancy(m)

(* One turn of the loop of drain(): the envelope at position i, whose      *)
(* ordinal must be the next one.  BREACH is output or usage of another     *)
(* turn, or output above the admitted bound.                               *)
Receive(m, w, i) ==
    LET next == [m EXCEPT !.seen = i,
                          !.status = IF w.as = "MESSAGE" /\ w.event \in TurnEnds
                                     THEN w.event ELSE @]
    IN  IF w.as = "MISSING" THEN m
        ELSE IF w.as = "LOSS" \/ i # m.seen + 1 THEN Discrepancy(next)
        ELSE Observe(next, w.event)

Waiting(p) == [j \in 1 .. Len(wire[p]) - head[p] |-> head[p] + j]

(* The mapper after everything queued is consumed.                         *)
Drained(p) ==
    LET read(m, i) == Receive(m, wire[p][i], i)
    IN  FoldLeft(read, mapper[p], Waiting(p))

StateOf(status) ==
    CASE status = "completed"   -> "PROVIDER_COMPLETED"
      [] status = "failed"      -> "PROVIDER_FAILED"
      [] status = "interrupted" -> "PROVIDER_INTERRUPTED"
      [] OTHER                  -> "OUTCOME_UNKNOWN"

(* Mutant: a clean cut is not asked for.                                   *)
Mutant_Outcome(p, m) ==
    CASE m.mech = "COMPLETED" -> StateOf(m.status)
      [] m.mech = "PARKED"    -> "NOT_ADMITTED_MODEL_AT_CAPACITY"
      [] OTHER                -> "OUTCOME_UNKNOWN"

(* The state run() records: only a cut without loss, of an exited server,  *)
(* with every ordinal consumed and a closed mechanism is clean.            *)
Outcome(p, m) ==
    LET clean == /\ app[p] = "exited"
                 /\ ~loss[p]
                 /\ m.seen = Len(wire[p])
    IN  CASE clean /\ m.mech = "COMPLETED" -> StateOf(m.status)
          [] clean /\ m.mech = "PARKED"    -> "NOT_ADMITTED_MODEL_AT_CAPACITY"
          [] OTHER                         -> "OUTCOME_UNKNOWN"

----------------------------------------------------------------------------
(* The commands.                                                           *)

Opening == {"idle", "creating", "checking", "open", "preflight"}
Serving == {"serving", "writing", "turnsent", "watching"}
Working == {"claimed", "ending", "cut"} \cup Serving
Stopped == {"refused", "returned", "raised", "crashed"}

TypeOK ==
    /\ file \in {"absent", "bare", "ready"}
    /\ DOMAIN rows \subseteq Dispatch
    /\ rows \in [DOMAIN rows -> Row]
    /\ pc \in [Proc -> Opening \cup Working \cup Stopped]
    /\ job \in [Proc -> Jobs]
    /\ rec \in [Proc -> Record]
    /\ app \in [Proc -> {"none", "running", "turn", "exited"}]
    /\ wire \in [Proc -> Seq(Envelope)]
    /\ head \in [Proc -> Nat]
    /\ loss \in [Proc -> BOOLEAN]
    /\ mapper \in [Proc -> Mapper]
    /\ contacts \in [Dispatch -> Nat]

Init ==
    /\ file = "absent"
    /\ rows = [d \in {} |-> d]
    /\ pc = [p \in Proc |-> "idle"]
    /\ job \in [Proc -> Jobs]
    /\ rec = [p \in Proc |-> FreshRecord]
    /\ app = [p \in Proc |-> "none"]
    /\ wire = [p \in Proc |-> <<>>]
    /\ head = [p \in Proc |-> 0]
    /\ loss = [p \in Proc |-> FALSE]
    /\ mapper = [p \in Proc |-> NoMapper]
    /\ contacts = [d \in Dispatch |-> 0]

InputOf(p) == job[p].input
DispatchOf(p) == job[p].input.dispatch

Goto(p, label) == pc' = [pc EXCEPT ![p] = label]

Return(p, k) == rec' = [rec EXCEPT ![p] = k] /\ Goto(p, "returned")

(* Mutant: the final update is not committed.                              *)
Mutant_Update(p, k) ==
    /\ rec' = [rec EXCEPT ![p] = k]
    /\ rows' = IF k.ended THEN rows ELSE [rows EXCEPT ![DispatchOf(p)].record = k]

(* UPDATE provider_runs SET record = k.                                    *)
Update(p, k) ==
    /\ rec' = [rec EXCEPT ![p] = k]
    /\ rows' = [rows EXCEPT ![DispatchOf(p)].record = k]

(* A prepared closure is refused before any store is opened.               *)
RefuseClosure(p) ==
    /\ pc[p] = "idle"
    /\ job[p].command # "run"
    /\ ~InputOf(p).valid
    /\ Goto(p, "refused")
    /\ UNCHANGED <<custody, job, rec, evidence>>

(* run opens the store as it finds it; a preflight closure creates it      *)
(* exclusively, and reopens one that exists as existing only.              *)
Open(p) ==
    LET creates == \/ job[p].command = "run"
                   \/ job[p].command = "close_preflight" /\ file = "absent"
    IN
    /\ pc[p] = "idle"
    /\ job[p].command # "run" => InputOf(p).valid
    /\ Goto(p, IF creates THEN "creating"
               ELSE IF file = "absent" THEN "refused" ELSE "checking")
    /\ file' = IF creates /\ file = "absent" THEN "bare" ELSE file
    /\ UNCHANGED <<rows, job, rec, evidence>>

CreateTable(p) ==
    /\ pc[p] = "creating"
    /\ file' = "ready"
    /\ Goto(p, "open")
    /\ UNCHANGED <<rows, job, rec, evidence>>

(* existing_only: custody without a table is unknown custody.              *)
CheckTable(p) ==
    /\ pc[p] = "checking"
    /\ Goto(p, IF file = "ready" THEN "open" ELSE "refused")
    /\ UNCHANGED <<custody, job, rec, evidence>>

OpenFails(p) ==
    /\ Faults
    /\ pc[p] \in {"creating", "checking", "open", "preflight"}
    /\ Goto(p, "raised")
    /\ UNCHANGED <<custody, job, rec, evidence>>

(* Mutant: a closure replaces a claim whose outcome is unknown.            *)
Mutant_Close(p, c) ==
    LET d == DispatchOf(p)
    IN
    /\ IF d \in DOMAIN rows /\ rows[d].record.state # "OUTCOME_UNKNOWN"
       THEN /\ IF rows[d] = [input |-> InputOf(p), record |-> ClosedRecord(c)]
               THEN Return(p, rows[d].record)
               ELSE Goto(p, "raised") /\ UNCHANGED rec
            /\ UNCHANGED rows
       ELSE Insert(InputOf(p), ClosedRecord(c)) /\ Return(p, ClosedRecord(c))
    /\ UNCHANGED <<file, job, evidence>>

(* The transaction of RunStore.close_prelaunch: an exact duplicate is      *)
(* answered, a claim or another closure refuses.                           *)
Close(p, c) ==
    LET d == DispatchOf(p)
    IN
    /\ IF d \in DOMAIN rows
       THEN /\ IF rows[d] = [input |-> InputOf(p), record |-> ClosedRecord(c)]
               THEN Return(p, rows[d].record)
               ELSE Goto(p, "raised") /\ UNCHANGED rec
            /\ UNCHANGED rows
       ELSE Insert(InputOf(p), ClosedRecord(c)) /\ Return(p, ClosedRecord(c))
    /\ UNCHANGED <<file, job, evidence>>

ClosePrelaunch(p) ==
    /\ pc[p] = "open"
    /\ job[p].command # "run"
    /\ Close(p, AttestedBy(job[p].closure))

(* run(): validation, then the retained record if there is one.            *)
Lookup(p) ==
    LET d == DispatchOf(p) IN
    /\ pc[p] = "open"
    /\ job[p].command = "run"
    /\ IF ~InputOf(p).valid \/ (d \in DOMAIN rows /\ rows[d].input # InputOf(p))
       THEN Goto(p, "refused") /\ UNCHANGED rec
       ELSE IF d \in DOMAIN rows THEN Return(p, rows[d].record)
       ELSE Goto(p, "preflight") /\ UNCHANGED rec
    /\ UNCHANGED <<custody, job, evidence>>

(* preflight_request, the workspace or the backend is refused.             *)
PreflightFails(p) ==
    /\ pc[p] = "preflight"
    /\ Goto(p, "refused")
    /\ UNCHANGED <<custody, job, rec, evidence>>

(* verify_backend could not capture the executable: the runner closes the  *)
(* dispatch itself.                                                        *)
CaptureFails(p) ==
    /\ pc[p] = "preflight"
    /\ Close(p, ObservedBy(p))

(* Mutant: a claim of unknown outcome is taken over.                       *)
Mutant_Claim(p) ==
    LET d == DispatchOf(p) IN
    /\ pc[p] = "preflight"
    /\ IF d \in DOMAIN rows /\ rows[d].record.state # "OUTCOME_UNKNOWN"
       THEN /\ IF rows[d].input = InputOf(p)
               THEN Return(p, rows[d].record)
               ELSE Goto(p, "raised") /\ UNCHANGED rec
            /\ UNCHANGED rows
       ELSE /\ Insert(InputOf(p), FreshRecord)
            /\ rec' = [rec EXCEPT ![p] = FreshRecord]
            /\ Goto(p, "claimed")
    /\ UNCHANGED <<file, job, evidence>>

(* The claim transaction.                                                  *)
Claim(p) ==
    LET d == DispatchOf(p) IN
    /\ pc[p] = "preflight"
    /\ IF d \in DOMAIN rows
       THEN /\ IF rows[d].input = InputOf(p)
               THEN Return(p, rows[d].record)
               ELSE Goto(p, "raised") /\ UNCHANGED rec
            /\ UNCHANGED rows
       ELSE /\ Insert(InputOf(p), FreshRecord)
            /\ rec' = [rec EXCEPT ![p] = FreshRecord]
            /\ Goto(p, "claimed")
    /\ UNCHANGED <<file, job, evidence>>

----------------------------------------------------------------------------
(* The turn of the invocation that claimed.                                *)

(* The client is constructed outside the try block.                        *)
ConstructFails(p) ==
    /\ Faults
    /\ pc[p] = "claimed"
    /\ Goto(p, "raised")
    /\ UNCHANGED <<custody, job, rec, evidence>>

StartServer(p) ==
    /\ pc[p] = "claimed"
    /\ app' = [app EXCEPT ![p] = "running"]
    /\ Goto(p, "serving")
    /\ UNCHANGED <<custody, job, rec, wire, head, loss, mapper, contacts>>

(* Popen or the initialize exchange failed: start() quiesced what there is. *)
StartFails(p) ==
    /\ pc[p] = "claimed"
    /\ loss' = [loss EXCEPT ![p] = TRUE]
    /\ Goto(p, "ending")
    /\ UNCHANGED <<custody, job, rec, app, wire, head, mapper, contacts>>

(* Mutant: the thread stays in memory.                                     *)
Mutant_ThreadReply(p) ==
    /\ pc[p] = "serving"
    /\ rec' = [rec EXCEPT ![p].thread = TRUE]
    /\ Goto(p, "writing")
    /\ UNCHANGED <<custody, job, evidence>>

(* thread/start answered; the thread is durable before the turn.           *)
ThreadReply(p) ==
    /\ pc[p] = "serving"
    /\ Update(p, [rec[p] EXCEPT !.thread = TRUE])
    /\ Goto(p, "writing")
    /\ UNCHANGED <<file, job, evidence>>

(* The write of turn/start is complete: from here on the provider may be   *)
(* at work.  The request may be larger than a pipe holds, and nothing      *)
(* bounds the write while the server lives and does not read.              *)
SendTurn(p) ==
    /\ pc[p] = "writing"
    /\ app[p] = "running"
    /\ app' = [app EXCEPT ![p] = "turn"]
    /\ contacts' = [contacts EXCEPT ![DispatchOf(p)] = @ + 1]
    /\ Goto(p, "turnsent")
    /\ UNCHANGED <<custody, job, rec, wire, head, loss, mapper>>

TurnReply(p) ==
    /\ pc[p] = "turnsent"
    /\ Update(p, [rec[p] EXCEPT !.turn = TRUE])
    /\ mapper' = [mapper EXCEPT ![p] = NewMapper]
    /\ Goto(p, "watching")
    /\ UNCHANGED <<file, job, app, wire, head, loss, contacts>>

(* The reply was taken over, but the update failed.                        *)
ReplyUpdateFails(p) ==
    /\ Faults
    /\ \/ pc[p] = "serving" /\ rec' = [rec EXCEPT ![p].thread = TRUE]
       \/ pc[p] = "turnsent" /\ rec' = [rec EXCEPT ![p].turn = TRUE]
    /\ Goto(p, "ending")
    /\ UNCHANGED <<custody, job, evidence>>

(* The envelopes were consumed, but the update after them failed.          *)
DrainUpdateFails(p) ==
    /\ Faults
    /\ pc[p] = "watching"
    /\ head' = [head EXCEPT ![p] = Len(wire[p])]
    /\ mapper' = [mapper EXCEPT ![p] = MarkLoss(Drained(p))]
    /\ Goto(p, "ending")
    /\ UNCHANGED <<custody, job, rec, app, wire, loss, contacts>>

(* A request is not taken for the wire, cannot be written, is not answered *)
(* in time, is refused or answered out of bounds, or the deadline of the   *)
(* turn passes.                                                            *)
OperationFails(p) ==
    /\ pc[p] \in Serving
    /\ mapper' = [mapper EXCEPT ![p] = MarkLoss(@)]
    /\ Goto(p, "ending")
    /\ UNCHANGED <<custody, job, rec, app, wire, head, loss, contacts>>

(* One round of the loop; run() leaves it when the mechanism is closed.    *)
Drain(p) ==
    LET m == Drained(p) IN
    /\ pc[p] = "watching"
    /\ head[p] < Len(wire[p])
    /\ head' = [head EXCEPT ![p] = Len(wire[p])]
    /\ mapper' = [mapper EXCEPT ![p] = m]
    /\ Goto(p, IF m.mech \in {"DISPATCHING", "RUNNING"} THEN "watching" ELSE "ending")
    /\ UNCHANGED <<custody, job, rec, app, wire, loss, contacts>>

(* An interrupt has no handler, only the finally clause; it may hit        *)
(* drain() between taking the envelopes and consuming them.                *)
Interrupt(p) ==
    /\ Faults
    /\ pc[p] \in Serving
    /\ head' \in {head, [head EXCEPT ![p] = IF pc[p] = "watching" THEN Len(wire[p]) ELSE @]}
    /\ Goto(p, "ending")
    /\ UNCHANGED <<custody, job, rec, app, wire, loss, mapper, contacts>>

(* Mutant: the cut waits for the server however long it takes.             *)
Mutant_Quiesce(p) ==
    /\ pc[p] = "ending"
    /\ app[p] \in {"none", "exited"}
    /\ Goto(p, "cut")
    /\ UNCHANGED <<custody, job, rec, evidence>>

(* quiesce_acquisition: a server that does not exit by itself is stopped,  *)
(* which is a loss.                                                        *)
Quiesce(p) ==
    LET alive == app[p] \in {"running", "turn"} IN
    /\ pc[p] = "ending"
    /\ app' = [app EXCEPT ![p] = IF alive THEN "exited" ELSE @]
    /\ loss' = [loss EXCEPT ![p] = @ \/ alive]
    /\ Goto(p, "cut")
    /\ UNCHANGED <<custody, job, rec, wire, head, mapper, contacts>>

(* The exit cannot be confirmed: the server lives on.                      *)
QuiesceUnconfirmed(p) ==
    /\ Faults
    /\ pc[p] = "ending"
    /\ loss' = [loss EXCEPT ![p] = TRUE]
    /\ Goto(p, "cut")
    /\ UNCHANGED <<custody, job, rec, app, wire, head, mapper, contacts>>

(* The finally clause: the last envelopes, the cut and the final record.   *)
FinalUpdate(p) ==
    LET m == IF mapper[p].mech = "NONE" THEN mapper[p] ELSE Drained(p)
        k == [rec[p] EXCEPT !.ended = TRUE, !.state = Outcome(p, m)]
    IN
    /\ pc[p] = "cut"
    /\ Update(p, k)
    /\ mapper' = [mapper EXCEPT ![p] = m]
    /\ head' = [head EXCEPT ![p] = IF m.mech = "NONE" THEN @ ELSE Len(wire[p])]
    /\ Goto(p, "returned")
    /\ UNCHANGED <<file, job, app, wire, loss, contacts>>

FinalFails(p) ==
    /\ Faults
    /\ pc[p] \in {"ending", "cut"}
    /\ Goto(p, "raised")
    /\ UNCHANGED <<custody, job, rec, evidence>>

Crash(p) ==
    /\ Faults
    /\ pc[p] \in (Opening \cup Working) \ {"idle"}
    /\ Goto(p, "crashed")
    /\ UNCHANGED <<custody, job, rec, evidence>>

(* The App Server reports an event of its turn, whoever still listens; the *)
(* bounded acquisition may lose it, with or without a trace in the queue.  *)
ServerEmit(p) ==
    /\ app[p] = "turn"
    /\ Len(wire[p]) < MaxEvents
    /\ \E e \in Events, as \in IF Faults THEN {"MESSAGE", "LOSS", "MISSING"} ELSE {"MESSAGE"} :
            /\ wire' = [wire EXCEPT ![p] = Append(@, [event |-> e, as |-> as])]
            /\ loss' = [loss EXCEPT ![p] = @ \/ as # "MESSAGE"]
    /\ UNCHANGED <<custody, pc, job, rec, app, head, mapper, contacts>>

ServerExit(p) ==
    /\ app[p] \in {"running", "turn"}
    /\ app' = [app EXCEPT ![p] = "exited"]
    /\ UNCHANGED <<custody, pc, job, rec, wire, head, loss, mapper, contacts>>

Terminating ==
    /\ \A p \in Proc : pc[p] \in Stopped /\ app[p] \in {"none", "exited"}
    /\ UNCHANGED vars

Command(p) ==
    \/ RefuseClosure(p) \/ Open(p) \/ CreateTable(p) \/ CheckTable(p) \/ OpenFails(p)
    \/ ClosePrelaunch(p) \/ Lookup(p) \/ PreflightFails(p) \/ CaptureFails(p) \/ Claim(p)
    \/ ConstructFails(p) \/ StartServer(p) \/ StartFails(p) \/ ThreadReply(p)
    \/ SendTurn(p) \/ TurnReply(p) \/ ReplyUpdateFails(p) \/ DrainUpdateFails(p)
    \/ OperationFails(p)
    \/ Drain(p) \/ Interrupt(p) \/ Quiesce(p) \/ QuiesceUnconfirmed(p)
    \/ FinalUpdate(p) \/ FinalFails(p)

Next == \/ \E p \in Proc : Command(p) \/ Crash(p) \/ ServerEmit(p) \/ ServerExit(p)
        \/ Terminating

Spec == Init /\ [][Next]_vars

(* The steps that wait for nobody: every answer and the turn have a        *)
(* timeout, and the cut is bounded.  The write of turn/start has none, and *)
(* nothing is assumed of a command that is in it.                          *)
Progress(p) ==
    \/ RefuseClosure(p) \/ Open(p) \/ CreateTable(p) \/ CheckTable(p)
    \/ ClosePrelaunch(p) \/ Lookup(p) \/ Claim(p)
    \/ StartFails(p) \/ (OperationFails(p) /\ pc[p] # "writing")
    \/ Quiesce(p) \/ FinalUpdate(p)

(* Nothing is assumed of the App Server, the provider or the owner.        *)
FairSpec == Spec /\ \A p \in Proc : WF_vars(Progress(p))

----------------------------------------------------------------------------
(* Properties.                                                             *)

(* No dispatch is sent to the provider twice, whatever restarts, races of  *)
(* run with run or of run with close-prelaunch and crashes happen; one     *)
(* that was closed before launch is never sent at all.                     *)
OneTurnPerDispatch ==
    \A d \in Dispatch :
        /\ contacts[d] <= 1
        /\ d \in DOMAIN rows /\ rows[d].record.state = "PRELAUNCH_CLOSED" => contacts[d] = 0

(* A turn is at work only under a claim that already retains its thread,   *)
(* so reconcile can find it after a crash; a retained turn was sent.       *)
TurnIsUnderRetainedThread ==
    \A d \in Dispatch :
        /\ contacts[d] > 0 => d \in DOMAIN rows /\ rows[d].record.thread
        /\ d \in DOMAIN rows /\ rows[d].record.turn =>
               rows[d].record.thread /\ contacts[d] = 1

Reported(p, from, to) == {wire[p][j].event : j \in from .. to}

(* What the App Server of p really did, heard or not, is one admitted turn *)
(* that ended with status e.                                               *)
EndedWith(p, e) ==
    LET n == Len(wire[p])
    IN  n > 1 /\ wire[p][n].event = e /\ Reported(p, 1, n - 1) = {"ADMITTED"}

(* What it really did is one refusal, and no request after it.             *)
OnlyRefused(p) ==
    LET n == Len(wire[p])
    IN  n > 0 /\ wire[p][1].event = "REFUSED" /\ Reported(p, 2, n) \subseteq TurnEnds

(* A known outcome in the store is what really happened to the one turn of *)
(* the dispatch, up to the exit of its App Server: nothing that was lost,  *)
(* reordered or arrived after the loop, no hidden retry after a refusal    *)
(* and no later event can contradict it.                                   *)
KnownOutcomeIsTrue ==
    \A d \in DOMAIN rows :
        rows[d].record.state \in Known =>
            \E p \in Proc :
                /\ DispatchOf(p) = d
                /\ app[p] = "exited"
                /\ IF rows[d].record.state = "NOT_ADMITTED_MODEL_AT_CAPACITY"
                   THEN OnlyRefused(p)
                   ELSE \E e \in TurnEnds \ {"other"} :
                            StateOf(e) = rows[d].record.state /\ EndedWith(p, e)

Final(k) == k.ended \/ k.state = "PRELAUNCH_CLOSED"

(* A final record any invocation answered with is the retained one, so all *)
(* who ask for one dispatch are told the same.                             *)
AnswersAreRetained ==
    \A p \in Proc :
        pc[p] = "returned" /\ Final(rec[p]) =>
            DispatchOf(p) \in DOMAIN rows /\ rows[DispatchOf(p)].record = rec[p]

(* The store never drops a row, never exchanges its input, never reopens a *)
(* closed or ended record and never retracts a retained thread or turn.    *)
RowsNeverLostOrReopened ==
    [][\A d \in DOMAIN rows :
          LET old == rows[d].record
          IN  /\ d \in DOMAIN rows'
              /\ rows'[d].input = rows[d].input
              /\ Final(old) => rows'[d].record = old
              /\ old.thread => rows'[d].record.thread
              /\ old.turn => rows'[d].record.turn]_rows

CustodyOf(d) ==
    IF d \notin DOMAIN rows THEN "ABSENT"
    ELSE IF rows[d].record.state = "PRELAUNCH_CLOSED" THEN "CLOSED"
    ELSE IF rows[d].record.state \in Known THEN "ANSWERED"
    ELSE "CLAIMED"

Custody == INSTANCE DispatchCustody WITH
               custody <- [d \in Dispatch |-> CustodyOf(d)]

(* The runner implements the one-shot custody of a dispatch: even a        *)
(* refusal for capacity is an answer of the provider to the one turn.      *)
ImplementsCustody == Custody!Spec

(* While nothing crashes, every command ends and with it the App Server it *)
(* started, although that server may be silent or busy for ever, unless it *)
(* is held for ever in the write of turn/start: no other wait of run() is  *)
(* without an end.                                                         *)
EveryCommandEnds ==
    \A p \in Proc : \/ <>(pc[p] \in Stopped /\ app[p] \in {"none", "exited"})
                   \/ <>[](pc[p] = "writing")

============================================================================
