----------------------------- MODULE DirectApi -----------------------------
(***************************************************************************)
(* The direct API bridge (direct_api.py): several invocations of run()     *)
(* share one SQLite store, each claims its dispatch, contacts the provider *)
(* through one isolated child process and records what it observed.        *)
(*                                                                         *)
(* A process is one invocation of run(); a restarted bridge is another     *)
(* process that may present the same request.  A crash stops a process     *)
(* where it stands and leaves its child to itself.                         *)
(***************************************************************************)
EXTENDS Integers, FiniteSets, Functions

CONSTANTS
    Proc,           \* invocations of run()
    Requests,       \* the requests they may present
    Answers,        \* what the isolated transport may hand back
    MicrosCap,      \* upper limit of every price, budget and reservation
    Faults          \* TRUE: crashes, storage errors and unstoppable children

Dispatch == {r.dispatch : r \in Requests}

(* The reservation_scope digest: one per account, owner and budget id.     *)
Scope == {r.scope : r \in Requests}

(* Usage is recorded only when all of its numbers are there.               *)
Unobserved == [observed |-> FALSE, prompt |-> 0, completion |-> 0, total |-> 0]

Usage ==
    {Unobserved} \cup [observed : {TRUE}, prompt : Nat, completion : Nat, total : Nat]

(* What the runtime can tell apart in an answer of the transport.  A       *)
(* canonical answer has only values that RFC 8785 can write; json.loads    *)
(* also yields NaN, huge integers and lone surrogates, which it cannot.    *)
Answer ==
    [kind      : {"RESPONSE", "OVER_BOUND", "TIMEOUT", "FAILED"},
     status    : Nat,
     body      : {"MALFORMED", "OTHER_MODEL", "NO_CHOICE", "NO_OUTPUT", "TEXT"},
     usage     : Usage,
     canonical : BOOLEAN]

Request ==
    [dispatch : Dispatch, scope : Scope, schema : {"v1", "v2", "v3"},
     bound : BOOLEAN,
     input : Nat, format : Nat, maxInput : Nat,
     maxPrompt : Nat, maxCompletion : Nat, maxTotal : Nat,
     promptPrice : Nat, completionPrice : Nat,
     reserved : Nat, budget : Nat, maxConcurrent : Nat]

ASSUME RequestsAssumption == Requests \subseteq Request
ASSUME AnswersAssumption == Answers \subseteq Answer
ASSUME FaultsAssumption == Faults \in BOOLEAN
ASSUME ProcAssumption == IsFiniteSet(Proc)

----------------------------------------------------------------------------
(* Admission of a request.                                                 *)

Enrolled(r) == r.schema \in {"v2", "v3"}

(* The price of a token envelope, in micro-units.                          *)
Priced(r, prompt, completion) ==
    prompt * r.promptPrice + completion * r.completionPrice

TokenLimitsHold(r) ==
    /\ {r.maxPrompt, r.maxCompletion, r.maxTotal} \subseteq 1..2000000
    /\ r.maxPrompt + r.maxCompletion <= r.maxTotal
    /\ r.maxInput + 512 <= r.maxPrompt

SpendLimitsHold(r) ==
    /\ r.maxConcurrent \in 1..64
    /\ {r.budget, r.reserved, r.promptPrice, r.completionPrice} \subseteq 1..MicrosCap
    /\ r.reserved <= r.budget
    /\ r.reserved = Priced(r, r.maxPrompt, r.maxCompletion)

InputLimitsHold(r) ==
    /\ r.maxInput \in 1..1048576
    /\ r.input <= r.maxInput

FormatLimitsHold(r) ==
    /\ r.format <= 65536
    /\ r.input + r.format + 512 <= r.maxPrompt

(* "bound" stands for the digests, closed field sets and identities that   *)
(* tie the request, the admitted input and the owner binding together.     *)
Valid(r) ==
    /\ r.bound
    /\ InputLimitsHold(r)
    /\ Enrolled(r) => TokenLimitsHold(r) /\ SpendLimitsHold(r)
    /\ r.schema = "v3" => FormatLimitsHold(r)

----------------------------------------------------------------------------
(* The store.  A table is a function on the keys of its rows.              *)

VARIABLES
    runs,           \* direct_api_runs: dispatch -> request and record
    reservations,   \* direct_api_reservations: dispatch -> scope, amount, active
    config,         \* direct_api_budget_config: scope -> pinned ledger terms
    pc,             \* where each invocation stands
    req,            \* the request each invocation presents
    rec,            \* its in-memory record
    child,          \* its isolated transport child
    contacts        \* HTTP requests sent for each dispatch

store == <<runs, reservations, config>>
vars == <<runs, reservations, config, pc, req, rec, child, contacts>>

Put(table, key, row) ==
    [k \in DOMAIN table \cup {key} |-> IF k = key THEN row ELSE table[k]]

Ledger(r) == [maxConcurrent |-> r.maxConcurrent, budget |-> r.budget,
              promptPrice |-> r.promptPrice, completionPrice |-> r.completionPrice]

ReservedFor(s) == {d \in DOMAIN reservations : reservations[d].scope = s}

ActiveFor(s) == {d \in ReservedFor(s) : reservations[d].active}

(* Mutant: the sum forgets the reservations whose slot was given back.      *)
Mutant_TotalReserved(s) ==
    SumFunctionOnSet([d \in DOMAIN reservations |-> reservations[d].reserved],
                     ActiveFor(s))

TotalReserved(s) ==
    SumFunctionOnSet([d \in DOMAIN reservations |-> reservations[d].reserved],
                     ReservedFor(s))

(* Mutants: the limit compared with > instead of >=; terms never compared. *)
Mutant_LedgerAdmits_limit(r) ==
    /\ r.scope \in DOMAIN config => config[r.scope] = Ledger(r)
    /\ Cardinality(ActiveFor(r.scope)) <= r.maxConcurrent
    /\ TotalReserved(r.scope) + r.reserved <= r.budget

Mutant_LedgerAdmits_terms(r) ==
    /\ Cardinality(ActiveFor(r.scope)) < r.maxConcurrent
    /\ TotalReserved(r.scope) + r.reserved <= r.budget

(* The checks of the claim transaction on the budget ledger.               *)
LedgerAdmits(r) ==
    /\ r.scope \in DOMAIN config => config[r.scope] = Ledger(r)
    /\ Cardinality(ActiveFor(r.scope)) < r.maxConcurrent
    /\ TotalReserved(r.scope) + r.reserved <= r.budget

----------------------------------------------------------------------------
(* Records.                                                                *)

States ==
    {"OUTCOME_UNKNOWN", "CANCELLED_BEFORE_CONTACT", "AUTHENTICATION_UNAVAILABLE",
     "TRANSPORT_OUTCOME_UNKNOWN", "LOCAL_TIMEOUT_OUTCOME_UNKNOWN",
     "CANCELLED_AFTER_CONTACT_OUTCOME_UNKNOWN", "RESPONSE_OVER_BOUND",
     "AUTHENTICATION_FAILED", "QUOTA_EXHAUSTED", "RATE_OR_CAPACITY_REFUSED",
     "PROVIDER_CAPACITY_UNAVAILABLE", "PROVIDER_TIMEOUT_OUTCOME_UNKNOWN",
     "PROVIDER_REFUSED", "MALFORMED_RESPONSE_OUTCOME_UNKNOWN",
     "MODEL_IDENTITY_MISMATCH", "OUTPUT_UNAVAILABLE_OR_OVER_BOUND",
     "TOKEN_USAGE_OVER_BOUND", "PROVIDER_COMPLETED"}

Record ==
    [state     : States,
     contact   : {"NOT_CONTACTED", "CONTACT_STARTED_OUTCOME_UNKNOWN",
                  "RESPONSE_OBSERVED"},
     usage     : Usage,
     canonical : BOOLEAN,
     ended     : BOOLEAN]

(* The states whose name ends in OUTCOME_UNKNOWN.                          *)
UnknownStates ==
    {"OUTCOME_UNKNOWN", "TRANSPORT_OUTCOME_UNKNOWN",
     "LOCAL_TIMEOUT_OUTCOME_UNKNOWN", "CANCELLED_AFTER_CONTACT_OUTCOME_UNKNOWN",
     "PROVIDER_TIMEOUT_OUTCOME_UNKNOWN", "MALFORMED_RESPONSE_OUTCOME_UNKNOWN"}

FreshRecord ==
    [state |-> "OUTCOME_UNKNOWN", contact |-> "NOT_CONTACTED",
     usage |-> Unobserved, canonical |-> TRUE, ended |-> FALSE]

(* The condition under which run() gives the concurrency slot back.        *)
OutcomeKnown(k) ==
    /\ k.contact # "CONTACT_STARTED_OUTCOME_UNKNOWN"
    /\ k.state \notin UnknownStates

StatusState(status) ==
    CASE status \in {401, 403} -> "AUTHENTICATION_FAILED"
      [] status = 402          -> "QUOTA_EXHAUSTED"
      [] status = 429          -> "RATE_OR_CAPACITY_REFUSED"
      [] status = 503          -> "PROVIDER_CAPACITY_UNAVAILABLE"
      [] status \in {408, 504} -> "PROVIDER_TIMEOUT_OUTCOME_UNKNOWN"
      [] OTHER                 -> "PROVIDER_REFUSED"

Uncertain(k, state) == [k EXCEPT !.state = state]

Observed(k, state) ==
    [k EXCEPT !.state = state, !.contact = "RESPONSE_OBSERVED"]

UsageOverBound(r, u) ==
    \/ u.prompt > r.maxPrompt
    \/ u.completion > r.maxCompletion
    \/ u.total > r.maxTotal

(* A body of status 200.  From the model check on, the record retains      *)
(* values of the response, which may not be canonical.                     *)
CompletionRecord(r, k, a) ==
    LET kept == [k EXCEPT !.canonical = a.canonical]
        read == [kept EXCEPT !.usage = a.usage]
    IN  CASE a.body = "MALFORMED"   -> Observed(k, "MALFORMED_RESPONSE_OUTCOME_UNKNOWN")
          [] a.body = "OTHER_MODEL" -> Observed(kept, "MODEL_IDENTITY_MISMATCH")
          [] a.body = "NO_CHOICE"   -> Observed(kept, "MALFORMED_RESPONSE_OUTCOME_UNKNOWN")
          [] a.body = "NO_OUTPUT"   -> Observed(kept, "OUTPUT_UNAVAILABLE_OR_OVER_BOUND")
          [] a.body = "TEXT" ->
                IF a.usage.observed /\ Enrolled(r) /\ UsageOverBound(r, a.usage)
                THEN Observed(read, "TOKEN_USAGE_OVER_BOUND")
                ELSE Observed(read, "PROVIDER_COMPLETED")

(* Mutant: a failed transport is taken for a refusal by the provider.      *)
Mutant_AnswerRecord(r, k, a, cancelled) ==
    CASE a.kind = "TIMEOUT"    -> Uncertain(k, "LOCAL_TIMEOUT_OUTCOME_UNKNOWN")
      [] a.kind = "OVER_BOUND" -> Observed(k, "RESPONSE_OVER_BOUND")
      [] OTHER -> IF cancelled THEN Uncertain(k, "CANCELLED_AFTER_CONTACT_OUTCOME_UNKNOWN")
                  ELSE IF a.status # 200 THEN Observed(k, StatusState(a.status))
                  ELSE CompletionRecord(r, k, a)

(* The record run() keeps of an answer, cancellation being asked for at    *)
(* that moment or not.                                                     *)
AnswerRecord(r, k, a, cancelled) ==
    CASE a.kind = "FAILED"     -> Uncertain(k, "TRANSPORT_OUTCOME_UNKNOWN")
      [] a.kind = "TIMEOUT"    -> Uncertain(k, "LOCAL_TIMEOUT_OUTCOME_UNKNOWN")
      [] a.kind = "OVER_BOUND" -> Observed(k, "RESPONSE_OVER_BOUND")
      [] a.kind = "RESPONSE"   ->
            IF cancelled THEN Uncertain(k, "CANCELLED_AFTER_CONTACT_OUTCOME_UNKNOWN")
            ELSE IF a.status # 200 THEN Observed(k, StatusState(a.status))
            ELSE CompletionRecord(r, k, a)

----------------------------------------------------------------------------
(* The invocations.                                                        *)

Active == {"claimed", "marked", "waiting", "ending", "closing"}
Stopped == {"refused", "duplicate", "returned", "raised", "crashed"}

TypeOK ==
    /\ DOMAIN runs \subseteq Dispatch
    /\ runs \in [DOMAIN runs -> [request : Requests, record : Record]]
    /\ DOMAIN reservations \subseteq Dispatch
    /\ reservations \in [DOMAIN reservations ->
                            [scope : Scope, reserved : Nat, active : BOOLEAN]]
    /\ DOMAIN config \subseteq Scope
    /\ config \in [DOMAIN config -> [maxConcurrent : Nat, budget : Nat,
                                     promptPrice : Nat, completionPrice : Nat]]
    /\ pc \in [Proc -> {"idle"} \cup Active \cup Stopped]
    /\ req \in [Proc -> Requests]
    /\ rec \in [Proc -> Record]
    /\ child \in [Proc -> {"none", "spawned", "sent", "gone"}]
    /\ contacts \in [Dispatch -> Nat]

EmptyTable == [k \in {} |-> k]

Init ==
    /\ runs = EmptyTable
    /\ reservations = EmptyTable
    /\ config = EmptyTable
    /\ pc = [p \in Proc |-> "idle"]
    /\ req \in [Proc -> Requests]
    /\ rec = [p \in Proc |-> FreshRecord]
    /\ child = [p \in Proc |-> "none"]
    /\ contacts = [d \in Dispatch |-> 0]

Goto(p, label) == pc' = [pc EXCEPT ![p] = label]

(* run() goes to its finally clause with this record.                      *)
EndWith(p, k) ==
    /\ rec' = [rec EXCEPT ![p] = k]
    /\ Goto(p, "ending")

(* validate() or the claim transaction refuses: nothing is retained.       *)
Refuse(p) ==
    LET r == req[p] IN
    /\ pc[p] = "idle"
    /\ \/ ~Valid(r)
       \/ r.dispatch \in DOMAIN runs /\ runs[r.dispatch].request # r
       \/ r.dispatch \notin DOMAIN runs /\ Enrolled(r) /\ ~LedgerAdmits(r)
       \/ Faults
    /\ Goto(p, "refused")
    /\ UNCHANGED <<store, req, rec, child, contacts>>

(* Mutant: an invocation takes a dispatch of unknown outcome up again.     *)
Mutant_Duplicate(p) ==
    LET r == req[p] IN
    /\ pc[p] = "idle"
    /\ Valid(r)
    /\ r.dispatch \in DOMAIN runs
    /\ runs[r.dispatch].request = r
    /\ rec' = [rec EXCEPT ![p] = runs[r.dispatch].record]
    /\ Goto(p, IF runs[r.dispatch].record.state = "OUTCOME_UNKNOWN"
               THEN "claimed" ELSE "duplicate")
    /\ UNCHANGED <<store, req, child, contacts>>

(* A dispatch claimed before: the retained record is the answer.           *)
Duplicate(p) ==
    LET r == req[p] IN
    /\ pc[p] = "idle"
    /\ Valid(r)
    /\ r.dispatch \in DOMAIN runs
    /\ runs[r.dispatch].request = r
    /\ rec' = [rec EXCEPT ![p] = runs[r.dispatch].record]
    /\ Goto(p, "duplicate")
    /\ UNCHANGED <<store, req, child, contacts>>

(* The claim transaction: ledger terms, run and reservation together.      *)
Claim(p) ==
    LET r == req[p] IN
    /\ pc[p] = "idle"
    /\ Valid(r)
    /\ r.dispatch \notin DOMAIN runs
    /\ Enrolled(r) => LedgerAdmits(r)
    /\ runs' = Put(runs, r.dispatch, [request |-> r, record |-> FreshRecord])
    /\ IF Enrolled(r)
       THEN /\ config' = Put(config, r.scope, Ledger(r))
            /\ reservations' = Put(reservations, r.dispatch,
                    [scope |-> r.scope, reserved |-> r.reserved, active |-> TRUE])
       ELSE UNCHANGED <<config, reservations>>
    /\ rec' = [rec EXCEPT ![p] = FreshRecord]
    /\ Goto(p, "claimed")
    /\ UNCHANGED <<req, child, contacts>>

(* Mutant: a state outside the closed vocabulary of records.               *)
Mutant_CancelBeforeContact(p) ==
    /\ pc[p] = "claimed"
    /\ EndWith(p, Uncertain(rec[p], "CANCELLED"))
    /\ UNCHANGED <<store, req, child, contacts>>

CancelBeforeContact(p) ==
    /\ pc[p] = "claimed"
    /\ EndWith(p, Uncertain(rec[p], "CANCELLED_BEFORE_CONTACT"))
    /\ UNCHANGED <<store, req, child, contacts>>

NoCredential(p) ==
    /\ pc[p] = "claimed"
    /\ EndWith(p, Uncertain(rec[p], "AUTHENTICATION_UNAVAILABLE"))
    /\ UNCHANGED <<store, req, child, contacts>>

(* A callback of the caller (cancellation, credential) raises.             *)
CallbackRaises(p) ==
    /\ pc[p] = "claimed"
    /\ EndWith(p, Uncertain(rec[p], "TRANSPORT_OUTCOME_UNKNOWN"))
    /\ UNCHANGED <<store, req, child, contacts>>

ContactStarted(k) == [k EXCEPT !.contact = "CONTACT_STARTED_OUTCOME_UNKNOWN"]

(* Mutant: the mark stays in memory.                                       *)
Mutant_MarkContact(p) ==
    /\ pc[p] = "claimed"
    /\ rec' = [rec EXCEPT ![p] = ContactStarted(@)]
    /\ Goto(p, "marked")
    /\ UNCHANGED <<store, req, child, contacts>>

(* The durable mark that precedes contact.                                 *)
MarkContact(p) ==
    LET d == req[p].dispatch IN
    /\ pc[p] = "claimed"
    /\ rec' = [rec EXCEPT ![p] = ContactStarted(@)]
    /\ runs' = [runs EXCEPT ![d].record = ContactStarted(rec[p])]
    /\ Goto(p, "marked")
    /\ UNCHANGED <<reservations, config, req, child, contacts>>

MarkContactFails(p) ==
    /\ Faults
    /\ pc[p] = "claimed"
    /\ EndWith(p, Uncertain(ContactStarted(rec[p]), "TRANSPORT_OUTCOME_UNKNOWN"))
    /\ UNCHANGED <<store, req, child, contacts>>

Spawn(p) ==
    /\ pc[p] = "marked"
    /\ child' = [child EXCEPT ![p] = "spawned"]
    /\ Goto(p, "waiting")
    /\ UNCHANGED <<store, req, rec, contacts>>

SpawnFails(p) ==
    /\ pc[p] = "marked"
    /\ EndWith(p, Uncertain(rec[p], "TRANSPORT_OUTCOME_UNKNOWN"))
    /\ UNCHANGED <<store, req, child, contacts>>

(* The child performs its one HTTP request, its parent alive or not.       *)
ChildSend(p) ==
    /\ child[p] = "spawned"
    /\ child' = [child EXCEPT ![p] = "sent"]
    /\ contacts' = [contacts EXCEPT ![req[p].dispatch] = @ + 1]
    /\ UNCHANGED <<store, pc, req, rec>>

(* The child wrote its result and exited.  Only a child that sent its      *)
(* request has a response to hand over.                                    *)
ParentAnswer(p) ==
    /\ pc[p] = "waiting"
    /\ \E a \in Answers, cancelled \in BOOLEAN :
            /\ a.kind \in {"RESPONSE", "OVER_BOUND"} => child[p] = "sent"
            /\ EndWith(p, AnswerRecord(req[p], rec[p], a, cancelled))
    /\ child' = [child EXCEPT ![p] = "gone"]
    /\ UNCHANGED <<store, req, contacts>>

(* The parent gives up on its child and stops it first.                    *)
ParentStops(p, state) ==
    /\ pc[p] = "waiting"
    /\ EndWith(p, Uncertain(rec[p], state))
    /\ child' = [child EXCEPT ![p] = "gone"]
    /\ UNCHANGED <<store, req, contacts>>

ParentCancel(p) == ParentStops(p, "CANCELLED_AFTER_CONTACT_OUTCOME_UNKNOWN")

(* Mutant: the deadline is looked at only once the child has sent.         *)
Mutant_ParentTimeout(p) ==
    child[p] = "sent" /\ ParentStops(p, "LOCAL_TIMEOUT_OUTCOME_UNKNOWN")

ParentTimeout(p) == ParentStops(p, "LOCAL_TIMEOUT_OUTCOME_UNKNOWN")

(* A child that survives SIGKILL for a second: wait() raises, the parent   *)
(* goes on and the child stays.                                            *)
StopStalls(p) ==
    /\ Faults
    /\ pc[p] = "waiting"
    /\ EndWith(p, Uncertain(rec[p], "TRANSPORT_OUTCOME_UNKNOWN"))
    /\ UNCHANGED <<store, req, child, contacts>>

(* KeyboardInterrupt or SystemExit: no handler, but the finally clause.    *)
Interrupt(p) ==
    /\ pc[p] \in {"claimed", "marked", "waiting"}
    /\ EndWith(p, rec[p])
    /\ child' = [child EXCEPT ![p] = IF @ = "none" THEN @ ELSE "gone"]
    /\ UNCHANGED <<store, req, contacts>>

(* Mutants: the slot is given back whatever the outcome, or only after a   *)
(* response.                                                               *)
Mutant_AfterFinal_always(k) == "closing"

Mutant_AfterFinal_response(k) ==
    IF k.contact = "RESPONSE_OBSERVED" /\ k.state \notin UnknownStates
    THEN "closing" ELSE "returned"

(* Where run() goes once the final record is stored.                       *)
AfterFinal(k) == IF OutcomeKnown(k) THEN "closing" ELSE "returned"

Ended(k) == [k EXCEPT !.ended = TRUE]

(* The finally clause: the final record is one transaction ...             *)
FinalUpdate(p) ==
    LET d == req[p].dispatch
        k == Ended(rec[p])
    IN
    /\ pc[p] = "ending"
    /\ k.canonical
    /\ rec' = [rec EXCEPT ![p] = k]
    /\ runs' = [runs EXCEPT ![d].record = k]
    /\ Goto(p, AfterFinal(k))
    /\ UNCHANGED <<reservations, config, req, child, contacts>>

FinalUpdateFails(p) ==
    /\ pc[p] = "ending"
    /\ Faults \/ ~rec[p].canonical
    /\ Goto(p, "raised")
    /\ UNCHANGED <<store, req, rec, child, contacts>>

(* Mutant: completion gives the money back as well.                        *)
Mutant_CloseSlot(p) ==
    LET d == req[p].dispatch IN
    /\ pc[p] = "closing"
    /\ reservations' = IF d \in DOMAIN reservations
                       THEN [reservations EXCEPT ![d].active = FALSE, ![d].reserved = 0]
                       ELSE reservations
    /\ Goto(p, "returned")
    /\ UNCHANGED <<runs, config, req, rec, child, contacts>>

(* ... and the slot is given back by another.                              *)
CloseSlot(p) ==
    LET d == req[p].dispatch IN
    /\ pc[p] = "closing"
    /\ reservations' = IF d \in DOMAIN reservations
                       THEN [reservations EXCEPT ![d].active = FALSE]
                       ELSE reservations
    /\ Goto(p, "returned")
    /\ UNCHANGED <<runs, config, req, rec, child, contacts>>

CloseSlotFails(p) ==
    /\ Faults
    /\ pc[p] = "closing"
    /\ Goto(p, "raised")
    /\ UNCHANGED <<store, req, rec, child, contacts>>

Crash(p) ==
    /\ Faults
    /\ pc[p] \in Active
    /\ Goto(p, "crashed")
    /\ UNCHANGED <<store, req, rec, child, contacts>>

(* A child nobody waits for ends, with or without having sent.             *)
OrphanExit(p) ==
    /\ pc[p] # "waiting"
    /\ child[p] \in {"spawned", "sent"}
    /\ child' = [child EXCEPT ![p] = "gone"]
    /\ UNCHANGED <<store, pc, req, rec, contacts>>

(* Every invocation has ended and no child is left.                        *)
Terminating ==
    /\ \A p \in Proc : pc[p] \in Stopped /\ child[p] \in {"none", "gone"}
    /\ UNCHANGED vars

(* The steps run() takes by itself: all but crashes and the child's.       *)
Run(p) ==
    \/ Refuse(p) \/ Duplicate(p) \/ Claim(p)
    \/ CancelBeforeContact(p) \/ NoCredential(p) \/ CallbackRaises(p)
    \/ MarkContact(p) \/ MarkContactFails(p)
    \/ Spawn(p) \/ SpawnFails(p)
    \/ ParentAnswer(p) \/ ParentCancel(p) \/ ParentTimeout(p) \/ StopStalls(p)
    \/ Interrupt(p)
    \/ FinalUpdate(p) \/ FinalUpdateFails(p)
    \/ CloseSlot(p) \/ CloseSlotFails(p)

Next == \/ \E p \in Proc : Run(p) \/ ChildSend(p) \/ Crash(p) \/ OrphanExit(p)
        \/ Terminating

Spec == Init /\ [][Next]_vars

(* The steps that need nobody: validation, transactions bounded by the     *)
(* busy timeout, and the wait for the child bounded by its deadline.       *)
Progress(p) ==
    \/ Refuse(p) \/ Duplicate(p) \/ Claim(p)
    \/ MarkContact(p) \/ Spawn(p) \/ ParentTimeout(p)
    \/ FinalUpdate(p) \/ FinalUpdateFails(p) \/ CloseSlot(p)

(* Nothing is assumed of the child, the provider, the canceller or the     *)
(* operator.                                                               *)
FairSpec == Spec /\ \A p \in Proc : WF_vars(Progress(p))

----------------------------------------------------------------------------
(* Properties.                                                             *)

Stored(d) == runs[d].record

EnrolledRun(d) == Enrolled(runs[d].request)

(* The process that claimed d and has not stopped, if there is one.        *)
Owns(p, d) == pc[p] \in Active /\ req[p].dispatch = d

LiveChild(p) == child[p] \in {"spawned", "sent"}

(* At most one HTTP request is sent for a dispatch, over all invocations,  *)
(* restarts, crashes and orphaned children (docs/DIRECT_API_OPENROUTER.md, *)
(* "never regenerate"; direct_api.py claim and run).                       *)
AtMostOneContact == \A d \in Dispatch : contacts[d] <= 1

(* A dispatch the store calls NOT_CONTACTED, or does not hold at all, was  *)
(* not contacted: the mark is durable before the child exists, even when   *)
(* the parent dies or its mark fails to commit.                            *)
NotContactedIsTrue ==
    \A d \in Dispatch :
        (d \in DOMAIN runs => Stored(d).contact = "NOT_CONTACTED")
            => contacts[d] = 0

(* A request that may still be in flight is counted: while a transport     *)
(* child of an enrolled dispatch lives, orphans included, and for as long  *)
(* as its outcome is uncertain, its concurrency slot stays taken.          *)
InFlightHoldsSlot ==
    \A d \in DOMAIN runs :
        EnrolledRun(d) =>
            \/ reservations[d].active
            \/ /\ OutcomeKnown(Stored(d))
               /\ \A p \in Proc : req[p].dispatch = d => ~LiveChild(p)

(* The enrolled limit on concurrent requests holds for every scope, under  *)
(* the terms pinned for it, whatever the order of claims and endings.      *)
ConcurrencyRespected ==
    \A s \in DOMAIN config : Cardinality(ActiveFor(s)) <= config[s].maxConcurrent

(* Prices of what completed dispatches of a scope report having used.      *)
SpentOn(d) ==
    Priced(runs[d].request, Stored(d).usage.prompt, Stored(d).usage.completion)

CompletedFor(s) ==
    {d \in ReservedFor(s) : Stored(d).ended /\ Stored(d).state = "PROVIDER_COMPLETED"}

(* The observed usage of all dispatches recorded as completed in a scope,  *)
(* priced at the pinned terms, stays within the enrolled budget: it takes  *)
(* the token limits, the exact reservation, the ledger and the usage check *)
(* together.                                                               *)
SpendWithinBudget ==
    \A s \in DOMAIN config :
        SumFunctionOnSet([d \in CompletedFor(s) |-> SpentOn(d)], CompletedFor(s))
            <= config[s].budget

(* Every dispatch of a scope was admitted under the same pinned terms, and *)
(* a pinned scope has at least one: a refused claim pins nothing.          *)
LedgerAgrees ==
    /\ \A d \in DOMAIN runs : EnrolledRun(d) =>
            /\ d \in ReservedFor(runs[d].request.scope)
            /\ config[runs[d].request.scope] = Ledger(runs[d].request)
    /\ \A s \in DOMAIN config : ReservedFor(s) # {}

(* When nobody works on a dispatch any more and its outcome is known, its  *)
(* slot has been given back (docs/DIRECT_API_OPENROUTER.md, "Completion    *)
(* releases only the concurrency slot"; "Known terminal outcomes ... also  *)
(* release their active concurrency slot").                                *)
KnownOutcomeReleasesSlot ==
    \A d \in DOMAIN reservations :
        (/\ Stored(d).ended
         /\ OutcomeKnown(Stored(d))
         /\ \A p \in Proc : ~Owns(p, d))
            => ~reservations[d].active

(* What a step may never do to the store: drop or rewrite a retained       *)
(* request, shrink or move a monetary reservation, take a slot again,      *)
(* change pinned terms, or touch a record whose outcome was recorded.      *)
StoreMonotone ==
    /\ \A d \in DOMAIN runs :
        /\ d \in DOMAIN runs'
        /\ runs'[d].request = runs[d].request
        /\ Stored(d).ended => runs'[d] = runs[d]
    /\ \A d \in DOMAIN reservations :
        /\ d \in DOMAIN reservations'
        /\ reservations'[d].reserved = reservations[d].reserved
        /\ reservations'[d].scope = reservations[d].scope
        /\ reservations'[d].active => reservations[d].active
    /\ \A s \in DOMAIN config : s \in DOMAIN config' /\ config'[s] = config[s]

StoreNeverLosesOrReopens == [][StoreMonotone]_vars

(* Every invocation comes to an end, a silent child notwithstanding.       *)
EveryRunEnds == \A p \in Proc : <>(pc[p] \in Stopped)

(* The store, as the abstract specification reads it: an outcome is        *)
(* settled when it is recorded and known.                                  *)
CustodyOf(d) ==
    IF d \notin DOMAIN runs THEN "ABSENT"
    ELSE IF ~(Stored(d).ended /\ OutcomeKnown(Stored(d))) THEN "CLAIMED"
    ELSE IF Stored(d).contact = "NOT_CONTACTED" THEN "UNCONTACTED"
    ELSE "ANSWERED"

Custody == INSTANCE DispatchCustody
               WITH custody <- [d \in Dispatch |-> CustodyOf(d)]

(* run() and its store implement the one-shot custody of a dispatch.       *)
ImplementsCustody == Custody!Spec

============================================================================
