-------------------------- MODULE DirectApiProofs --------------------------
(***************************************************************************)
(* Theorems about DirectApi, for every set of invocations, requests and    *)
(* answers and with faults allowed.                                        *)
(***************************************************************************)
EXTENDS DirectApi, DataLemmas, TLAPS

----------------------------------------------------------------------------
(* The inductive invariant.                                                *)

(* Past the claim transaction: the invocations a dispatch belongs to.      *)
Claimants == Active \cup {"returned", "raised", "crashed"}

Contacted == "CONTACT_STARTED_OUTCOME_UNKNOWN"

(* A dispatch belongs to one invocation for good, and the store holds it.  *)
ClaimInv ==
    /\ \A p \in Proc : pc[p] \in Claimants =>
            /\ req[p].dispatch \in DOMAIN runs
            /\ runs[req[p].dispatch].request = req[p]
    /\ \A p, q \in Proc :
            (pc[p] \in Claimants /\ pc[q] \in Claimants
                /\ req[p].dispatch = req[q].dispatch) => p = q

(* The child of an invocation exists only after the durable mark; while it *)
(* lives the outcome is uncertain in memory and in the store.              *)
ChildInv ==
    /\ \A p \in Proc : child[p] # "none" =>
            /\ pc[p] \in Claimants \ {"claimed", "marked"}
            /\ runs[req[p].dispatch].record.contact # "NOT_CONTACTED"
            /\ pc[p] \in {"waiting", "ending"} => rec[p].contact # "NOT_CONTACTED"
    /\ \A p \in Proc : LiveChild(p) =>
            /\ runs[req[p].dispatch].record.contact = Contacted
            /\ pc[p] \in {"waiting", "ending"} => rec[p].contact = Contacted
            /\ pc[p] # "closing"

(* A request was sent only by a child that got that far, once.             *)
ContactInv ==
    /\ \A d \in Dispatch :
            \/ contacts[d] = 0
            \/ /\ contacts[d] = 1
               /\ \E p \in Proc : req[p].dispatch = d /\ child[p] \in {"sent", "gone"}
    /\ \A p \in Proc : child[p] = "sent" => contacts[req[p].dispatch] = 1

(* How the record in memory relates to the stored one.                     *)
RecordInv ==
    /\ \A p \in Proc : pc[p] \in {"claimed", "marked", "waiting", "ending"} =>
            /\ ~runs[req[p].dispatch].record.ended
            /\ ~rec[p].ended
    /\ \A p \in Proc : pc[p] = "claimed" =>
            /\ rec[p].contact = "NOT_CONTACTED"
            /\ runs[req[p].dispatch].record.contact = "NOT_CONTACTED"
    /\ \A p \in Proc : pc[p] \in {"marked", "waiting"} =>
            /\ rec[p].contact = Contacted
            /\ runs[req[p].dispatch].record.contact = Contacted
    /\ \A p \in Proc : pc[p] = "ending" =>
            /\ rec[p].contact = "NOT_CONTACTED" =>
                    runs[req[p].dispatch].record.contact = "NOT_CONTACTED"
            /\ rec[p].contact = "RESPONSE_OBSERVED" => contacts[req[p].dispatch] = 1
    /\ \A p \in Proc : pc[p] = "closing" =>
            /\ runs[req[p].dispatch].record.ended
            /\ OutcomeKnown(runs[req[p].dispatch].record)

(* Every enrolled dispatch has its reservation, active unless its outcome  *)
(* is recorded and known.                                                  *)
SlotInv ==
    /\ DOMAIN reservations \subseteq DOMAIN runs
    /\ \A d \in DOMAIN runs : EnrolledRun(d) =>
            /\ d \in DOMAIN reservations
            /\ \/ reservations[d].active
               \/ runs[d].record.ended /\ OutcomeKnown(runs[d].record)

(* The stored contact state of a recorded outcome is the truth.            *)
SettledInv ==
    \A d \in DOMAIN runs :
        (runs[d].record.ended /\ runs[d].record.contact = "RESPONSE_OBSERVED")
            => contacts[d] = 1

IInv == /\ TypeOK
        /\ ClaimInv
        /\ ChildInv
        /\ ContactInv
        /\ RecordInv
        /\ SlotInv
        /\ SettledInv

----------------------------------------------------------------------------
(* Operators on records and tables.                                        *)

(* A status is written as a state of the closed vocabulary.                *)
LEMMA StatusStateType == ASSUME NEW status PROVE StatusState(status) \in States
BY DEF StatusState, States

LEMMA FreshRecordType == FreshRecord \in Record
BY DEF FreshRecord, Record, Usage, Unobserved, States

(* The constructors of records, field by field.                            *)
LEMMA ConstructorTypes ==
    ASSUME NEW k \in Record, NEW s \in States
    PROVE  /\ Uncertain(k, s) \in Record
           /\ Uncertain(k, s).contact = k.contact
           /\ Uncertain(k, s).ended = k.ended
           /\ Observed(k, s) \in Record
           /\ Observed(k, s).contact = "RESPONSE_OBSERVED"
           /\ Observed(k, s).ended = k.ended
           /\ ContactStarted(k) \in Record
           /\ ContactStarted(k).contact = Contacted
           /\ ContactStarted(k).ended = k.ended
BY DEF Uncertain, Observed, ContactStarted, Contacted, Record

LEMMA EndedType ==
    ASSUME NEW k \in Record
    PROVE  /\ Ended(k) \in Record
           /\ Ended(k).ended
           /\ Ended(k).contact = k.contact
           /\ Ended(k).state = k.state
BY DEF Ended, Record

(* What a body of status 200 leaves is a record of an observed response.   *)
LEMMA CompletionRecordType ==
    ASSUME NEW r \in Requests, NEW k \in Record, NEW a \in Answers
    PROVE  /\ CompletionRecord(r, k, a) \in Record
           /\ CompletionRecord(r, k, a).contact = "RESPONSE_OBSERVED"
           /\ CompletionRecord(r, k, a).ended = k.ended
<1> DEFINE kept == [k EXCEPT !.canonical = a.canonical]
           read == [kept EXCEPT !.usage = a.usage]
<1>1. /\ a.body \in {"MALFORMED", "OTHER_MODEL", "NO_CHOICE", "NO_OUTPUT", "TEXT"}
      /\ a.usage \in Usage
      /\ a.canonical \in BOOLEAN
  BY AnswersAssumption DEF Answer
<1>2. kept \in Record /\ kept.ended = k.ended
  BY <1>1 DEF Record
<1>3. read \in Record /\ read.ended = k.ended
  BY <1>1, <1>2 DEF Record
<1>4. {"MALFORMED_RESPONSE_OUTCOME_UNKNOWN", "MODEL_IDENTITY_MISMATCH",
       "OUTPUT_UNAVAILABLE_OR_OVER_BOUND", "TOKEN_USAGE_OVER_BOUND",
       "PROVIDER_COMPLETED"} \subseteq States
  BY DEF States
<1>5. PICK n \in {k, kept, read}, s \in States :
            CompletionRecord(r, k, a) = Observed(n, s)
  BY <1>1, <1>4 DEF CompletionRecord
<1>6. n \in Record /\ n.ended = k.ended
  BY <1>2, <1>3
<1>7. QED
  BY <1>5, <1>6, ConstructorTypes

(* What run() keeps of an answer is a record; only a response that arrived *)
(* makes it RESPONSE_OBSERVED, and nothing here ends the record.           *)
LEMMA AnswerRecordType ==
    ASSUME NEW r \in Requests, NEW k \in Record, NEW a \in Answers,
           NEW cancelled \in BOOLEAN
    PROVE  LET n == AnswerRecord(r, k, a, cancelled) IN
           /\ n \in Record
           /\ n.ended = k.ended
           /\ n.contact \in {k.contact, "RESPONSE_OBSERVED"}
           /\ a.kind \notin {"RESPONSE", "OVER_BOUND"} => n.contact = k.contact
<1>1. a.kind \in {"RESPONSE", "OVER_BOUND", "TIMEOUT", "FAILED"}
  BY AnswersAssumption DEF Answer
<1>2. {"TRANSPORT_OUTCOME_UNKNOWN", "LOCAL_TIMEOUT_OUTCOME_UNKNOWN",
       "RESPONSE_OVER_BOUND", "CANCELLED_AFTER_CONTACT_OUTCOME_UNKNOWN"} \subseteq States
  BY DEF States
<1>3. \/ \E s \in States : AnswerRecord(r, k, a, cancelled) = Uncertain(k, s)
      \/ /\ a.kind \in {"RESPONSE", "OVER_BOUND"}
         /\ \/ \E s \in States : AnswerRecord(r, k, a, cancelled) = Observed(k, s)
            \/ AnswerRecord(r, k, a, cancelled) = CompletionRecord(r, k, a)
  BY <1>1, <1>2, StatusStateType DEF AnswerRecord
<1>4. CASE \E s \in States : AnswerRecord(r, k, a, cancelled) = Uncertain(k, s)
  BY <1>4, ConstructorTypes
<1>5. CASE /\ a.kind \in {"RESPONSE", "OVER_BOUND"}
           /\ \E s \in States : AnswerRecord(r, k, a, cancelled) = Observed(k, s)
  BY <1>5, ConstructorTypes
<1>6. CASE /\ a.kind \in {"RESPONSE", "OVER_BOUND"}
           /\ AnswerRecord(r, k, a, cancelled) = CompletionRecord(r, k, a)
  BY <1>6, CompletionRecordType
<1>7. QED
  BY <1>3, <1>4, <1>5, <1>6

(* A row of a table: the new one under its key, the others as they were.   *)
LEMMA PutRow ==
    ASSUME NEW table, NEW key, NEW row
    PROVE  /\ DOMAIN Put(table, key, row) = DOMAIN table \cup {key}
           /\ Put(table, key, row)[key] = row
           /\ \A k \in DOMAIN table : k # key => Put(table, key, row)[k] = table[k]
           /\ Put(table, key, row) =
                [k \in DOMAIN Put(table, key, row) |-> Put(table, key, row)[k]]
BY DEF Put

(* A new row of the right shape leaves the table of that shape.            *)
LEMMA PutType ==
    ASSUME NEW Row, NEW table, table \in [DOMAIN table -> Row], NEW key, NEW row \in Row
    PROVE  Put(table, key, row) \in [DOMAIN table \cup {key} -> Row]
BY DEF Put

(* Rewriting the record of one row touches nothing else.                   *)
LEMMA UpdateRecord ==
    ASSUME NEW D, NEW table \in [D -> [request : Requests, record : Record]],
           NEW d, NEW k \in Record
    PROVE  LET t == [table EXCEPT ![d].record = k] IN
           /\ t \in [D -> [request : Requests, record : Record]]
           /\ \A e \in D : /\ t[e].request = table[e].request
                           /\ e = d => t[e].record = k
                           /\ e # d => t[e] = table[e]
OBVIOUS

----------------------------------------------------------------------------
(* Type correctness.                                                       *)

LEMMA TypeInit == Init => TypeOK
BY FreshRecordType DEF Init, TypeOK, EmptyTable

LEMMA TypeStep == TypeOK /\ [Next]_vars => TypeOK'
<1> SUFFICES ASSUME TypeOK, [Next]_vars PROVE TypeOK'
  OBVIOUS
<1> DEFINE Ends(p) == \E k \in Record : EndWith(p, k)
<1>1. ASSUME NEW p \in Proc, Ends(p), UNCHANGED <<store, req, contacts>>,
             child' \in [Proc -> {"none", "spawned", "sent", "gone"}]
      PROVE  TypeOK'
  <2>1. /\ pc' \in [Proc -> {"idle"} \cup Active \cup Stopped]
        /\ rec' \in [Proc -> Record]
    BY <1>1 DEF TypeOK, EndWith, Goto, Active
  <2>2. QED
    BY <1>1, <2>1 DEF TypeOK, store
<1>2. ASSUME NEW p \in Proc, NEW label \in Active \cup Stopped, Goto(p, label),
             UNCHANGED <<store, req, rec, child, contacts>>
      PROVE  TypeOK'
  BY <1>2 DEF TypeOK, Goto, store
<1>3. ASSUME NEW p \in Proc
      PROVE  /\ rec[p] \in Record
             /\ req[p] \in Requests
             /\ child \in [Proc -> {"none", "spawned", "sent", "gone"}]
  BY DEF TypeOK
<1>4. {"CANCELLED_BEFORE_CONTACT", "AUTHENTICATION_UNAVAILABLE",
       "TRANSPORT_OUTCOME_UNKNOWN", "LOCAL_TIMEOUT_OUTCOME_UNKNOWN",
       "CANCELLED_AFTER_CONTACT_OUTCOME_UNKNOWN"} \subseteq States
  BY DEF States
<1>5. ASSUME NEW p \in Proc, Refuse(p) PROVE TypeOK'
  BY <1>2, <1>5 DEF Refuse, Stopped
<1>6. ASSUME NEW p \in Proc, Duplicate(p) PROVE TypeOK'
  BY <1>6 DEF Duplicate, TypeOK, Goto, store, Stopped
<1>7. ASSUME NEW p \in Proc, Claim(p) PROVE TypeOK'
  <2> DEFINE r == req[p]
  <2>1. /\ r \in Requests /\ r.dispatch \in Dispatch /\ r.scope \in Scope
        /\ r.reserved \in Nat /\ Ledger(r) \in [maxConcurrent : Nat, budget : Nat,
                                     promptPrice : Nat, completionPrice : Nat]
    BY <1>3, RequestsAssumption DEF Dispatch, Scope, Request, Ledger
  <2>2. /\ DOMAIN runs' \subseteq Dispatch
        /\ runs' \in [DOMAIN runs' -> [request : Requests, record : Record]]
    <3> DEFINE row == [request |-> r, record |-> FreshRecord]
    <3>1. row \in [request : Requests, record : Record]
      BY <2>1, FreshRecordType
    <3>2. /\ runs' = Put(runs, r.dispatch, row)
          /\ runs \in [DOMAIN runs -> [request : Requests, record : Record]]
          /\ DOMAIN runs \subseteq Dispatch
      BY <1>7 DEF Claim, TypeOK
    <3>3. runs' \in [DOMAIN runs \cup {r.dispatch} -> [request : Requests, record : Record]]
      BY <3>1, <3>2, PutType
    <3>4. DOMAIN runs' = DOMAIN runs \cup {r.dispatch}
      BY <3>2 DEF Put
    <3>5. QED
      BY <2>1, <3>2, <3>3, <3>4
  <2> DEFINE Slots == [scope : Scope, reserved : Nat, active : BOOLEAN]
             slot == [scope |-> r.scope, reserved |-> r.reserved, active |-> TRUE]
             Terms == [maxConcurrent : Nat, budget : Nat,
                       promptPrice : Nat, completionPrice : Nat]
  <2>3. CASE Enrolled(r)
    <3>1. /\ reservations' = Put(reservations, r.dispatch, slot)
          /\ config' = Put(config, r.scope, Ledger(r))
      BY <1>7, <2>3 DEF Claim
    <3>2. slot \in Slots
      BY <2>1
    <3>3. /\ Put(reservations, r.dispatch, slot)
                \in [DOMAIN reservations \cup {r.dispatch} -> Slots]
          /\ Put(config, r.scope, Ledger(r)) \in [DOMAIN config \cup {r.scope} -> Terms]
      <4>1. /\ reservations \in [DOMAIN reservations -> Slots]
            /\ config \in [DOMAIN config -> Terms]
        BY DEF TypeOK
      <4>2. QED
        BY <2>1, <3>2, <4>1, PutType
    <3>4. /\ DOMAIN reservations' = DOMAIN reservations \cup {r.dispatch}
          /\ DOMAIN config' = DOMAIN config \cup {r.scope}
      BY <3>1 DEF Put
    <3>5. /\ DOMAIN reservations' \subseteq Dispatch
          /\ DOMAIN config' \subseteq Scope
          /\ reservations' \in [DOMAIN reservations' -> Slots]
          /\ config' \in [DOMAIN config' -> Terms]
      BY <2>1, <3>1, <3>3, <3>4 DEF TypeOK
    <3>6. QED
      BY <1>7, <2>2, <3>5, FreshRecordType DEF Claim, TypeOK, Goto, Active
  <2>4. CASE ~Enrolled(r)
    BY <1>7, <2>2, <2>4, FreshRecordType DEF Claim, TypeOK, Goto, Active
  <2>5. QED
    BY <2>3, <2>4
<1>8. ASSUME NEW p \in Proc,
             CancelBeforeContact(p) \/ NoCredential(p) \/ CallbackRaises(p)
      PROVE  TypeOK'
  BY <1>1, <1>3, <1>4, <1>8, ConstructorTypes
     DEF CancelBeforeContact, NoCredential, CallbackRaises
<1>9. ASSUME NEW p \in Proc, MarkContact(p) PROVE TypeOK'
  <2> DEFINE Rows == [DOMAIN runs -> [request : Requests, record : Record]]
  <2>1. ContactStarted(rec[p]) \in Record
    BY <1>3, <1>4, ConstructorTypes
  <2>2. runs \in Rows
    BY DEF TypeOK
  <2>3. [runs EXCEPT ![req[p].dispatch].record = ContactStarted(rec[p])] \in Rows
    BY <2>1, <2>2, UpdateRecord
  <2>4. QED
    BY <1>9, <2>1, <2>3 DEF MarkContact, TypeOK, Goto, Active
<1>10. ASSUME NEW p \in Proc, MarkContactFails(p) PROVE TypeOK'
  BY <1>1, <1>3, <1>4, <1>10, ConstructorTypes DEF MarkContactFails
<1>11. ASSUME NEW p \in Proc, Spawn(p) PROVE TypeOK'
  BY <1>11 DEF Spawn, TypeOK, Goto, store, Active
<1>12. ASSUME NEW p \in Proc, SpawnFails(p) PROVE TypeOK'
  BY <1>1, <1>3, <1>4, <1>12, ConstructorTypes DEF SpawnFails
<1>13. ASSUME NEW p \in Proc, ChildSend(p) PROVE TypeOK'
  <2>1. req[p].dispatch \in Dispatch
    BY <1>3 DEF Dispatch
  <2>2. contacts' \in [Dispatch -> Nat]
    BY <1>13, <2>1 DEF ChildSend, TypeOK
  <2>3. QED
    BY <1>13, <2>2 DEF ChildSend, TypeOK, store
<1>14. ASSUME NEW p \in Proc, ParentAnswer(p) PROVE TypeOK'
  BY <1>1, <1>3, <1>14, AnswerRecordType DEF ParentAnswer
<1>15. ASSUME NEW p \in Proc, ParentCancel(p) \/ ParentTimeout(p) PROVE TypeOK'
  BY <1>1, <1>3, <1>4, <1>15, ConstructorTypes
     DEF ParentCancel, ParentTimeout, ParentStops
<1>16. ASSUME NEW p \in Proc, StopStalls(p) PROVE TypeOK'
  BY <1>1, <1>3, <1>4, <1>16, ConstructorTypes DEF StopStalls
<1>17. ASSUME NEW p \in Proc, Interrupt(p) PROVE TypeOK'
  BY <1>1, <1>3, <1>17 DEF Interrupt
<1>18. ASSUME NEW p \in Proc, FinalUpdate(p) PROVE TypeOK'
  <2> DEFINE Rows == [DOMAIN runs -> [request : Requests, record : Record]]
  <2>1. /\ Ended(rec[p]) \in Record
        /\ AfterFinal(Ended(rec[p])) \in Active \cup Stopped
        /\ runs \in Rows
    BY <1>3, EndedType DEF AfterFinal, Active, Stopped, TypeOK
  <2> DEFINE new == [runs EXCEPT ![req[p].dispatch].record = Ended(rec[p])]
  <2>2. new \in Rows /\ DOMAIN new = DOMAIN runs
    BY <2>1, UpdateRecord
  <2>3. runs' = new
    BY <1>18 DEF FinalUpdate
  <2>4. /\ rec' \in [Proc -> Record]
        /\ pc' \in [Proc -> {"idle"} \cup Active \cup Stopped]
        /\ UNCHANGED <<reservations, config, req, child, contacts>>
    BY <1>18, <2>1 DEF FinalUpdate, TypeOK, Goto
  <2> HIDE DEF new
  <2>5. /\ runs' \in [DOMAIN runs' -> [request : Requests, record : Record]]
        /\ DOMAIN runs' \subseteq Dispatch
    BY <2>2, <2>3 DEF TypeOK
  <2>6. /\ DOMAIN reservations' \subseteq Dispatch
        /\ reservations' \in [DOMAIN reservations' ->
                               [scope : Scope, reserved : Nat, active : BOOLEAN]]
        /\ DOMAIN config' \subseteq Scope
        /\ config' \in [DOMAIN config' -> [maxConcurrent : Nat, budget : Nat,
                                          promptPrice : Nat, completionPrice : Nat]]
    BY <2>4 DEF TypeOK
  <2>7. /\ req' \in [Proc -> Requests]
        /\ child' \in [Proc -> {"none", "spawned", "sent", "gone"}]
        /\ contacts' \in [Dispatch -> Nat]
    BY <2>4 DEF TypeOK
  <2>8. QED
    BY <2>4, <2>5, <2>6, <2>7 DEF TypeOK
<1>19. ASSUME NEW p \in Proc, FinalUpdateFails(p) \/ CloseSlotFails(p) \/ Crash(p)
       PROVE  TypeOK'
  BY <1>2, <1>19 DEF FinalUpdateFails, CloseSlotFails, Crash, Stopped
<1>20. ASSUME NEW p \in Proc, CloseSlot(p) PROVE TypeOK'
  <2>1. pc' \in [Proc -> {"idle"} \cup Active \cup Stopped]
    BY <1>20 DEF CloseSlot, TypeOK, Goto, Stopped
  <2>2. /\ DOMAIN reservations' = DOMAIN reservations
        /\ reservations' \in [DOMAIN reservations ->
                               [scope : Scope, reserved : Nat, active : BOOLEAN]]
    BY <1>20 DEF CloseSlot, TypeOK
  <2>3. UNCHANGED <<runs, config, req, rec, child, contacts>>
    BY <1>20 DEF CloseSlot
  <2>4. QED
    BY <2>1, <2>2, <2>3 DEF TypeOK
<1>21. ASSUME NEW p \in Proc, OrphanExit(p) PROVE TypeOK'
  BY <1>21 DEF OrphanExit, TypeOK, store
<1>22. CASE UNCHANGED vars
  BY <1>22 DEF TypeOK, vars
<1>23. QED
  BY <1>5, <1>6, <1>7, <1>8, <1>9, <1>10, <1>11, <1>12, <1>13, <1>14, <1>15,
     <1>16, <1>17, <1>18, <1>19, <1>20, <1>21, <1>22
     DEF Next, Run, Terminating

(* The state of the bridge is always of the declared shape: rows, records  *)
(* and labels stay in the closed vocabularies (direct_api.py run, RunStore).*)
THEOREM TypeCorrect == Spec => []TypeOK
<1>1. QED
  BY TypeInit, TypeStep, PTL DEF Spec

----------------------------------------------------------------------------
(* The inductive invariant is preserved.                                   *)

LEMMA InvInit == Init => IInv
BY TypeInit DEF Init, IInv, TypeOK, ClaimInv, ChildInv, ContactInv, RecordInv, SlotInv,
   SettledInv, EmptyTable, Claimants, Active, LiveChild

(* A step by which an invocation goes to its finally clause with record k  *)
(* and with its child as it was or gone.                                   *)
LEMMA EndStep ==
    ASSUME IInv, TypeOK', NEW p \in Proc, NEW k \in Record,
           pc[p] \in {"claimed", "marked", "waiting"},
           EndWith(p, k),
           ~k.ended,
           UNCHANGED <<store, req, contacts>>,
           \/ UNCHANGED child
           \/ child' = [child EXCEPT ![p] = IF @ = "none" THEN @ ELSE "gone"]
           \/ pc[p] = "waiting" /\ child' = [child EXCEPT ![p] = "gone"],
           k.contact = "NOT_CONTACTED" =>
                runs[req[p].dispatch].record.contact = "NOT_CONTACTED",
           k.contact = "RESPONSE_OBSERVED" =>
                contacts[req[p].dispatch] = 1 /\ child'[p] \notin {"spawned", "sent"}
    PROVE  IInv'
<1> USE DEF IInv, TypeOK, EndWith, Goto, store
<1>1. ClaimInv'
  BY DEF ClaimInv, Claimants, Active
<1>2. ChildInv'
  <2>1. pc[p] = "waiting" =>
            /\ runs[req[p].dispatch].record.contact = Contacted
            /\ k.contact # "NOT_CONTACTED"
    BY DEF RecordInv, Contacted
  <2>2. QED
    BY <2>1 DEF ChildInv, Claimants, Active, LiveChild, Contacted, Record
<1>3. ContactInv'
  BY DEF ContactInv
<1>4. RecordInv'
  BY DEF RecordInv, OutcomeKnown
<1>5. SlotInv' /\ SettledInv'
  BY DEF SlotInv, SettledInv, EnrolledRun, OutcomeKnown
<1>6. QED
  BY <1>1, <1>2, <1>3, <1>4, <1>5

(* A step by which an invocation stops, or is refused, where it stands.    *)
LEMMA StopStep ==
    ASSUME IInv, TypeOK', NEW p \in Proc, NEW label \in Stopped,
           \/ pc[p] = "idle" /\ label = "refused"
           \/ pc[p] \in Active /\ label \in {"raised", "crashed"},
           Goto(p, label),
           UNCHANGED <<store, req, rec, child, contacts>>
    PROVE  IInv'
<1> USE DEF IInv, TypeOK, Goto, store
<1>1. ClaimInv'
  BY DEF ClaimInv, Claimants, Active
<1>2. ChildInv'
  BY DEF ChildInv, Claimants, Active, LiveChild
<1>3. ContactInv'
  BY DEF ContactInv
<1>4. RecordInv'
  BY DEF RecordInv, OutcomeKnown
<1>5. SlotInv' /\ SettledInv'
  BY DEF SlotInv, SettledInv, EnrolledRun, OutcomeKnown
<1>6. QED
  BY <1>1, <1>2, <1>3, <1>4, <1>5

(* The claim transaction gives the dispatch its one owner.                 *)
LEMMA ClaimStep ==
    ASSUME IInv, TypeOK', NEW p \in Proc, Claim(p)
    PROVE  IInv'
<1> DEFINE r == req[p]
           d == req[p].dispatch
<1>1. /\ d \notin DOMAIN runs
      /\ DOMAIN runs' = DOMAIN runs \cup {d}
      /\ runs'[d] = [request |-> r, record |-> FreshRecord]
      /\ \A e \in DOMAIN runs : runs'[e] = runs[e]
  BY DEF Claim, Put
<1>2. /\ FreshRecord.contact = "NOT_CONTACTED"
      /\ ~FreshRecord.ended
  BY DEF FreshRecord
<1>3. /\ \A e \in DOMAIN reservations : e \in DOMAIN reservations'
      /\ \A e \in DOMAIN reservations : e # d => reservations'[e] = reservations[e]
      /\ Enrolled(r) => d \in DOMAIN reservations' /\ reservations'[d].active
      /\ DOMAIN reservations' \subseteq DOMAIN reservations \cup {d}
  BY DEF Claim, Put
<1>4. /\ pc[p] = "idle"
      /\ pc' = [pc EXCEPT ![p] = "claimed"]
      /\ rec' = [rec EXCEPT ![p] = FreshRecord]
      /\ UNCHANGED <<req, child, contacts>>
  BY DEF Claim, Goto
<1>5. child[p] = "none"
  BY <1>4 DEF IInv, TypeOK, ChildInv, Claimants, Active
<1>6. \A q \in Proc : pc[q] \in Claimants => req[q].dispatch # d
  BY <1>1 DEF IInv, ClaimInv
<1> HIDE DEF r, d
<1>7. ClaimInv'
  BY <1>1, <1>4, <1>6 DEF IInv, TypeOK, ClaimInv, Claimants, Active, r, d
<1>8. ChildInv'
  BY <1>1, <1>4, <1>5 DEF IInv, TypeOK, ClaimInv, ChildInv, Claimants, Active, LiveChild
<1>9. ContactInv'
  BY <1>4 DEF IInv, TypeOK, ContactInv
<1>10. RecordInv'
  BY <1>1, <1>2, <1>4 DEF IInv, TypeOK, ClaimInv, RecordInv, OutcomeKnown,
     Claimants, Active, d
<1>11. SlotInv'
  BY <1>1, <1>3 DEF IInv, SlotInv, EnrolledRun, OutcomeKnown
<1>12. SettledInv'
  BY <1>1, <1>2, <1>4 DEF IInv, SettledInv
<1>13. QED
  BY <1>7, <1>8, <1>9, <1>10, <1>11, <1>12 DEF IInv

(* The durable mark.                                                       *)
LEMMA MarkStep ==
    ASSUME IInv, TypeOK', NEW p \in Proc, MarkContact(p)
    PROVE  IInv'
<1> DEFINE d == req[p].dispatch
           k == ContactStarted(rec[p])
<1>1. /\ pc[p] = "claimed"
      /\ pc' = [pc EXCEPT ![p] = "marked"]
      /\ rec' = [rec EXCEPT ![p] = k]
      /\ UNCHANGED <<reservations, config, req, child, contacts>>
  BY DEF MarkContact, Goto
<1>2. k \in Record /\ k.contact = Contacted /\ ~k.ended
  BY <1>1, ConstructorTypes DEF IInv, TypeOK, RecordInv, States
<1>3. /\ d \in DOMAIN runs
      /\ DOMAIN runs' = DOMAIN runs
      /\ runs'[d].record = k
      /\ \A e \in DOMAIN runs : /\ runs'[e].request = runs[e].request
                                /\ e # d => runs'[e] = runs[e]
  <2>1. runs \in [DOMAIN runs -> [request : Requests, record : Record]]
    BY DEF IInv, TypeOK
  <2>2. runs' = [runs EXCEPT ![d].record = k]
    BY DEF MarkContact
  <2>3. d \in DOMAIN runs
    BY <1>1 DEF IInv, ClaimInv, Claimants, Active
  <2> HIDE DEF k
  <2>4. QED
    BY <1>2, <2>1, <2>2, <2>3, UpdateRecord
<1>4. \A q \in Proc : (pc[q] \in Claimants /\ req[q].dispatch = d) => q = p
  BY <1>1 DEF IInv, ClaimInv, Claimants, Active
<1>5. child[p] = "none"
  BY <1>1 DEF IInv, TypeOK, ChildInv, Claimants, Active
<1> HIDE DEF d, k
<1>6. ClaimInv'
  BY <1>1, <1>3, <1>4 DEF IInv, TypeOK, ClaimInv, Claimants, Active, d
<1>7. ChildInv'
  BY <1>1, <1>2, <1>3, <1>4, <1>5 DEF IInv, TypeOK, ClaimInv, ChildInv, Claimants,
     Active, LiveChild, Contacted
<1>8. ContactInv'
  BY <1>1 DEF IInv, TypeOK, ContactInv
<1>9. RecordInv'
  BY <1>1, <1>2, <1>3, <1>4 DEF IInv, TypeOK, ClaimInv, RecordInv, OutcomeKnown,
     Claimants, Active, d, Contacted
<1>10. SlotInv'
  BY <1>1, <1>2, <1>3 DEF IInv, TypeOK, SlotInv, EnrolledRun, OutcomeKnown, RecordInv, d
<1>11. SettledInv'
  BY <1>1, <1>2, <1>3 DEF IInv, SettledInv
<1>12. QED
  BY <1>6, <1>7, <1>8, <1>9, <1>10, <1>11 DEF IInv

(* The final record.                                                       *)
LEMMA FinalStep ==
    ASSUME IInv, TypeOK', NEW p \in Proc, FinalUpdate(p)
    PROVE  IInv'
<1> DEFINE d == req[p].dispatch
           k == Ended(rec[p])
<1>1. /\ pc[p] = "ending"
      /\ pc' = [pc EXCEPT ![p] = AfterFinal(k)]
      /\ rec' = [rec EXCEPT ![p] = k]
      /\ UNCHANGED <<reservations, config, req, child, contacts>>
  BY DEF FinalUpdate, Goto
<1>2. k \in Record /\ k.ended /\ k.contact = rec[p].contact
  BY EndedType DEF IInv, TypeOK
<1>3. /\ d \in DOMAIN runs
      /\ DOMAIN runs' = DOMAIN runs
      /\ runs'[d].record = k
      /\ \A e \in DOMAIN runs : /\ runs'[e].request = runs[e].request
                                /\ e # d => runs'[e] = runs[e]
  <2>1. runs \in [DOMAIN runs -> [request : Requests, record : Record]]
    BY DEF IInv, TypeOK
  <2>2. runs' = [runs EXCEPT ![d].record = k]
    BY DEF FinalUpdate
  <2>3. d \in DOMAIN runs
    BY <1>1 DEF IInv, ClaimInv, Claimants, Active
  <2> HIDE DEF k
  <2>4. QED
    BY <1>2, <2>1, <2>2, <2>3, UpdateRecord
<1>4. \A q \in Proc : (pc[q] \in Claimants /\ req[q].dispatch = d) => q = p
  BY <1>1 DEF IInv, ClaimInv, Claimants, Active
<1>5. /\ AfterFinal(k) \in {"closing", "returned"}
      /\ AfterFinal(k) = "closing" <=> OutcomeKnown(k)
  BY DEF AfterFinal
<1> HIDE DEF d, k
<1>6. ClaimInv'
  BY <1>1, <1>3, <1>4, <1>5 DEF IInv, TypeOK, ClaimInv, Claimants, Active, d
<1>7. ChildInv'
  BY <1>1, <1>2, <1>3, <1>4, <1>5 DEF IInv, TypeOK, ClaimInv, ChildInv, Claimants,
     Active, LiveChild, Contacted, OutcomeKnown, d
<1>8. ContactInv'
  BY <1>1 DEF IInv, TypeOK, ContactInv
<1>9. RecordInv'
  BY <1>1, <1>2, <1>3, <1>4, <1>5 DEF IInv, TypeOK, ClaimInv, RecordInv, OutcomeKnown,
     Claimants, Active, d, Contacted
<1>10. SlotInv'
  BY <1>1, <1>2, <1>3 DEF IInv, TypeOK, SlotInv, EnrolledRun, OutcomeKnown, RecordInv, d
<1>11. SettledInv'
  BY <1>1, <1>2, <1>3 DEF IInv, SettledInv, RecordInv, d
<1>12. QED
  BY <1>6, <1>7, <1>8, <1>9, <1>10, <1>11 DEF IInv

(* The one HTTP request of a child.                                        *)
LEMMA SendStep ==
    ASSUME IInv, TypeOK', NEW p \in Proc, ChildSend(p)
    PROVE  IInv'
<1> DEFINE d == req[p].dispatch
<1>1. /\ child[p] = "spawned"
      /\ child' = [child EXCEPT ![p] = "sent"]
      /\ contacts' = [contacts EXCEPT ![d] = @ + 1]
      /\ UNCHANGED <<store, pc, req, rec>>
  BY DEF ChildSend
<1>2. /\ d \in Dispatch
      /\ pc[p] \in Claimants
  BY <1>1 DEF IInv, TypeOK, ChildInv, Dispatch
<1>3. \A q \in Proc : (pc[q] \in Claimants /\ req[q].dispatch = d) => q = p
  BY <1>2 DEF IInv, ClaimInv
<1>4. contacts[d] = 0
  BY <1>1, <1>2, <1>3 DEF IInv, ContactInv, ChildInv
<1> HIDE DEF d
<1>5. ClaimInv'
  BY <1>1 DEF IInv, ClaimInv, store
<1>6. ChildInv'
  BY <1>1 DEF IInv, TypeOK, ChildInv, LiveChild, store
<1>7. ContactInv'
  BY <1>1, <1>2, <1>3, <1>4 DEF IInv, TypeOK, ContactInv, ChildInv, d
<1>8. RecordInv'
  BY <1>1, <1>2, <1>4 DEF IInv, TypeOK, RecordInv, OutcomeKnown, store
<1>9. SlotInv' /\ SettledInv'
  BY <1>1, <1>2, <1>4 DEF IInv, TypeOK, SlotInv, SettledInv, EnrolledRun, OutcomeKnown, store
<1>10. QED
  BY <1>5, <1>6, <1>7, <1>8, <1>9 DEF IInv

(* The slot is given back.                                                 *)
LEMMA CloseStep ==
    ASSUME IInv, TypeOK', NEW p \in Proc, CloseSlot(p)
    PROVE  IInv'
<1> DEFINE d == req[p].dispatch
<1>1. /\ pc[p] = "closing"
      /\ pc' = [pc EXCEPT ![p] = "returned"]
      /\ UNCHANGED <<runs, config, req, rec, child, contacts>>
      /\ DOMAIN reservations' = DOMAIN reservations
      /\ \A e \in DOMAIN reservations : e # d => reservations'[e] = reservations[e]
  BY DEF CloseSlot, Goto
<1>2. runs[d].record.ended /\ OutcomeKnown(runs[d].record)
  BY <1>1 DEF IInv, RecordInv
<1>3. ClaimInv'
  BY <1>1 DEF IInv, TypeOK, ClaimInv, Claimants, Active
<1>4. ChildInv' /\ ContactInv'
  BY <1>1 DEF IInv, TypeOK, ChildInv, ContactInv, Claimants, Active, LiveChild
<1>5. RecordInv'
  BY <1>1 DEF IInv, TypeOK, RecordInv, OutcomeKnown
<1>6. SlotInv' /\ SettledInv'
  BY <1>1, <1>2 DEF IInv, TypeOK, SlotInv, SettledInv, EnrolledRun, OutcomeKnown
<1>7. QED
  BY <1>3, <1>4, <1>5, <1>6 DEF IInv

(* A duplicate, the spawn of a child and the end of an orphan.             *)
LEMMA QuietStep ==
    ASSUME IInv, TypeOK', NEW p \in Proc,
           Duplicate(p) \/ Spawn(p) \/ OrphanExit(p)
    PROVE  IInv'
<1> USE DEF IInv, TypeOK, Goto, store
<1>1. CASE Duplicate(p)
  <2>1. (ClaimInv /\ ChildInv /\ ContactInv)'
    BY <1>1 DEF Duplicate, ClaimInv, ChildInv, ContactInv, Claimants, Active, LiveChild
  <2>2. RecordInv'
    BY <1>1 DEF Duplicate, RecordInv, Active, OutcomeKnown
  <2>3. (SlotInv /\ SettledInv)'
    BY <1>1 DEF Duplicate, SlotInv, SettledInv, Claimants, Active, EnrolledRun, OutcomeKnown
  <2>4. QED
    BY <2>1, <2>2, <2>3
<1>2. CASE Spawn(p)
  BY <1>2 DEF Spawn, ClaimInv, ChildInv, ContactInv, RecordInv, SlotInv, SettledInv,
     Claimants, Active, LiveChild, EnrolledRun, OutcomeKnown, Contacted
<1>3. CASE OrphanExit(p)
  BY <1>3 DEF OrphanExit, ClaimInv, ChildInv, ContactInv, RecordInv, SlotInv, SettledInv,
     Claimants, Active, LiveChild, EnrolledRun, OutcomeKnown
<1>4. QED
  BY <1>1, <1>2, <1>3

(* Every step preserves the invariant.                                     *)
LEMMA InvStep == IInv /\ [Next]_vars => IInv'
<1> SUFFICES ASSUME IInv, [Next]_vars PROVE IInv'
  OBVIOUS
<1>1. TypeOK'
  BY TypeStep DEF IInv
<1>2. ASSUME NEW p \in Proc
      PROVE  /\ rec[p] \in Record
             /\ req[p] \in Requests
             /\ pc[p] \in {"claimed", "marked", "waiting"} => ~rec[p].ended
             /\ pc[p] = "claimed" => /\ rec[p].contact = "NOT_CONTACTED"
                                     /\ runs[req[p].dispatch].record.contact = "NOT_CONTACTED"
             /\ pc[p] \in {"marked", "waiting"} => rec[p].contact = Contacted
             /\ child[p] = "sent" => contacts[req[p].dispatch] = 1
  BY DEF IInv, TypeOK, RecordInv, ContactInv
<1>3. {"CANCELLED_BEFORE_CONTACT", "AUTHENTICATION_UNAVAILABLE",
       "TRANSPORT_OUTCOME_UNKNOWN", "LOCAL_TIMEOUT_OUTCOME_UNKNOWN",
       "CANCELLED_AFTER_CONTACT_OUTCOME_UNKNOWN"} \subseteq States
  BY DEF States
<1>4. /\ "NOT_CONTACTED" # Contacted
      /\ "RESPONSE_OBSERVED" # Contacted
  BY DEF Contacted
<1>5. ASSUME NEW p \in Proc,
             \/ Refuse(p) \/ FinalUpdateFails(p) \/ CloseSlotFails(p) \/ Crash(p)
      PROVE  IInv'
  <2>1. CASE Refuse(p)
    BY <1>1, <2>1, StopStep DEF Refuse, Stopped
  <2>2. CASE FinalUpdateFails(p) \/ CloseSlotFails(p)
    BY <1>1, <2>2, StopStep DEF FinalUpdateFails, CloseSlotFails, Stopped, Active
  <2>3. CASE Crash(p)
    BY <1>1, <2>3, StopStep DEF Crash, Stopped
  <2>4. QED
    BY <1>5, <2>1, <2>2, <2>3
<1>6. ASSUME NEW p \in Proc, NEW s \in States,
             pc[p] \in {"claimed", "marked", "waiting"},
             EndWith(p, Uncertain(rec[p], s)),
             UNCHANGED <<store, req, contacts>>,
             \/ UNCHANGED child
             \/ child' = [child EXCEPT ![p] = IF @ = "none" THEN @ ELSE "gone"]
             \/ pc[p] = "waiting" /\ child' = [child EXCEPT ![p] = "gone"]
      PROVE  IInv'
  <2> DEFINE k == Uncertain(rec[p], s)
  <2>1. k \in Record /\ ~k.ended /\ k.contact = rec[p].contact
    BY <1>2, <1>6, ConstructorTypes
  <2>2. /\ k.contact = "NOT_CONTACTED" =>
              runs[req[p].dispatch].record.contact = "NOT_CONTACTED"
        /\ k.contact # "RESPONSE_OBSERVED"
    BY <1>2, <1>4, <1>6, <2>1
  <2>3. EndWith(p, k)
    BY <1>6
  <2> HIDE DEF k
  <2>4. QED
    BY <1>1, <1>6, <2>1, <2>2, <2>3, EndStep
<1>7. ASSUME NEW p \in Proc,
             CancelBeforeContact(p) \/ NoCredential(p) \/ CallbackRaises(p)
      PROVE  IInv'
  BY <1>3, <1>6, <1>7 DEF CancelBeforeContact, NoCredential, CallbackRaises, store
<1>8. ASSUME NEW p \in Proc, MarkContactFails(p) PROVE IInv'
  <2> DEFINE c == ContactStarted(rec[p])
             k == Uncertain(c, "TRANSPORT_OUTCOME_UNKNOWN")
  <2>1. /\ pc[p] = "claimed"
        /\ EndWith(p, k)
        /\ UNCHANGED <<store, req, child, contacts>>
    BY <1>8 DEF MarkContactFails
  <2>2. c \in Record /\ c.contact = Contacted /\ ~c.ended
    BY <1>2, <1>3, <2>1, ConstructorTypes
  <2> HIDE DEF c
  <2>3. k \in Record /\ k.contact = Contacted /\ ~k.ended
    BY <1>3, <2>2, ConstructorTypes
  <2> HIDE DEF k
  <2>4. QED
    BY <1>1, <1>4, <2>1, <2>3, EndStep DEF store
<1>9. ASSUME NEW p \in Proc, SpawnFails(p) \/ StopStalls(p) PROVE IInv'
  BY <1>3, <1>6, <1>9 DEF SpawnFails, StopStalls, store
<1>10. ASSUME NEW p \in Proc, ParentAnswer(p) PROVE IInv'
  <2>1. PICK a \in Answers, cancelled \in BOOLEAN :
            /\ a.kind \in {"RESPONSE", "OVER_BOUND"} => child[p] = "sent"
            /\ EndWith(p, AnswerRecord(req[p], rec[p], a, cancelled))
    BY <1>10 DEF ParentAnswer
  <2> DEFINE k == AnswerRecord(req[p], rec[p], a, cancelled)
  <2>2. /\ pc[p] = "waiting"
        /\ child' = [child EXCEPT ![p] = "gone"]
        /\ UNCHANGED <<store, req, contacts>>
    BY <1>10 DEF ParentAnswer
  <2>3. /\ k \in Record
        /\ ~k.ended
        /\ k.contact \in {Contacted, "RESPONSE_OBSERVED"}
        /\ k.contact = "RESPONSE_OBSERVED" => child[p] = "sent"
    BY <1>2, <1>4, <2>1, <2>2, AnswerRecordType
  <2>4. EndWith(p, k)
    BY <2>1
  <2>5. k.contact # "NOT_CONTACTED"
    BY <1>4, <2>3
  <2>6. k.contact = "RESPONSE_OBSERVED" =>
            contacts[req[p].dispatch] = 1 /\ child'[p] \notin {"spawned", "sent"}
    BY <1>2, <2>2, <2>3 DEF IInv, TypeOK
  <2> HIDE DEF k
  <2>7. QED
    BY <1>1, <2>2, <2>3, <2>4, <2>5, <2>6, EndStep
<1>11. ASSUME NEW p \in Proc, ParentCancel(p) \/ ParentTimeout(p) PROVE IInv'
  BY <1>3, <1>6, <1>11 DEF ParentCancel, ParentTimeout, ParentStops
<1>12. ASSUME NEW p \in Proc, Interrupt(p) PROVE IInv'
  <2>1. /\ pc[p] \in {"claimed", "marked", "waiting"}
        /\ EndWith(p, rec[p])
        /\ child' = [child EXCEPT ![p] = IF @ = "none" THEN @ ELSE "gone"]
        /\ UNCHANGED <<store, req, contacts>>
    BY <1>12 DEF Interrupt
  <2> DEFINE k == rec[p]
  <2>2. /\ k \in Record /\ ~k.ended
        /\ k.contact # "RESPONSE_OBSERVED"
        /\ k.contact = "NOT_CONTACTED" =>
              runs[req[p].dispatch].record.contact = "NOT_CONTACTED"
    BY <1>2, <1>4, <2>1
  <2>3. EndWith(p, k)
    BY <2>1
  <2> HIDE DEF k
  <2>4. QED
    BY <1>1, <2>1, <2>2, <2>3, EndStep
<1>13. CASE UNCHANGED vars
  BY <1>1, <1>13 DEF IInv, vars, ClaimInv, ChildInv, ContactInv, RecordInv, SlotInv,
     SettledInv, LiveChild, EnrolledRun, OutcomeKnown
<1>14. QED
  BY <1>1, <1>5, <1>7, <1>8, <1>9, <1>10, <1>11, <1>12, <1>13,
     ClaimStep, MarkStep, FinalStep, SendStep, CloseStep, QuietStep
     DEF Next, Run, Terminating

----------------------------------------------------------------------------
(* The properties.                                                         *)

(* The facts behind every theorem below.                                   *)
LEMMA InvCorrect == Spec => []IInv
<1>1. QED
  BY InvInit, InvStep, PTL DEF Spec

(* Never regenerate: whatever the interleaving of invocations, crashes,    *)
(* orphaned children and failing transactions, at most one HTTP request is *)
(* sent for a dispatch (direct_api.py claim, run and _request_live).       *)
THEOREM OneContact == Spec => []AtMostOneContact
<1>1. IInv => AtMostOneContact
  BY DEF IInv, ContactInv, AtMostOneContact
<1>2. QED
  BY <1>1, InvCorrect, PTL

(* What the store calls NOT_CONTACTED was not contacted: the durable mark  *)
(* precedes the child (direct_api.py run, the update before _request_live).*)
THEOREM UncontactedIsTrue == Spec => []NotContactedIsTrue
<1>1. IInv => NotContactedIsTrue
  <2> SUFFICES ASSUME IInv, NEW d \in Dispatch, contacts[d] # 0,
                      d \in DOMAIN runs => Stored(d).contact = "NOT_CONTACTED"
               PROVE  FALSE
    BY DEF NotContactedIsTrue
  <2>1. PICK p \in Proc : req[p].dispatch = d /\ child[p] \in {"sent", "gone"}
    BY DEF IInv, ContactInv
  <2>2. QED
    BY <2>1 DEF IInv, ClaimInv, ChildInv, Stored
<1>2. QED
  BY <1>1, InvCorrect, PTL

(* A request that may be in flight keeps its concurrency slot, orphaned    *)
(* children included (direct_api.py run, the finally clause).              *)
THEOREM InFlightIsCounted == Spec => []InFlightHoldsSlot
<1>1. IInv => InFlightHoldsSlot
  <2> SUFFICES ASSUME IInv, NEW d \in DOMAIN runs, EnrolledRun(d), ~reservations[d].active
               PROVE  /\ OutcomeKnown(Stored(d))
                      /\ \A p \in Proc : req[p].dispatch = d => ~LiveChild(p)
    BY DEF InFlightHoldsSlot
  <2>1. OutcomeKnown(Stored(d))
    BY DEF IInv, SlotInv, Stored
  <2>2. QED
    BY <2>1 DEF IInv, ChildInv, OutcomeKnown, Stored, Contacted
<1>2. QED
  BY <1>1, InvCorrect, PTL

(* One record is rewritten: the step of the two updates of a run.          *)
Rewrites(p, k) == runs' = [runs EXCEPT ![req[p].dispatch].record = k]

LEMMA RewriteRow ==
    ASSUME IInv, NEW p \in Proc, NEW k \in Record,
           pc[p] \in {"claimed", "marked", "waiting", "ending"},
           Rewrites(p, k)
    PROVE  /\ req[p].dispatch \in DOMAIN runs
           /\ DOMAIN runs' = DOMAIN runs
           /\ runs'[req[p].dispatch].record = k
           /\ ~runs[req[p].dispatch].record.ended
           /\ \A e \in DOMAIN runs : /\ runs'[e].request = runs[e].request
                                     /\ e # req[p].dispatch => runs'[e] = runs[e]
<1>1. runs \in [DOMAIN runs -> [request : Requests, record : Record]]
  BY DEF IInv, TypeOK
<1>2. req[p].dispatch \in DOMAIN runs /\ ~runs[req[p].dispatch].record.ended
  BY DEF IInv, ClaimInv, RecordInv, Claimants, Active
<1>3. QED
  BY <1>1, <1>2, UpdateRecord DEF Rewrites

(* A retained request, a monetary reservation, a released slot, pinned     *)
(* terms and a recorded outcome are final (direct_api.py RunStore): every  *)
(* step of every invocation leaves them as they are.                       *)
THEOREM StoreIsMonotone == Spec => StoreNeverLosesOrReopens
<1>1. ASSUME IInv, [Next]_vars, UNCHANGED store PROVE StoreMonotone
  BY <1>1 DEF StoreMonotone, Stored, store
<1>2. ASSUME IInv, NEW p \in Proc, Claim(p) PROVE StoreMonotone
  <2> DEFINE r == req[p]
             d == req[p].dispatch
  <2>1. /\ d \notin DOMAIN runs
        /\ \A e \in DOMAIN runs : e \in DOMAIN runs' /\ runs'[e] = runs[e]
    BY <1>2 DEF Claim, Put
  <2>2. d \notin DOMAIN reservations
    BY <1>2, <2>1 DEF IInv, SlotInv
  <2>3. \A e \in DOMAIN reservations : e \in DOMAIN reservations'
                                       /\ reservations'[e] = reservations[e]
    BY <1>2, <2>2 DEF Claim, Put
  <2>4. \A s \in DOMAIN config : s \in DOMAIN config' /\ config'[s] = config[s]
    BY <1>2 DEF Claim, Put, LedgerAdmits
  <2>5. QED
    BY <2>1, <2>3, <2>4 DEF StoreMonotone, Stored
<1>3. ASSUME IInv, NEW p \in Proc, MarkContact(p) PROVE StoreMonotone
  <2>1. ContactStarted(rec[p]) \in Record
    BY <1>3, ConstructorTypes DEF IInv, TypeOK, States
  <2>2. /\ Rewrites(p, ContactStarted(rec[p]))
        /\ pc[p] \in {"claimed", "ending"}
        /\ UNCHANGED <<reservations, config>>
    BY <1>3 DEF MarkContact, Rewrites
  <2>3. /\ DOMAIN runs' = DOMAIN runs
        /\ ~runs[req[p].dispatch].record.ended
        /\ \A e \in DOMAIN runs : /\ runs'[e].request = runs[e].request
                                  /\ e # req[p].dispatch => runs'[e] = runs[e]
    BY <1>3, <2>1, <2>2, RewriteRow
  <2>4. QED
    BY <2>2, <2>3 DEF StoreMonotone, Stored
<1>4. ASSUME IInv, NEW p \in Proc, FinalUpdate(p) PROVE StoreMonotone
  <2>1. Ended(rec[p]) \in Record
    BY <1>4, EndedType DEF IInv, TypeOK
  <2>2. /\ Rewrites(p, Ended(rec[p]))
        /\ pc[p] \in {"claimed", "ending"}
        /\ UNCHANGED <<reservations, config>>
    BY <1>4 DEF FinalUpdate, Rewrites
  <2>3. /\ DOMAIN runs' = DOMAIN runs
        /\ ~runs[req[p].dispatch].record.ended
        /\ \A e \in DOMAIN runs : /\ runs'[e].request = runs[e].request
                                  /\ e # req[p].dispatch => runs'[e] = runs[e]
    BY <1>4, <2>1, <2>2, RewriteRow
  <2>4. QED
    BY <2>2, <2>3 DEF StoreMonotone, Stored
<1>5. ASSUME IInv, NEW p \in Proc, CloseSlot(p) PROVE StoreMonotone
  BY <1>5 DEF IInv, TypeOK, CloseSlot, StoreMonotone, Stored
<1>6. IInv /\ [Next]_vars => StoreMonotone
  BY <1>1, <1>2, <1>3, <1>4, <1>5
     DEF Next, Run, Terminating, vars, store, Refuse, Duplicate, CancelBeforeContact,
         NoCredential, CallbackRaises, MarkContactFails, Spawn, SpawnFails, ParentAnswer,
         ParentCancel, ParentTimeout, ParentStops, StopStalls, Interrupt,
         FinalUpdateFails, CloseSlotFails, ChildSend, Crash, OrphanExit
<1>7. QED
  BY <1>6, InvCorrect, PTL DEF Spec, StoreNeverLosesOrReopens

----------------------------------------------------------------------------
(* Refinement of the abstract custody of a dispatch.                       *)

LEMMA CustodyInit == Init => Custody!Init
BY DEF Init, EmptyTable, Custody!Init, CustodyOf

(* A step that leaves the custody of every dispatch and the contacts alone. *)
LEMMA CustodyStutter ==
    ASSUME \A d \in Dispatch : CustodyOf(d)' = CustodyOf(d), UNCHANGED contacts
    PROVE  UNCHANGED Custody!vars
BY DEF Custody!vars

LEMMA CustodyStep == IInv /\ [Next]_vars => [Custody!Next]_(Custody!vars)
<1> SUFFICES ASSUME IInv, [Next]_vars PROVE [Custody!Next]_(Custody!vars)
  OBVIOUS
<1> DEFINE custody == [d \in Dispatch |-> CustodyOf(d)]
<1>1. ASSUME NEW p \in Proc
      PROVE  req[p].dispatch \in Dispatch
  BY DEF IInv, TypeOK, Dispatch
<1>2. ASSUME UNCHANGED <<runs, contacts>> PROVE UNCHANGED Custody!vars
  BY <1>2, CustodyStutter DEF CustodyOf, Stored
<1>3. ASSUME NEW p \in Proc, Claim(p), NEW d \in Dispatch, d = req[p].dispatch
      PROVE  Custody!Next
  <2>1. /\ d \notin DOMAIN runs
        /\ DOMAIN runs' = DOMAIN runs \cup {d}
        /\ ~runs'[d].record.ended
        /\ \A e \in DOMAIN runs : runs'[e] = runs[e]
        /\ UNCHANGED contacts
    BY <1>3 DEF Claim, Put, FreshRecord
  <2>2. CustodyOf(d) = "ABSENT" /\ CustodyOf(d)' = "CLAIMED"
    BY <2>1 DEF CustodyOf, Stored
  <2>3. \A e \in Dispatch : e # d => CustodyOf(e)' = CustodyOf(e)
    BY <2>1 DEF CustodyOf, Stored, OutcomeKnown
  <2>4. custody' = [custody EXCEPT ![d] = "CLAIMED"]
    BY <2>2, <2>3
  <2>5. Custody!Claim(d)
    BY <1>1, <2>1, <2>2, <2>4 DEF Custody!Claim
  <2>6. QED
    BY <1>1, <2>5 DEF Custody!Next
<1>4. ASSUME NEW p \in Proc, MarkContact(p) PROVE UNCHANGED Custody!vars
  <2> DEFINE k == ContactStarted(rec[p])
  <2>1. k \in Record /\ ~k.ended
    BY <1>4, ConstructorTypes DEF IInv, TypeOK, RecordInv, MarkContact, States
  <2>2. /\ DOMAIN runs' = DOMAIN runs
        /\ \A e \in DOMAIN runs : \/ runs'[e] = runs[e]
                                  \/ ~runs'[e].record.ended /\ ~runs[e].record.ended
    <3>1. Rewrites(p, k) /\ pc[p] = "claimed"
      BY <1>4 DEF MarkContact, Rewrites
    <3> HIDE DEF k
    <3>2. /\ DOMAIN runs' = DOMAIN runs
          /\ runs'[req[p].dispatch].record = k
          /\ ~runs[req[p].dispatch].record.ended
          /\ \A e \in DOMAIN runs : e # req[p].dispatch => runs'[e] = runs[e]
      BY <1>4, <2>1, <3>1, RewriteRow
    <3>3. QED
      BY <2>1, <3>2
  <2>3. \A e \in Dispatch : CustodyOf(e)' = CustodyOf(e)
    BY <2>2 DEF CustodyOf, Stored, OutcomeKnown
  <2>4. QED
    BY <1>4, <2>3, CustodyStutter DEF MarkContact
<1>5. ASSUME NEW p \in Proc, ChildSend(p), NEW d \in Dispatch, d = req[p].dispatch
      PROVE  Custody!Next
  <2>1. /\ CustodyOf(d) = "CLAIMED"
        /\ \A e \in Dispatch : CustodyOf(e)' = CustodyOf(e)
    BY <1>5 DEF ChildSend, store, CustodyOf, Stored, OutcomeKnown, IInv, ClaimInv,
       ChildInv, LiveChild, Contacted
  <2>2. contacts[d] = 0
    BY <1>1, <1>5 DEF ChildSend, IInv, ClaimInv, ChildInv, ContactInv
  <2>3. contacts' = [contacts EXCEPT ![d] = 1]
    BY <1>5, <2>2 DEF ChildSend
  <2>4. Custody!Contact(d)
    BY <1>1, <2>1, <2>2, <2>3 DEF Custody!Contact
  <2>5. QED
    BY <1>1, <2>4 DEF Custody!Next
<1>6. ASSUME NEW p \in Proc, FinalUpdate(p), NEW d \in Dispatch, d = req[p].dispatch
      PROVE  [Custody!Next]_(Custody!vars)
  <2> DEFINE k == Ended(rec[p])
  <2>1. /\ pc[p] = "ending"
        /\ k \in Record /\ k.ended
        /\ k.contact = rec[p].contact
        /\ UNCHANGED contacts
    BY <1>6, EndedType DEF FinalUpdate, IInv, TypeOK
  <2>2. /\ d \in DOMAIN runs
        /\ DOMAIN runs' = DOMAIN runs
        /\ runs'[d].record = k
        /\ ~runs[d].record.ended
        /\ \A e \in DOMAIN runs : e # d => runs'[e] = runs[e]
    <3>1. Rewrites(p, k)
      BY <1>6 DEF FinalUpdate, Rewrites
    <3> HIDE DEF k
    <3>2. /\ req[p].dispatch \in DOMAIN runs
          /\ DOMAIN runs' = DOMAIN runs
          /\ runs'[req[p].dispatch].record = k
          /\ ~runs[req[p].dispatch].record.ended
          /\ \A e \in DOMAIN runs : e # req[p].dispatch => runs'[e] = runs[e]
      BY <2>1, <3>1, RewriteRow
    <3>3. d = req[p].dispatch
      BY <1>6
    <3>4. /\ d \in DOMAIN runs
          /\ runs'[d].record = k
          /\ ~runs[d].record.ended
      BY <3>2, <3>3
    <3>5. \A e \in DOMAIN runs : e # d => runs'[e] = runs[e]
      BY <3>2, <3>3
    <3>6. QED
      BY <3>2, <3>4, <3>5
  <2>3. /\ k.contact = "NOT_CONTACTED" => contacts[d] = 0
        /\ k.contact = "RESPONSE_OBSERVED" => contacts[d] = 1
    <3>1. k.contact = "NOT_CONTACTED" => runs[d].record.contact = "NOT_CONTACTED"
      BY <1>6, <2>1 DEF IInv, RecordInv
    <3>2. runs[d].record.contact = "NOT_CONTACTED" => contacts[d] = 0
      BY DEF IInv, ContactInv, ClaimInv, ChildInv
    <3>3. k.contact = "RESPONSE_OBSERVED" => contacts[d] = 1
      BY <1>6, <2>1 DEF IInv, RecordInv
    <3>4. QED
      BY <3>1, <3>2, <3>3
  <2>4. k.contact \in {"NOT_CONTACTED", Contacted, "RESPONSE_OBSERVED"}
    BY <2>1 DEF Record, Contacted
  <2>5. OutcomeKnown(k) => k.contact # Contacted
    BY DEF OutcomeKnown, Contacted
  <2> HIDE DEF k
  <2>6. CustodyOf(d) = "CLAIMED"
    BY <2>2 DEF CustodyOf, Stored
  <2>7. \A e \in Dispatch : e # d => CustodyOf(e)' = CustodyOf(e)
    BY <2>2 DEF CustodyOf, Stored, OutcomeKnown
  <2>8. CASE ~OutcomeKnown(k)
    <3>1. CustodyOf(d)' = "CLAIMED"
      BY <2>2, <2>8 DEF CustodyOf, Stored, OutcomeKnown
    <3>2. \A e \in Dispatch : CustodyOf(e)' = CustodyOf(e)
      BY <2>6, <2>7, <3>1
    <3>3. QED
      BY <2>1, <3>2, CustodyStutter
  <2>9. CASE OutcomeKnown(k) /\ k.contact = "NOT_CONTACTED"
    <3>1. CustodyOf(d)' = "UNCONTACTED"
      BY <2>1, <2>2, <2>9 DEF CustodyOf, Stored, OutcomeKnown
    <3>2. custody' = [custody EXCEPT ![d] = "UNCONTACTED"]
      BY <2>7, <3>1
    <3>3. Custody!SettleUncontacted(d)
      BY <1>1, <2>1, <2>3, <2>6, <2>9, <3>2 DEF Custody!SettleUncontacted
    <3>4. QED
      BY <1>1, <3>3 DEF Custody!Next
  <2>10. CASE OutcomeKnown(k) /\ k.contact = "RESPONSE_OBSERVED"
    <3>1. CustodyOf(d)' = "ANSWERED"
      BY <2>1, <2>2, <2>10 DEF CustodyOf, Stored, OutcomeKnown
    <3>2. custody' = [custody EXCEPT ![d] = "ANSWERED"]
      BY <2>7, <3>1
    <3>3. Custody!SettleAnswered(d)
      BY <1>1, <2>1, <2>3, <2>6, <2>10, <3>2 DEF Custody!SettleAnswered
    <3>4. QED
      BY <1>1, <3>3 DEF Custody!Next
  <2>11. QED
    BY <2>4, <2>5, <2>8, <2>9, <2>10
<1>7. QED
  BY <1>1, <1>2, <1>3, <1>4, <1>5, <1>6
     DEF Next, Run, Terminating, vars, store, Refuse, Duplicate, CancelBeforeContact,
         NoCredential, CallbackRaises, MarkContactFails, Spawn, SpawnFails, ParentAnswer,
         ParentCancel, ParentTimeout, ParentStops, StopStalls, Interrupt, CloseSlot,
         FinalUpdateFails, CloseSlotFails, Crash, OrphanExit

(* The bridge implements one-shot custody: claims, contacts and recorded   *)
(* outcomes of direct_api.py happen in the order DispatchCustody allows,   *)
(* and every other step is invisible to a reader of the store.             *)
THEOREM DirectApiImplementsCustody == Spec => ImplementsCustody
<1>1. QED
  BY CustodyInit, CustodyStep, InvCorrect, PTL DEF Spec, ImplementsCustody, Custody!Spec

----------------------------------------------------------------------------
(* The budget ledger.                                                      *)

LedgerInv == /\ IsFiniteSet(DOMAIN reservations)
             /\ ConcurrencyRespected
             /\ LedgerAgrees
             /\ \A d \in DOMAIN runs :
                    EnrolledRun(d) => runs[d].request.scope \in DOMAIN config

(* A step that takes no slot and touches no row of the ledger.             *)
LEMMA LedgerKept ==
    ASSUME IInv, LedgerInv, UNCHANGED config,
           DOMAIN reservations' = DOMAIN reservations,
           \A d \in DOMAIN reservations :
                /\ reservations'[d].scope = reservations[d].scope
                /\ reservations'[d].active => reservations[d].active,
           DOMAIN runs' = DOMAIN runs,
           \A d \in DOMAIN runs : runs'[d].request = runs[d].request
    PROVE  LedgerInv'
<1>1. \A s \in DOMAIN config : Cardinality(ActiveFor(s)') <= config[s].maxConcurrent
  <2> SUFFICES ASSUME NEW s \in DOMAIN config
               PROVE  Cardinality(ActiveFor(s)') <= config[s].maxConcurrent
    OBVIOUS
  <2>1. ActiveFor(s) \subseteq DOMAIN reservations /\ ActiveFor(s)' \subseteq ActiveFor(s)
    BY DEF ActiveFor, ReservedFor
  <2>2. IsFiniteSet(ActiveFor(s))
    BY <2>1, FS_Subset DEF LedgerInv
  <2>3. /\ IsFiniteSet(ActiveFor(s)')
        /\ Cardinality(ActiveFor(s)') <= Cardinality(ActiveFor(s))
    BY <2>1, <2>2, FS_Subset
  <2>4. /\ Cardinality(ActiveFor(s)) \in Nat
        /\ Cardinality(ActiveFor(s)') \in Nat
    BY <2>2, <2>3, FS_CardinalityType
  <2>5. Cardinality(ActiveFor(s)) <= config[s].maxConcurrent
    BY DEF LedgerInv, ConcurrencyRespected
  <2>6. config[s].maxConcurrent \in Nat
    BY DEF IInv, TypeOK
  <2>7. QED
    BY <2>3, <2>4, <2>5, <2>6
<1>2. LedgerAgrees'
  BY DEF LedgerInv, LedgerAgrees, ReservedFor, EnrolledRun, Enrolled, Ledger
<1>3. ConcurrencyRespected'
  BY <1>1 DEF ConcurrencyRespected, ActiveFor, ReservedFor
<1>4. \A d \in DOMAIN runs' : EnrolledRun(d)' => runs'[d].request.scope \in DOMAIN config'
  BY DEF LedgerInv, EnrolledRun
<1>5. QED
  BY <1>2, <1>3, <1>4 DEF LedgerInv

(* The claim counts the slots under the transaction that takes one.        *)
LEMMA LedgerClaim ==
    ASSUME IInv, LedgerInv, NEW p \in Proc, Claim(p)
    PROVE  LedgerInv'
<1>1. PICK r, d, t : r = req[p] /\ d = r.dispatch /\ t = r.scope
  OBVIOUS
<1>2. /\ r \in Requests /\ r.maxConcurrent \in Nat
      /\ d \notin DOMAIN runs
      /\ d \notin DOMAIN reservations
      /\ runs' = Put(runs, d, [request |-> r, record |-> FreshRecord])
  BY <1>1, RequestsAssumption DEF Claim, IInv, TypeOK, SlotInv, Request
<1>3. /\ DOMAIN runs' = DOMAIN runs \cup {d}
      /\ runs'[d].request = r
      /\ \A e \in DOMAIN runs : runs'[e] = runs[e]
  BY <1>2 DEF Put
<1>4. CASE ~Enrolled(r)
  <2>1. UNCHANGED <<config, reservations>>
    BY <1>1, <1>4 DEF Claim
  <2>2. ReservedFor(t) = ReservedFor(t)'
    BY <2>1 DEF ReservedFor
  <2>3. ConcurrencyRespected'
    BY <2>1 DEF LedgerInv, ConcurrencyRespected, ActiveFor, ReservedFor
  <2>4. LedgerAgrees'
    BY <1>3, <1>4, <2>1 DEF LedgerInv, LedgerAgrees, ReservedFor, EnrolledRun
  <2>5. \A e \in DOMAIN runs' : EnrolledRun(e)' => runs'[e].request.scope \in DOMAIN config'
    BY <1>3, <1>4, <2>1 DEF LedgerInv, EnrolledRun
  <2>6. QED
    BY <2>1, <2>3, <2>4, <2>5 DEF LedgerInv
<1>5. CASE Enrolled(r)
  <2> DEFINE slot == [scope |-> t, reserved |-> r.reserved, active |-> TRUE]
  <2>1. /\ config' = Put(config, t, Ledger(r))
        /\ reservations' = Put(reservations, d, slot)
        /\ LedgerAdmits(r)
    BY <1>1, <1>5 DEF Claim
  <2>2. /\ DOMAIN config' = DOMAIN config \cup {t}
        /\ config'[t] = Ledger(r)
        /\ \A s \in DOMAIN config : config'[s] = config[s]
    BY <1>1, <2>1 DEF Put, LedgerAdmits
  <2>3. /\ DOMAIN reservations' = DOMAIN reservations \cup {d}
        /\ reservations'[d] = slot
        /\ \A e \in DOMAIN reservations : reservations'[e] = reservations[e]
    BY <1>2, <2>1 DEF Put
  <2>4. IsFiniteSet(DOMAIN reservations')
    BY <2>3, FS_AddElement DEF LedgerInv
  <2>5. /\ ActiveFor(t)' = ActiveFor(t) \cup {d}
        /\ \A s : s # t => ActiveFor(s)' = ActiveFor(s)
        /\ d \in ReservedFor(t)'
        /\ \A s : ReservedFor(s) \subseteq ReservedFor(s)'
    BY <2>3 DEF ActiveFor, ReservedFor
  <2>6. /\ IsFiniteSet(ActiveFor(t))
        /\ d \notin ActiveFor(t)
        /\ Cardinality(ActiveFor(t)) < r.maxConcurrent
    <3>1. ActiveFor(t) \subseteq DOMAIN reservations
      BY DEF ActiveFor, ReservedFor
    <3>2. QED
      BY <1>1, <1>2, <2>1, <3>1, FS_Subset DEF LedgerInv, LedgerAdmits
  <2>7. Cardinality(ActiveFor(t)') <= r.maxConcurrent
    <3>1. /\ Cardinality(ActiveFor(t) \cup {d}) = Cardinality(ActiveFor(t)) + 1
          /\ Cardinality(ActiveFor(t)) \in Nat
      BY <2>6, FS_AddElement, FS_CardinalityType
    <3>2. QED
      BY <1>2, <2>5, <2>6, <3>1
  <2>8. config'[t].maxConcurrent = r.maxConcurrent
    BY <2>2 DEF Ledger
  <2>9. ConcurrencyRespected'
    <3> SUFFICES ASSUME NEW s \in DOMAIN config'
                 PROVE  Cardinality(ActiveFor(s)') <= config'[s].maxConcurrent
      BY DEF ConcurrencyRespected, ActiveFor, ReservedFor
    <3>1. CASE s = t
      BY <2>7, <2>8, <3>1
    <3>2. CASE s # t
      <4>1. /\ s \in DOMAIN config
            /\ ActiveFor(s)' = ActiveFor(s)
            /\ config'[s] = config[s]
        BY <2>2, <2>5, <3>2
      <4>2. Cardinality(ActiveFor(s)) <= config[s].maxConcurrent
        BY <4>1 DEF LedgerInv, ConcurrencyRespected
      <4>3. QED
        BY <4>1, <4>2
    <3>3. QED
      BY <3>1, <3>2
  <2>10. ASSUME NEW e \in DOMAIN runs', Enrolled(runs'[e].request),
                NEW s, s = runs'[e].request.scope
         PROVE  /\ e \in ReservedFor(s)'
                /\ config'[s] = Ledger(runs'[e].request)
                /\ s \in DOMAIN config'
    <3>1. CASE e = d
      BY <1>1, <1>3, <2>2, <2>5, <2>10, <3>1
    <3>2. CASE e # d
      <4>1. /\ e \in DOMAIN runs /\ runs'[e] = runs[e]
            /\ EnrolledRun(e)
        BY <1>3, <2>10, <3>2 DEF EnrolledRun
      <4>2. /\ e \in ReservedFor(s)
            /\ config[s] = Ledger(runs[e].request)
            /\ s \in DOMAIN config
        BY <2>10, <4>1 DEF LedgerInv, LedgerAgrees
      <4>3. QED
        BY <2>2, <2>5, <4>1, <4>2
    <3>3. QED
      BY <3>1, <3>2
  <2>11. \A s \in DOMAIN config' : ReservedFor(s)' # {}
    BY <2>2, <2>5 DEF LedgerInv, LedgerAgrees
  <2>12. \A e \in DOMAIN runs' : Enrolled(runs'[e].request) =>
            \A s : s = runs'[e].request.scope =>
                /\ e \in DOMAIN reservations' /\ reservations'[e].scope = s
                /\ config'[s] = Ledger(runs'[e].request)
                /\ s \in DOMAIN config'
    BY <2>10 DEF ReservedFor
  <2>13. QED
    BY <2>4, <2>9, <2>11, <2>12 DEF LedgerInv, LedgerAgrees, EnrolledRun, ReservedFor
<1>6. QED
  BY <1>4, <1>5

LEMMA LedgerStep == IInv /\ LedgerInv /\ [Next]_vars => LedgerInv'
<1> SUFFICES ASSUME IInv, LedgerInv, [Next]_vars PROVE LedgerInv'
  OBVIOUS
<1>1. CASE UNCHANGED store
  BY <1>1, LedgerKept DEF store
<1>2. ASSUME NEW p \in Proc, NEW k \in Record,
             pc[p] \in {"claimed", "marked", "waiting", "ending"},
             Rewrites(p, k),
             UNCHANGED <<reservations, config>>
      PROVE  LedgerInv'
  <2>1. /\ DOMAIN runs' = DOMAIN runs
        /\ \A e \in DOMAIN runs : runs'[e].request = runs[e].request
    BY <1>2, RewriteRow
  <2>2. QED
    BY <1>2, <2>1, LedgerKept
<1>3. ASSUME NEW p \in Proc, MarkContact(p) PROVE LedgerInv'
  <2>1. ContactStarted(rec[p]) \in Record
    BY <1>3, ConstructorTypes DEF IInv, TypeOK, States
  <2>2. /\ Rewrites(p, ContactStarted(rec[p]))
        /\ pc[p] \in {"claimed", "ending"}
        /\ UNCHANGED <<reservations, config>>
    BY <1>3 DEF MarkContact, Rewrites
  <2>3. QED
    BY <1>2, <2>1, <2>2
<1>4. ASSUME NEW p \in Proc, FinalUpdate(p) PROVE LedgerInv'
  <2>1. Ended(rec[p]) \in Record
    BY <1>4, EndedType DEF IInv, TypeOK
  <2>2. /\ Rewrites(p, Ended(rec[p]))
        /\ pc[p] \in {"claimed", "ending"}
        /\ UNCHANGED <<reservations, config>>
    BY <1>4 DEF FinalUpdate, Rewrites
  <2>3. QED
    BY <1>2, <2>1, <2>2
<1>5. ASSUME NEW p \in Proc, CloseSlot(p) PROVE LedgerInv'
  <2>1. /\ DOMAIN reservations' = DOMAIN reservations
        /\ \A d \in DOMAIN reservations :
                /\ reservations'[d].scope = reservations[d].scope
                /\ reservations'[d].active => reservations[d].active
        /\ UNCHANGED <<runs, config>>
    BY <1>5 DEF IInv, TypeOK, CloseSlot
  <2>2. QED
    BY <2>1, LedgerKept
<1>6. QED
  BY <1>1, <1>3, <1>4, <1>5, LedgerClaim
     DEF Next, Run, Terminating, vars, store, Refuse, Duplicate, CancelBeforeContact,
         NoCredential, CallbackRaises, MarkContactFails, Spawn, SpawnFails, ParentAnswer,
         ParentCancel, ParentTimeout, ParentStops, StopStalls, Interrupt,
         FinalUpdateFails, CloseSlotFails, ChildSend, Crash, OrphanExit

LEMMA LedgerCorrect == Spec => []LedgerInv
<1>1. Init => LedgerInv
  BY FS_EmptySet DEF Init, LedgerInv, ConcurrencyRespected, LedgerAgrees, EmptyTable
<1>2. QED
  BY <1>1, LedgerStep, InvCorrect, PTL DEF Spec

(* The enrolled limit on concurrent requests is kept in every scope: the   *)
(* claim transaction counts the slots it adds to (direct_api.py claim).    *)
THEOREM LimitIsKept == Spec => []ConcurrencyRespected
<1>1. QED
  BY LedgerCorrect, PTL DEF LedgerInv

(* All dispatches of a scope share the terms pinned by the first of them,  *)
(* and no scope is pinned without one (direct_api.py claim).               *)
THEOREM LedgerIsOne == Spec => []LedgerAgrees
<1>1. QED
  BY LedgerCorrect, PTL DEF LedgerInv

----------------------------------------------------------------------------
(* The money.                                                              *)

(* A record that calls a dispatch completed has usage within the limits.   *)
UsageFits(r, k) ==
    Enrolled(r) /\ k.state = "PROVIDER_COMPLETED" =>
        k.usage.prompt <= r.maxPrompt /\ k.usage.completion <= r.maxCompletion

UsageInv ==
    /\ \A p \in Proc : pc[p] \in {"claimed", "marked", "waiting", "ending"} =>
            UsageFits(req[p], rec[p])
    /\ \A d \in DOMAIN runs : UsageFits(runs[d].request, runs[d].record)

(* A reservation is that of an admitted request, and covers its envelope.  *)
Admits(r, row) ==
    /\ Enrolled(r) /\ SpendLimitsHold(r)
    /\ row.scope = r.scope
    /\ row.reserved = r.reserved

AdmitInv ==
    \A d \in DOMAIN reservations :
        d \in DOMAIN runs /\ Admits(runs[d].request, reservations[d])

ReservedInBudget == \A s \in DOMAIN config : TotalReserved(s) <= config[s].budget

SpendInv == UsageInv /\ AdmitInv /\ ReservedInBudget

(* What run() makes of an answer calls nothing completed over its limits.  *)
LEMMA AnswerFits ==
    ASSUME NEW r \in Requests, NEW k \in Record, NEW a \in Answers,
           NEW cancelled \in BOOLEAN
    PROVE  UsageFits(r, AnswerRecord(r, k, a, cancelled))
<1> DEFINE n == AnswerRecord(r, k, a, cancelled)
           kept == [k EXCEPT !.canonical = a.canonical]
           read == [kept EXCEPT !.usage = a.usage]
<1>1. /\ a.kind \in {"RESPONSE", "OVER_BOUND", "TIMEOUT", "FAILED"}
      /\ a.body \in {"MALFORMED", "OTHER_MODEL", "NO_CHOICE", "NO_OUTPUT", "TEXT"}
      /\ a.usage \in Usage
      /\ r.maxPrompt \in Nat /\ r.maxCompletion \in Nat
  BY AnswersAssumption, RequestsAssumption DEF Answer, Request
<1>2. \A s : /\ Uncertain(k, s).state = s
             /\ Observed(k, s).state = s
             /\ Observed(kept, s).state = s
             /\ Observed(read, s).state = s /\ Observed(read, s).usage = a.usage
  BY DEF Uncertain, Observed, Record
<1>3. \A status : StatusState(status) # "PROVIDER_COMPLETED"
  BY DEF StatusState
<1>4. SUFFICES ASSUME n.state = "PROVIDER_COMPLETED"
               PROVE  \/ /\ n.usage.prompt <= r.maxPrompt
                         /\ n.usage.completion <= r.maxCompletion
                      \/ ~Enrolled(r)
  BY DEF UsageFits
<1> HIDE DEF kept, read
<1>5. n = CompletionRecord(r, k, a)
  BY <1>1, <1>2, <1>3, <1>4 DEF AnswerRecord
<1>6. /\ n = Observed(read, "PROVIDER_COMPLETED")
      /\ ~(a.usage.observed /\ Enrolled(r) /\ UsageOverBound(r, a.usage))
  BY <1>1, <1>2, <1>4, <1>5 DEF CompletionRecord, kept, read
<1>7. n.usage = a.usage
  BY <1>2, <1>6
<1> HIDE DEF n
<1>8. CASE a.usage = Unobserved
  BY <1>1, <1>7, <1>8 DEF Unobserved
<1>9. CASE a.usage # Unobserved
  <2>1. a.usage.observed /\ a.usage.prompt \in Nat /\ a.usage.completion \in Nat
    BY <1>1, <1>9 DEF Usage
  <2> QED BY <1>1, <1>6, <1>7, <2>1 DEF UsageOverBound
<1> QED BY <1>8, <1>9

(* The records between answers keep usage and call nothing completed.      *)
LEMMA OtherFits ==
    ASSUME NEW r, NEW k \in Record
    PROVE  /\ UsageFits(r, k) => UsageFits(r, ContactStarted(k)) /\ UsageFits(r, Ended(k))
           /\ \A s : s # "PROVIDER_COMPLETED" =>
                  UsageFits(r, Uncertain(k, s)) /\ UsageFits(r, Uncertain(ContactStarted(k), s))
           /\ UsageFits(r, FreshRecord)
<1>1. /\ ContactStarted(k).state = k.state /\ ContactStarted(k).usage = k.usage
      /\ Ended(k).state = k.state /\ Ended(k).usage = k.usage
      /\ \A s : Uncertain(k, s).state = s /\ Uncertain(ContactStarted(k), s).state = s
      /\ FreshRecord.state # "PROVIDER_COMPLETED"
  BY DEF ContactStarted, Ended, Uncertain, FreshRecord, Record
<1> QED BY <1>1 DEF UsageFits

LEMMA UsageStep == IInv /\ UsageInv /\ [Next]_vars => UsageInv'
<1> SUFFICES ASSUME IInv, UsageInv, [Next]_vars PROVE UsageInv'
  OBVIOUS
<1> DEFINE Busy == {"claimed", "marked", "waiting", "ending"}
<1>1. \A p \in Proc : rec[p] \in Record /\ req[p] \in Requests
  BY DEF IInv, TypeOK
<1>2. ASSUME UNCHANGED <<runs, req>>, NEW p \in Proc, NEW k, UsageFits(req[p], k),
             rec' = [rec EXCEPT ![p] = k], NEW l, Goto(p, l)
      PROVE  UsageInv'
  BY <1>2 DEF UsageInv, IInv, TypeOK, Goto
<1>3. ASSUME UNCHANGED <<runs, req, rec>>, NEW p \in Proc,
             NEW l, l \notin Busy \/ pc[p] \in Busy, Goto(p, l)
      PROVE  UsageInv'
  BY <1>3 DEF UsageInv, IInv, TypeOK, Goto
<1>4. ASSUME UNCHANGED <<runs, req, rec, pc>> PROVE UsageInv'
  BY <1>4 DEF UsageInv
<1>5. ASSUME NEW p \in Proc, NEW k \in Record, pc[p] \in Busy, UsageFits(req[p], k),
             Rewrites(p, k), rec' = [rec EXCEPT ![p] = k], UNCHANGED req,
             NEW l, Goto(p, l)
      PROVE  UsageInv'
  <2>1. runs[req[p].dispatch].request = req[p]
    BY <1>5 DEF IInv, ClaimInv, Claimants, Active
  <2>2. \A d \in DOMAIN runs' : UsageFits(runs'[d].request, runs'[d].record)
    BY <1>5, <2>1, RewriteRow DEF UsageInv
  <2> QED BY <1>5, <2>2 DEF UsageInv, IInv, TypeOK, Goto
<1>6. ASSUME NEW p \in Proc, Refuse(p) \/ FinalUpdateFails(p) \/ CloseSlotFails(p) \/ Crash(p)
      PROVE  UsageInv'
  BY <1>3, <1>6 DEF Refuse, FinalUpdateFails, CloseSlotFails, Crash, store
<1>7. ASSUME NEW p \in Proc, Duplicate(p) PROVE UsageInv'
  <2>1. UsageFits(req[p], runs[req[p].dispatch].record)
    BY <1>7 DEF Duplicate, UsageInv
  <2> QED BY <1>2, <1>7, <2>1 DEF Duplicate, store
<1>8. ASSUME NEW p \in Proc, Claim(p) PROVE UsageInv'
  <2>1. UsageFits(req[p], FreshRecord)
    BY <1>1, OtherFits
  <2> DEFINE d == req[p].dispatch
             row == [request |-> req[p], record |-> FreshRecord]
  <2>2. runs' = Put(runs, d, row) /\ d \notin DOMAIN runs
    BY <1>8 DEF Claim
  <2>3. /\ DOMAIN runs' = DOMAIN runs \cup {d}
        /\ runs'[d] = row
        /\ \A e \in DOMAIN runs : runs'[e] = runs[e]
    <3> HIDE DEF d, row
    <3> QED BY <2>2 DEF Put
  <2>4. UsageFits(runs'[d].request, runs'[d].record)
    BY <2>1, <2>3
  <2>5. \A e \in DOMAIN runs' : UsageFits(runs'[e].request, runs'[e].record)
    BY <2>3, <2>4 DEF UsageInv
  <2> QED BY <1>8, <2>1, <2>5 DEF Claim, UsageInv, IInv, TypeOK, Goto
<1>9. ASSUME NEW p \in Proc,
             \/ CancelBeforeContact(p) \/ NoCredential(p) \/ CallbackRaises(p)
             \/ MarkContactFails(p) \/ SpawnFails(p) \/ StopStalls(p)
             \/ ParentCancel(p) \/ ParentTimeout(p)
      PROVE  UsageInv'
  <2>1. PICK k, s :
            /\ k \in {rec[p], ContactStarted(rec[p])}
            /\ s # "PROVIDER_COMPLETED"
            /\ EndWith(p, Uncertain(k, s))
            /\ UNCHANGED <<runs, req>>
    BY <1>9 DEF CancelBeforeContact, NoCredential, CallbackRaises, MarkContactFails,
        SpawnFails, StopStalls, ParentCancel, ParentTimeout, ParentStops, store
  <2>2. UsageFits(req[p], Uncertain(k, s))
    BY <1>1, <2>1, OtherFits
  <2> QED BY <1>2, <2>1, <2>2 DEF EndWith
<1>10. ASSUME NEW p \in Proc, ParentAnswer(p) PROVE UsageInv'
  <2>1. PICK a \in Answers, cancelled \in BOOLEAN :
            EndWith(p, AnswerRecord(req[p], rec[p], a, cancelled))
    BY <1>10 DEF ParentAnswer
  <2>2. UsageFits(req[p], AnswerRecord(req[p], rec[p], a, cancelled))
    BY <1>1, AnswerFits
  <2> QED BY <1>2, <1>10, <2>1, <2>2 DEF EndWith, ParentAnswer, store
<1>11. ASSUME NEW p \in Proc, Interrupt(p) PROVE UsageInv'
  <2>1. UsageFits(req[p], rec[p])
    BY <1>11 DEF Interrupt, UsageInv
  <2> QED BY <1>2, <1>11, <2>1 DEF Interrupt, EndWith, store
<1>12. ASSUME NEW p \in Proc, MarkContact(p) PROVE UsageInv'
  <2>1. /\ ContactStarted(rec[p]) \in Record
        /\ UsageFits(req[p], ContactStarted(rec[p]))
    BY <1>1, <1>12, ConstructorTypes, OtherFits DEF MarkContact, UsageInv, States
  <2> QED BY <1>5, <1>12, <2>1 DEF MarkContact, Rewrites
<1>13. ASSUME NEW p \in Proc, FinalUpdate(p) PROVE UsageInv'
  <2>1. Ended(rec[p]) \in Record /\ UsageFits(req[p], Ended(rec[p]))
    BY <1>1, <1>13, EndedType, OtherFits DEF FinalUpdate, UsageInv
  <2> QED BY <1>5, <1>13, <2>1 DEF FinalUpdate, Rewrites
<1>14. ASSUME NEW p \in Proc, Spawn(p) \/ CloseSlot(p) PROVE UsageInv'
  BY <1>3, <1>14 DEF Spawn, CloseSlot, store
<1>15. ASSUME NEW p \in Proc, ChildSend(p) \/ OrphanExit(p) PROVE UsageInv'
  BY <1>4, <1>15 DEF ChildSend, OrphanExit, store
<1> QED
  BY <1>4, <1>6, <1>7, <1>8, <1>9, <1>10, <1>11, <1>12, <1>13, <1>14, <1>15
     DEF Next, Run, Terminating, vars, store

(* A step that reserves nothing and drops no reservation.                  *)
LEMMA MoneyKept ==
    ASSUME IInv, LedgerInv, AdmitInv, ReservedInBudget, UNCHANGED config,
           DOMAIN reservations' = DOMAIN reservations,
           \A d \in DOMAIN reservations :
                /\ reservations'[d].scope = reservations[d].scope
                /\ reservations'[d].reserved = reservations[d].reserved,
           DOMAIN runs \subseteq DOMAIN runs',
           \A d \in DOMAIN runs : runs'[d].request = runs[d].request
    PROVE  AdmitInv' /\ ReservedInBudget'
<1>1. AdmitInv'
  BY DEF AdmitInv, Admits
<1>2. ASSUME NEW s \in DOMAIN config PROVE TotalReserved(s)' = TotalReserved(s)
  <2> DEFINE f == [d \in DOMAIN reservations |-> reservations[d].reserved]
             g == [d \in DOMAIN reservations' |-> reservations'[d].reserved]
  <2>1. ReservedFor(s)' = ReservedFor(s) /\ ReservedFor(s) \subseteq DOMAIN reservations
    BY DEF ReservedFor
  <2>2. IsFiniteSet(ReservedFor(s))
    BY <2>1, FS_Subset DEF LedgerInv
  <2>3. \A d \in ReservedFor(s) : f[d] \in Nat /\ g[d] = f[d]
    BY <2>1 DEF IInv, TypeOK
  <2>4. TotalReserved(s) = SumFunctionOnSet(f, ReservedFor(s))
    BY DEF TotalReserved
  <2>5. TotalReserved(s)' = SumFunctionOnSet(g, ReservedFor(s))
    BY <2>1 DEF TotalReserved
  <2> HIDE DEF f, g
  <2> QED BY <2>2, <2>3, <2>4, <2>5, SumSame
<1>3. \A s \in DOMAIN config' : TotalReserved(s)' <= config'[s].budget
  BY <1>2 DEF ReservedInBudget
<1> QED BY <1>1, <1>3 DEF ReservedInBudget

(* The claim adds what it checked.                                         *)
LEMMA MoneyClaim ==
    ASSUME IInv, LedgerInv, AdmitInv, ReservedInBudget, NEW p \in Proc, Claim(p)
    PROVE  AdmitInv' /\ ReservedInBudget'
<1>1. PICK r, d, t : r = req[p] /\ d = r.dispatch /\ t = r.scope
  OBVIOUS
<1>2. /\ r \in Requests /\ r.reserved \in Nat /\ r.budget \in Nat
      /\ d \notin DOMAIN runs
      /\ d \notin DOMAIN reservations
      /\ runs' = Put(runs, d, [request |-> r, record |-> FreshRecord])
  BY <1>1, RequestsAssumption DEF Claim, IInv, TypeOK, SlotInv, Request
<1>3. /\ DOMAIN runs' = DOMAIN runs \cup {d}
      /\ runs'[d].request = r
      /\ \A e \in DOMAIN runs : runs'[e] = runs[e]
  BY <1>2 DEF Put
<1>4. CASE ~Enrolled(r)
  <2>1. UNCHANGED <<config, reservations>>
    BY <1>1, <1>4 DEF Claim
  <2> QED BY <1>3, <2>1, MoneyKept
<1>5. CASE Enrolled(r)
  <2> DEFINE slot == [scope |-> t, reserved |-> r.reserved, active |-> TRUE]
             f == [e \in DOMAIN reservations |-> reservations[e].reserved]
             g == [e \in DOMAIN reservations' |-> reservations'[e].reserved]
  <2>1. /\ config' = Put(config, t, Ledger(r))
        /\ reservations' = Put(reservations, d, slot)
        /\ LedgerAdmits(r)
        /\ SpendLimitsHold(r)
    BY <1>1, <1>5 DEF Claim, Valid
  <2>2. /\ DOMAIN config' = DOMAIN config \cup {t}
        /\ config'[t] = Ledger(r)
        /\ \A s \in DOMAIN config : config'[s] = config[s]
    BY <1>1, <2>1 DEF Put, LedgerAdmits
  <2>3. /\ DOMAIN reservations' = DOMAIN reservations \cup {d}
        /\ reservations'[d] = slot
        /\ \A e \in DOMAIN reservations : reservations'[e] = reservations[e]
    BY <1>2, <2>1 DEF Put
  <2>4. AdmitInv'
    <3>1. Admits(r, slot)
      BY <1>1, <1>5, <2>1 DEF Admits
    <3> HIDE DEF slot
    <3> QED BY <1>3, <2>3, <3>1 DEF AdmitInv
  <2>5. ASSUME NEW s PROVE /\ IsFiniteSet(ReservedFor(s))
                           /\ d \notin ReservedFor(s)
                           /\ \A e \in ReservedFor(s) : f[e] \in Nat /\ g[e] = f[e]
                           /\ TotalReserved(s) = SumFunctionOnSet(f, ReservedFor(s))
                           /\ TotalReserved(s)' = SumFunctionOnSet(g, ReservedFor(s)')
    <3>1. ReservedFor(s) \subseteq DOMAIN reservations
      BY DEF ReservedFor
    <3>2. \A e \in ReservedFor(s) : f[e] \in Nat /\ g[e] = f[e]
      BY <2>3, <3>1 DEF IInv, TypeOK
    <3>3. TotalReserved(s) = SumFunctionOnSet(f, ReservedFor(s))
      BY DEF TotalReserved
    <3>4. TotalReserved(s)' = SumFunctionOnSet(g, ReservedFor(s)')
      BY DEF TotalReserved
    <3> QED BY <1>2, <3>1, <3>2, <3>3, <3>4, FS_Subset DEF LedgerInv
  <2>6. g[d] = r.reserved
    BY <2>3
  <2>7. /\ ReservedFor(t)' = ReservedFor(t) \cup {d}
        /\ \A s : s # t => ReservedFor(s)' = ReservedFor(s)
    BY <2>3 DEF ReservedFor
  <2> HIDE DEF f, g
  <2>8. \A s : /\ SumFunctionOnSet(g, ReservedFor(s)) = TotalReserved(s)
                /\ TotalReserved(s) \in Nat
    BY <2>5, SumSame, SumStep
  <2>9. TotalReserved(t)' = r.reserved + TotalReserved(t)
    <3>1. \A e \in ReservedFor(t) \cup {d} : g[e] \in Nat
      BY <1>2, <2>5, <2>6
    <3>2. SumFunctionOnSet(g, ReservedFor(t) \cup {d})
              = g[d] + SumFunctionOnSet(g, ReservedFor(t))
      BY <2>5, <3>1, SumAdd
    <3> QED BY <2>5, <2>6, <2>7, <2>8, <3>2
  <2>10. TotalReserved(t)' <= r.budget
    <3>1. TotalReserved(t) + r.reserved <= r.budget
      BY <1>1, <2>1 DEF LedgerAdmits
    <3> QED BY <1>2, <2>8, <2>9, <3>1
  <2>11. ASSUME NEW s \in DOMAIN config' PROVE TotalReserved(s)' <= config'[s].budget
    <3>1. CASE s = t
      BY <2>2, <2>10, <3>1 DEF Ledger
    <3>2. CASE s # t
      BY <2>2, <2>5, <2>7, <2>8, <3>2 DEF ReservedInBudget
    <3> QED BY <3>1, <3>2
  <2> QED BY <2>4, <2>11 DEF ReservedInBudget
<1> QED BY <1>4, <1>5

LEMMA MoneyStep ==
    IInv /\ LedgerInv /\ AdmitInv /\ ReservedInBudget /\ [Next]_vars
        => AdmitInv' /\ ReservedInBudget'
<1> SUFFICES ASSUME IInv, LedgerInv, AdmitInv, ReservedInBudget, [Next]_vars
             PROVE  AdmitInv' /\ ReservedInBudget'
  OBVIOUS
<1>1. CASE UNCHANGED store
  BY <1>1, MoneyKept DEF store
<1>2. ASSUME NEW p \in Proc, NEW k \in Record,
             pc[p] \in {"claimed", "marked", "waiting", "ending"},
             Rewrites(p, k),
             UNCHANGED <<reservations, config>>
      PROVE  AdmitInv' /\ ReservedInBudget'
  <2>1. /\ DOMAIN runs' = DOMAIN runs
        /\ \A e \in DOMAIN runs : runs'[e].request = runs[e].request
    BY <1>2, RewriteRow
  <2> QED BY <1>2, <2>1, MoneyKept
<1>3. ASSUME NEW p \in Proc, MarkContact(p) PROVE AdmitInv' /\ ReservedInBudget'
  <2>1. ContactStarted(rec[p]) \in Record
    BY <1>3, ConstructorTypes DEF IInv, TypeOK, States
  <2>2. /\ Rewrites(p, ContactStarted(rec[p]))
        /\ pc[p] \in {"claimed", "ending"}
        /\ UNCHANGED <<reservations, config>>
    BY <1>3 DEF MarkContact, Rewrites
  <2> QED BY <1>2, <2>1, <2>2
<1>4. ASSUME NEW p \in Proc, FinalUpdate(p) PROVE AdmitInv' /\ ReservedInBudget'
  <2>1. Ended(rec[p]) \in Record
    BY <1>4, EndedType DEF IInv, TypeOK
  <2>2. /\ Rewrites(p, Ended(rec[p]))
        /\ pc[p] \in {"claimed", "ending"}
        /\ UNCHANGED <<reservations, config>>
    BY <1>4 DEF FinalUpdate, Rewrites
  <2> QED BY <1>2, <2>1, <2>2
<1>5. ASSUME NEW p \in Proc, CloseSlot(p) PROVE AdmitInv' /\ ReservedInBudget'
  <2>1. /\ DOMAIN reservations' = DOMAIN reservations
        /\ \A d \in DOMAIN reservations :
                /\ reservations'[d].scope = reservations[d].scope
                /\ reservations'[d].reserved = reservations[d].reserved
        /\ UNCHANGED <<runs, config>>
    BY <1>5 DEF IInv, TypeOK, CloseSlot
  <2> QED BY <2>1, MoneyKept
<1>6. QED
  BY <1>1, <1>3, <1>4, <1>5, MoneyClaim
     DEF Next, Run, Terminating, vars, store, Refuse, Duplicate, CancelBeforeContact,
         NoCredential, CallbackRaises, MarkContactFails, Spawn, SpawnFails, ParentAnswer,
         ParentCancel, ParentTimeout, ParentStops, StopStalls, Interrupt,
         FinalUpdateFails, CloseSlotFails, ChildSend, Crash, OrphanExit

LEMMA SpendCorrect == Spec => []SpendInv
<1>1. Init => SpendInv
  BY DEF Init, SpendInv, UsageInv, AdmitInv, ReservedInBudget, EmptyTable
<1>2. IInv /\ LedgerInv /\ SpendInv /\ [Next]_vars => SpendInv'
  BY UsageStep, MoneyStep DEF SpendInv
<1> QED BY <1>1, <1>2, InvCorrect, LedgerCorrect, PTL DEF Spec

(* Prices are monotone in the envelope they price.                         *)
LEMMA PricedMonotone ==
    ASSUME NEW a \in Nat, NEW b \in Nat, NEW c \in Nat, NEW d \in Nat,
           NEW m \in Nat, NEW n \in Nat, a <= b, c <= d
    PROVE  /\ a * m + c * n \in Nat
           /\ a * m + c * n <= b * m + d * n
<1>1. ASSUME NEW x \in Nat, NEW y \in Nat, NEW z \in Nat, x <= y
      PROVE  x * z \in Nat /\ x * z <= y * z
  <2>1. PICK w \in Nat : y = x + w
    <3>1. y - x \in Nat /\ y = x + (y - x)
      BY <1>1
    <3> QED BY <3>1
  <2>2. (x + w) * z = x * z + w * z
    OBVIOUS
  <2>3. x * z \in Nat /\ w * z \in Nat
    OBVIOUS
  <2> QED BY <2>1, <2>2, <2>3
<1>2. a * m \in Nat /\ a * m <= b * m /\ c * n \in Nat /\ c * n <= d * n
  BY <1>1
<1>3. b * m \in Nat /\ d * n \in Nat
  BY <1>1
<1> QED BY <1>2, <1>3

(* The observed usage of the dispatches recorded as completed in a scope,  *)
(* priced at the pinned terms, stays within the enrolled budget, over all  *)
(* claims, endings, crashes and orphans (direct_api.py claim, run).        *)
THEOREM SpendIsBounded == Spec => []SpendWithinBudget
<1> SUFFICES ASSUME IInv, LedgerInv, SpendInv PROVE SpendWithinBudget
  BY InvCorrect, LedgerCorrect, SpendCorrect, PTL
<1> SUFFICES ASSUME NEW s \in DOMAIN config
             PROVE  SumFunctionOnSet([d \in CompletedFor(s) |-> SpentOn(d)], CompletedFor(s))
                        <= config[s].budget
  BY DEF SpendWithinBudget
<1> DEFINE f == [d \in DOMAIN reservations |-> reservations[d].reserved]
           g == [d \in CompletedFor(s) |-> SpentOn(d)]
<1>1. /\ ReservedFor(s) \subseteq DOMAIN reservations
      /\ CompletedFor(s) \in SUBSET ReservedFor(s)
  BY DEF ReservedFor, CompletedFor
<1>2. IsFiniteSet(ReservedFor(s)) /\ IsFiniteSet(CompletedFor(s))
  BY <1>1, FS_Subset DEF LedgerInv
<1>3. \A d \in ReservedFor(s) : f[d] \in Nat
  BY <1>1 DEF IInv, TypeOK
<1>4. ASSUME NEW d \in CompletedFor(s) PROVE g[d] \in Nat /\ g[d] <= f[d]
  <2> DEFINE r == runs[d].request
             u == runs[d].record.usage
  <2>1. /\ d \in DOMAIN runs /\ d \in DOMAIN reservations
        /\ Enrolled(r) /\ SpendLimitsHold(r) /\ reservations[d].reserved = r.reserved
    BY <1>1, <1>4 DEF SpendInv, AdmitInv, Admits
  <2>2. runs[d].record.state = "PROVIDER_COMPLETED"
    BY <1>4 DEF CompletedFor, Stored
  <2>3. u.prompt <= r.maxPrompt /\ u.completion <= r.maxCompletion
    BY <2>1, <2>2 DEF SpendInv, UsageInv, UsageFits
  <2>4. r \in Request /\ u \in Usage
    BY <2>1, RequestsAssumption DEF IInv, TypeOK, Record
  <2>5. /\ u.prompt \in Nat /\ u.completion \in Nat
        /\ r.maxPrompt \in Nat /\ r.maxCompletion \in Nat
        /\ r.promptPrice \in Nat /\ r.completionPrice \in Nat
    <3> HIDE DEF r, u
    <3>1. u.prompt \in Nat /\ u.completion \in Nat
      <4>1. CASE u = Unobserved
        BY <4>1 DEF Unobserved
      <4>2. CASE u # Unobserved
        BY <2>4, <4>2 DEF Usage
      <4> QED BY <4>1, <4>2
    <3> QED BY <2>4, <3>1 DEF Request
  <2>6. f[d] = Priced(r, r.maxPrompt, r.maxCompletion)
    BY <2>1 DEF SpendLimitsHold
  <2>7. g[d] = Priced(r, u.prompt, u.completion)
    BY <1>4 DEF SpentOn, Stored
  <2> HIDE DEF f, g, r, u
  <2> QED BY <2>3, <2>5, <2>6, <2>7, PricedMonotone DEF Priced
<1>5. TotalReserved(s) = SumFunctionOnSet(f, ReservedFor(s))
  BY DEF TotalReserved
<1>6. TotalReserved(s) <= config[s].budget
  BY DEF SpendInv, ReservedInBudget
<1>7. config[s].budget \in Nat
  BY DEF IInv, TypeOK
<1> HIDE DEF f, g
<1>8. /\ SumFunctionOnSet(g, CompletedFor(s)) <= SumFunctionOnSet(f, ReservedFor(s))
      /\ SumFunctionOnSet(g, CompletedFor(s)) \in Nat
      /\ SumFunctionOnSet(f, ReservedFor(s)) \in Nat
  BY <1>1, <1>2, <1>3, <1>4, SumMonotone, SumStep
<1>9. SumFunctionOnSet(g, CompletedFor(s)) <= config[s].budget
  BY <1>5, <1>6, <1>7, <1>8
<1> QED BY <1>9 DEF g

----------------------------------------------------------------------------
(* The slot.                                                               *)

(* Where the invocation of a dispatch of known outcome stands while the    *)
(* slot is still taken: about to give it back, or stopped by a fault.      *)
Releasing == {"closing"} \cup IF Faults THEN {"raised", "crashed"} ELSE {}

ReleaseInv ==
    \A d \in DOMAIN reservations :
        Stored(d).ended /\ OutcomeKnown(Stored(d)) =>
            \/ ~reservations[d].active
            \/ \E p \in Proc : req[p].dispatch = d /\ pc[p] \in Releasing

(* A step that neither takes a slot nor records an outcome.                *)
LEMMA ReleaseKept ==
    ASSUME IInv, ReleaseInv, NEW p \in Proc, NEW l, Goto(p, l),
           pc[p] \in Releasing => l \in Releasing,
           UNCHANGED <<store, req>>
    PROVE  ReleaseInv'
<1>1. pc' \in [Proc -> {pc'[q] : q \in Proc}] /\ pc'[p] = l
      /\ \A q \in Proc \ {p} : pc'[q] = pc[q]
  BY DEF IInv, TypeOK, Goto
<1>2. \A q \in Proc : pc[q] \in Releasing => pc'[q] \in Releasing
  BY <1>1
<1> QED BY <1>2 DEF ReleaseInv, Stored, OutcomeKnown, store

LEMMA ReleaseStep == IInv /\ ReleaseInv /\ [Next]_vars => ReleaseInv'
<1> SUFFICES ASSUME IInv, ReleaseInv, [Next]_vars PROVE ReleaseInv'
  OBVIOUS
<1>1. CASE UNCHANGED <<store, pc, req>>
  BY <1>1 DEF ReleaseInv, Stored, OutcomeKnown, store
<1>2. ASSUME NEW p \in Proc,
             \/ Refuse(p) \/ Duplicate(p)
             \/ CancelBeforeContact(p) \/ NoCredential(p) \/ CallbackRaises(p)
             \/ MarkContactFails(p) \/ Spawn(p) \/ SpawnFails(p)
             \/ ParentAnswer(p) \/ ParentCancel(p) \/ ParentTimeout(p) \/ StopStalls(p)
             \/ Interrupt(p) \/ FinalUpdateFails(p)
      PROVE  ReleaseInv'
  <2>1. /\ pc[p] \notin Releasing
        /\ \E l : Goto(p, l)
        /\ UNCHANGED <<store, req>>
    BY <1>2 DEF Releasing, Refuse, Duplicate, CancelBeforeContact, NoCredential,
        CallbackRaises, MarkContactFails, Spawn, SpawnFails, ParentAnswer, ParentCancel,
        ParentTimeout, ParentStops, StopStalls, Interrupt, FinalUpdateFails, EndWith, store
  <2> QED BY <2>1, ReleaseKept
<1>3. ASSUME NEW p \in Proc, CloseSlotFails(p) \/ Crash(p) PROVE ReleaseInv'
  <2>1. /\ Goto(p, "raised") \/ Goto(p, "crashed")
        /\ {"raised", "crashed"} \subseteq Releasing
        /\ UNCHANGED <<store, req>>
    BY <1>3 DEF CloseSlotFails, Crash, Releasing, store
  <2> QED BY <2>1, ReleaseKept
<1>4. ASSUME NEW p \in Proc, Claim(p) PROVE ReleaseInv'
  <2> DEFINE d == req[p].dispatch
             row == [request |-> req[p], record |-> FreshRecord]
  <2>1. d \notin DOMAIN runs /\ d \notin DOMAIN reservations /\ pc[p] = "idle"
    BY <1>4 DEF Claim, IInv, SlotInv
  <2>2. /\ runs'[d].record = FreshRecord
        /\ \A e \in DOMAIN runs : runs'[e] = runs[e]
    BY <1>4, <2>1 DEF Claim, Put
  <2>3. /\ DOMAIN reservations' \subseteq DOMAIN reservations \cup {d}
        /\ \A e \in DOMAIN reservations : reservations'[e] = reservations[e]
    BY <1>4, <2>1 DEF Claim, Put
  <2>4. req' = req /\ \A q \in Proc : pc[q] \in Releasing => pc'[q] = pc[q]
    BY <1>4, <2>1 DEF Claim, Goto, IInv, TypeOK, Releasing
  <2>5. ~FreshRecord.ended
    BY DEF FreshRecord
  <2>6. DOMAIN reservations \subseteq DOMAIN runs
    BY DEF IInv, SlotInv
  <2> HIDE DEF d, row
  <2> QED BY <2>2, <2>3, <2>4, <2>5, <2>6 DEF ReleaseInv, Stored, OutcomeKnown
<1>5. ASSUME NEW p \in Proc, NEW k \in Record,
             pc[p] \in {"claimed", "marked", "waiting", "ending"},
             Rewrites(p, k), UNCHANGED <<reservations, req>>,
             NEW l, Goto(p, l), k.ended /\ OutcomeKnown(k) => l = "closing"
      PROVE  ReleaseInv'
  <2>1. /\ pc'[p] = l
        /\ \A q \in Proc : pc[q] \in Releasing => pc'[q] = pc[q]
    BY <1>5 DEF Goto, IInv, TypeOK, Releasing
  <2>2. /\ runs'[req[p].dispatch].record = k
        /\ \A e \in DOMAIN runs : e # req[p].dispatch => runs'[e] = runs[e]
    BY <1>5, RewriteRow
  <2>3. DOMAIN reservations \subseteq DOMAIN runs /\ "closing" \in Releasing
    BY DEF IInv, SlotInv, Releasing
  <2> QED BY <1>5, <2>1, <2>2, <2>3 DEF ReleaseInv, Stored, OutcomeKnown
<1>6. ASSUME NEW p \in Proc, MarkContact(p) PROVE ReleaseInv'
  <2>1. ContactStarted(rec[p]) \in Record /\ ~ContactStarted(rec[p]).ended
    <3>1. ~rec[p].ended /\ rec[p] \in Record
      BY <1>6 DEF MarkContact, IInv, RecordInv, TypeOK
    <3> QED BY <3>1, ConstructorTypes DEF ContactStarted, Record, States
  <2> QED BY <1>5, <1>6, <2>1 DEF MarkContact, Rewrites
<1>7. ASSUME NEW p \in Proc, FinalUpdate(p) PROVE ReleaseInv'
  <2>1. Ended(rec[p]) \in Record
    BY <1>7, EndedType DEF IInv, TypeOK
  <2> QED BY <1>5, <1>7, <2>1 DEF FinalUpdate, Rewrites, AfterFinal
<1>8. ASSUME NEW p \in Proc, CloseSlot(p) PROVE ReleaseInv'
  <2> DEFINE d == req[p].dispatch
  <2>1. /\ DOMAIN reservations' = DOMAIN reservations
        /\ d \in DOMAIN reservations => ~reservations'[d].active
        /\ \A e \in DOMAIN reservations : e # d => reservations'[e] = reservations[e]
        /\ runs' = runs /\ req' = req
    BY <1>8 DEF CloseSlot, IInv, TypeOK
  <2>2. \A q \in Proc \ {p} : pc'[q] = pc[q]
    BY <1>8 DEF CloseSlot, Goto, IInv, TypeOK
  <2> HIDE DEF d
  <2>3. \A q \in Proc : req[q].dispatch # d => pc'[q] = pc[q]
    BY <2>2 DEF d
  <2> QED BY <2>1, <2>3 DEF ReleaseInv, Stored, OutcomeKnown
<1>9. ASSUME NEW p \in Proc, ChildSend(p) \/ OrphanExit(p) PROVE ReleaseInv'
  BY <1>1, <1>9 DEF ChildSend, OrphanExit, store
<1>10. CASE Terminating \/ UNCHANGED vars
  BY <1>1, <1>10 DEF Terminating, vars, store
<1> QED
  BY <1>2, <1>3, <1>4, <1>6, <1>7, <1>8, <1>9, <1>10 DEF Next, Run

LEMMA ReleaseCorrect == Spec => []ReleaseInv
<1>1. Init => ReleaseInv
  BY DEF Init, ReleaseInv, EmptyTable
<1> QED BY <1>1, ReleaseStep, InvCorrect, PTL DEF Spec

(* While nothing crashes and the store accepts what run() writes, a known  *)
(* outcome nobody works on any more has given its slot back (direct_api.py *)
(* run, the finally clause): no interleaving of invocations, orphans and   *)
(* interrupts leaves it taken.                                             *)
THEOREM KnownOutcomeIsReleased ==
    ASSUME ~Faults PROVE Spec => []KnownOutcomeReleasesSlot
<1>1. ReleaseInv => KnownOutcomeReleasesSlot
  BY DEF ReleaseInv, KnownOutcomeReleasesSlot, Releasing, Owns, Active
<1> QED BY <1>1, ReleaseCorrect, PTL

============================================================================
