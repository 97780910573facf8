------------------------ MODULE ProviderRunnerProofs ------------------------
(***************************************************************************)
(* Theorems about ProviderRunner, for every set of commands, inputs and    *)
(* events and with faults allowed.  The facts about rows and contacts do   *)
(* not depend on what a mapper makes of the envelopes it reads; the truth  *)
(* of a known outcome does, and rests on what drain() makes of a queue.    *)
(***************************************************************************)
EXTENDS ProviderRunner, DataLemmas, TLAPS

Labels == Opening \cup Working \cup Stopped

Shape ==
    /\ DOMAIN rows \subseteq Dispatch
    /\ rows \in [DOMAIN rows -> Row]
    /\ pc \in [Proc -> Labels]
    /\ job \in [Proc -> Jobs]
    /\ rec \in [Proc -> Record]
    /\ DOMAIN mapper = Proc
    /\ contacts \in [Dispatch -> Nat]

(* The turn of a dispatch and its row: nothing is sent without a claim     *)
(* that retains its thread, nothing is known without having been sent.     *)
RowInv ==
    /\ \A d \in Dispatch \ DOMAIN rows : contacts[d] = 0
    /\ \A d \in DOMAIN rows :
          /\ contacts[d] \in {0, 1}
          /\ contacts[d] = 1 => rows[d].record.thread
          /\ rows[d].record.turn => contacts[d] = 1
          /\ rows[d].record.state = "PRELAUNCH_CLOSED" => contacts[d] = 0
          /\ rows[d].record.state \in Known => contacts[d] = 1

(* How far a command that claimed its dispatch has come: its record is     *)
(* never behind the row, neither is settled, and its place tells whether   *)
(* the turn was sent.                                                      *)
ClaimInv(place, mem, kept, sent) ==
    place \in Working =>
        /\ kept.state = "OUTCOME_UNKNOWN" /\ ~kept.ended
        /\ mem.state = "OUTCOME_UNKNOWN" /\ ~mem.ended
        /\ kept.thread => mem.thread
        /\ kept.turn => mem.turn
        /\ mem.turn => sent = 1
        /\ place \in {"writing", "turnsent", "watching"} => kept.thread
        /\ place \in {"claimed", "serving", "writing"} => sent = 0
        /\ place \in {"turnsent", "watching"} => sent = 1

Claimed(p) ==
    /\ pc[p] \in Working => DispatchOf(p) \in DOMAIN rows
    /\ ClaimInv(pc[p], rec[p], rows[DispatchOf(p)].record, contacts[DispatchOf(p)])

(* A dispatch is worked on by one command.                                 *)
Sole == \A p, q \in Proc : pc[p] \in Working /\ pc[q] \in Working
                            /\ DispatchOf(p) = DispatchOf(q) => p = q

(* A mapper is there only behind the reply to a turn.                      *)
MapperInv == \A p \in Proc : mapper[p].mech # "NONE" => contacts[DispatchOf(p)] = 1

IInv == /\ Shape
        /\ RowInv
        /\ \A p \in Proc : Claimed(p)
        /\ Sole
        /\ MapperInv
        /\ AnswersAreRetained

----------------------------------------------------------------------------
(* Records.                                                                *)

LEMMA JobTypes ==
    ASSUME Shape, NEW p \in Proc
    PROVE  /\ InputOf(p) \in Inputs
           /\ DispatchOf(p) \in Dispatch
           /\ DispatchOf(p) = InputOf(p).dispatch
           /\ AttestedBy(job[p].closure) \in Closure
           /\ ObservedBy(p) \in Closure
BY JobsAssumption DEF Shape, Job, InputOf, DispatchOf, Dispatch, Closure

LEMMA FreshTypes ==
    /\ FreshRecord \in Record
    /\ \A c \in Closure : ClosedRecord(c) \in Record
BY DEF FreshRecord, ClosedRecord, Record, Closure

(* A row is added: the others stay as they are.                            *)
LEMMA InsertRow ==
    ASSUME Shape, NEW i \in Inputs, NEW k \in Record, i.dispatch \notin DOMAIN rows,
           Insert(i, k)
    PROVE  /\ DOMAIN rows' = DOMAIN rows \cup {i.dispatch}
           /\ DOMAIN rows' \subseteq Dispatch
           /\ rows' \in [DOMAIN rows' -> Row]
           /\ rows'[i.dispatch] = [input |-> i, record |-> k]
           /\ \A d \in DOMAIN rows : rows'[d] = rows[d]
BY DEF Shape, Insert, Row, Dispatch

(* A record is replaced: the rest of the store stays as it is.             *)
LEMMA UpdateRow ==
    ASSUME Shape, NEW d \in DOMAIN rows, NEW k \in Record,
           rows' = [rows EXCEPT ![d].record = k]
    PROVE  /\ DOMAIN rows' = DOMAIN rows
           /\ rows' \in [DOMAIN rows' -> Row]
           /\ rows'[d].record = k
           /\ \A e \in DOMAIN rows : rows'[e].input = rows[e].input
           /\ \A e \in DOMAIN rows : e # d => rows'[e] = rows[e]
BY DEF Shape, Row

(* Whatever the mapper has become, the outcome is one of the receipts; a   *)
(* known one needs a mapper.                                               *)
LEMMA OutcomeType ==
    ASSUME NEW p, NEW m
    PROVE  /\ Outcome(p, m) \in Known \cup {"OUTCOME_UNKNOWN"}
           /\ m.mech = "NONE" => Outcome(p, m) = "OUTCOME_UNKNOWN"
BY DEF Outcome, StateOf, Known

(* A loss does not make a mapper.                                          *)
LEMMA NoMapperStays ==
    ASSUME NEW m PROVE m.mech = "NONE" => MarkLoss(m).mech = "NONE"
BY DEF MarkLoss

----------------------------------------------------------------------------
(* The initial state.                                                      *)

LEMMA InitInv == Init => IInv
<1> SUFFICES ASSUME Init PROVE IInv
  OBVIOUS
<1>1. Shape
  BY FreshTypes DEF Init, Shape, Labels, Opening
<1>2. \A p \in Proc : pc[p] = "idle" /\ mapper[p].mech = "NONE"
  BY DEF Init, NoMapper
<1>3. RowInv
  BY DEF Init, RowInv
<1>4. QED
  BY <1>1, <1>2, <1>3
     DEF IInv, Claimed, ClaimInv, Sole, MapperInv, AnswersAreRetained, Working, Serving

----------------------------------------------------------------------------
(* The steps of the commands fall into a few kinds.                        *)

(* A command moves on without touching the store.  It works on a claim     *)
(* only if it did before, and does not go back.                            *)
Onward(from, to) ==
    to \in Working => \/ to = from
                      \/ from \in Working /\ to \in {"ending", "cut"}
                      \/ from = "claimed" /\ to = "serving"

Moves(p, place) ==
    /\ Goto(p, place)
    /\ place \in Labels \ {"returned"}
    /\ Onward(pc[p], place)
    /\ UNCHANGED <<rows, job, contacts>>

(* Its mapper may change only if it is behind a reply.                     *)
Observes(p) ==
    \/ mapper' = mapper
    \/ \E m : /\ mapper' = [mapper EXCEPT ![p] = m]
              /\ m.mech # "NONE" => contacts[DispatchOf(p)] = 1

LEMMA MapperStep ==
    ASSUME IInv, NEW p \in Proc, Observes(p), UNCHANGED <<job, contacts>>
    PROVE  DOMAIN mapper' = Proc /\ MapperInv'
BY DEF IInv, Shape, MapperInv, Observes, DispatchOf

LEMMA MoveStep ==
    ASSUME IInv, NEW p \in Proc, NEW place, Moves(p, place), Observes(p), rec' = rec
    PROVE  IInv'
<1>1. DOMAIN mapper' = Proc /\ MapperInv'
  BY MapperStep DEF Moves
<1>2. /\ pc' \in [Proc -> Labels]
      /\ pc'[p] = place
      /\ \A q \in Proc : q # p => pc'[q] = pc[q]
      /\ \A q \in Proc : DispatchOf(q)' = DispatchOf(q)
  BY DEF IInv, Shape, Moves, Goto, DispatchOf
<1>3. Shape' /\ RowInv'
  BY <1>1, <1>2 DEF IInv, Shape, RowInv, Moves
<1>4. \A q \in Proc : pc'[q] \in Working => pc[q] \in Working
  BY <1>2 DEF Moves, Onward, Working
<1>5. ASSUME NEW q \in Proc PROVE Claimed(q)'
  BY <1>2, <1>4 DEF IInv, Claimed, ClaimInv, Moves, Onward
<1>6. Sole'
  BY <1>2, <1>4 DEF IInv, Sole
<1>7. AnswersAreRetained'
  BY <1>2 DEF IInv, AnswersAreRetained, Moves
<1>8. QED
  BY <1>1, <1>3, <1>5, <1>6, <1>7 DEF IInv

(* A command returns a record that is the retained one.                    *)
LEMMA ReturnStep ==
    ASSUME IInv, NEW p \in Proc, NEW k \in Record, Return(p, k),
           Final(k) => DispatchOf(p) \in DOMAIN rows /\ rows[DispatchOf(p)].record = k,
           UNCHANGED <<rows, job, evidence>>
    PROVE  IInv'
<1>1. /\ pc' \in [Proc -> Labels] /\ rec' \in [Proc -> Record]
      /\ pc'[p] = "returned" /\ rec'[p] = k
      /\ \A q \in Proc : q # p => pc'[q] = pc[q] /\ rec'[q] = rec[q]
      /\ \A q \in Proc : DispatchOf(q)' = DispatchOf(q)
  BY DEF IInv, Shape, Return, Goto, DispatchOf, Labels, Stopped
<1>2. Shape' /\ RowInv' /\ MapperInv'
  BY <1>1 DEF IInv, Shape, RowInv, MapperInv, evidence, DispatchOf
<1>3. "returned" \notin Working
  BY DEF Working, Serving
<1>4. ASSUME NEW q \in Proc PROVE Claimed(q)'
  BY <1>1, <1>3 DEF IInv, Claimed, ClaimInv, evidence
<1>5. Sole'
  BY <1>1, <1>3 DEF IInv, Sole
<1>6. AnswersAreRetained'
  BY <1>1 DEF IInv, AnswersAreRetained
<1>7. QED
  BY <1>2, <1>4, <1>5, <1>6 DEF IInv

(* A step that concerns another dispatch leaves a claim alone.             *)
LEMMA ClaimedKept ==
    ASSUME IInv, NEW q \in Proc, pc'[q] = pc[q], rec'[q] = rec[q],
           DispatchOf(q)' = DispatchOf(q), DOMAIN rows \subseteq DOMAIN rows',
           pc[q] \in Working => /\ rows'[DispatchOf(q)] = rows[DispatchOf(q)]
                                /\ contacts'[DispatchOf(q)] = contacts[DispatchOf(q)]
    PROVE  Claimed(q)'
<1>1. CASE pc[q] \notin Working
  BY <1>1 DEF Claimed, ClaimInv
<1>2. CASE pc[q] \in Working
  <2>1. DispatchOf(q)' \in DOMAIN rows'
    BY <1>2 DEF IInv, Claimed
  <2>2. ClaimInv(pc[q], rec[q], rows[DispatchOf(q)].record, contacts[DispatchOf(q)])
    BY DEF IInv, Claimed
  <2>3. ClaimInv(pc'[q], rec'[q], rows'[DispatchOf(q)'].record, contacts'[DispatchOf(q)'])
    BY <1>2, <2>2
  <2>4. QED
    BY <2>1, <2>3 DEF Claimed
<1>3. QED
  BY <1>1, <1>2

(* A row appears where there was none.                                     *)
LEMMA InsertStep ==
    ASSUME IInv, NEW p \in Proc, NEW k \in Record, NEW place,
           DispatchOf(p) \notin DOMAIN rows, Insert(InputOf(p), k),
           rec' = [rec EXCEPT ![p] = k], Goto(p, place), UNCHANGED <<job, evidence>>,
           k.state \notin Known, ~k.turn, ~k.ended,
           \/ place = "claimed" /\ k.state = "OUTCOME_UNKNOWN"
           \/ place = "returned"
    PROVE  IInv'
<1> DEFINE d == DispatchOf(p)
<1>1. d \in Dispatch /\ InputOf(p) \in Inputs /\ InputOf(p).dispatch = d
  BY JobTypes DEF IInv
<1>2. /\ DOMAIN rows' = DOMAIN rows \cup {d}
      /\ DOMAIN rows' \subseteq Dispatch
      /\ rows' \in [DOMAIN rows' -> Row]
      /\ rows'[d] = [input |-> InputOf(p), record |-> k]
      /\ \A e \in DOMAIN rows : rows'[e] = rows[e]
  BY <1>1, InsertRow DEF IInv
<1>3. /\ pc' \in [Proc -> Labels] /\ rec' \in [Proc -> Record]
      /\ pc'[p] = place /\ rec'[p] = k
      /\ \A q \in Proc : q # p => pc'[q] = pc[q] /\ rec'[q] = rec[q]
      /\ \A q \in Proc : DispatchOf(q)' = DispatchOf(q)
      /\ contacts' = contacts /\ mapper' = mapper
  BY DEF IInv, Shape, Goto, DispatchOf, Labels, Stopped, Working, evidence
<1>4. contacts[d] = 0
  BY <1>1 DEF IInv, RowInv
<1> HIDE DEF d
<1>5. Shape'
  BY <1>2, <1>3 DEF IInv, Shape
<1>6. RowInv'
  BY <1>2, <1>3, <1>4 DEF IInv, RowInv
<1>7. MapperInv'
  BY <1>3 DEF IInv, MapperInv
<1>8. "returned" \notin Working
  BY DEF Working, Serving
<1>9. Claimed(p)'
  BY <1>2, <1>3, <1>4, <1>8 DEF Claimed, ClaimInv, d
<1>10. ASSUME NEW q \in Proc, q # p PROVE Claimed(q)'
  <2>1. pc[q] \in Working => DispatchOf(q) \in DOMAIN rows
    BY DEF IInv, Claimed
  <2>2. QED
    BY <1>2, <1>3, <1>10, <2>1, ClaimedKept
<1>11. Sole'
  <2>1. \A q \in Proc : pc[q] \in Working => DispatchOf(q) # d
    BY DEF IInv, Claimed, d
  <2>2. QED
    BY <1>3, <2>1 DEF IInv, Sole, d
<1>12. AnswersAreRetained'
  BY <1>2, <1>3 DEF IInv, AnswersAreRetained, d
<1>13. QED
  BY <1>5, <1>6, <1>7, <1>9, <1>10, <1>11, <1>12 DEF IInv

(* A command updates the row of its claim, which is not final.             *)
LEMMA UpdateStep ==
    ASSUME IInv, NEW p \in Proc, NEW k \in Record, NEW place,
           pc[p] \in Working, Update(p, k), Goto(p, place), Observes(p),
           UNCHANGED <<job, contacts>>,
           rec[p].thread => k.thread,
           k.turn => contacts[DispatchOf(p)] = 1,
           k.state # "PRELAUNCH_CLOSED",
           k.state \in Known => contacts[DispatchOf(p)] = 1,
           place \in Working \cup {"returned"},
           ClaimInv(place, k, k, contacts[DispatchOf(p)])
    PROVE  IInv'
<1> DEFINE d == DispatchOf(p)
<1>1. d \in DOMAIN rows /\ ~Final(rows[d].record)
  BY DEF IInv, Claimed, ClaimInv, Final
<1>2. /\ DOMAIN rows' = DOMAIN rows
      /\ rows' \in [DOMAIN rows' -> Row]
      /\ rows'[d].record = k
      /\ \A e \in DOMAIN rows : e # d => rows'[e] = rows[e]
  BY <1>1, UpdateRow DEF IInv, Update
<1>3. /\ pc' \in [Proc -> Labels] /\ rec' \in [Proc -> Record]
      /\ pc'[p] = place /\ rec'[p] = k
      /\ \A q \in Proc : q # p => pc'[q] = pc[q] /\ rec'[q] = rec[q]
      /\ \A q \in Proc : DispatchOf(q)' = DispatchOf(q)
  BY DEF IInv, Shape, Goto, Update, DispatchOf, Labels, Stopped
<1>4. DOMAIN mapper' = Proc /\ MapperInv'
  BY MapperStep
<1>5. contacts[d] = 1 => k.thread
  BY <1>1 DEF IInv, RowInv, Claimed, ClaimInv
<1> HIDE DEF d
<1>6. Shape'
  BY <1>2, <1>3, <1>4 DEF IInv, Shape
<1>7. RowInv'
  BY <1>2, <1>5 DEF IInv, RowInv, d
<1>8. Claimed(p)'
  BY <1>1, <1>2, <1>3 DEF Claimed, d
<1>9. \A q \in Proc : q # p /\ pc[q] \in Working => DispatchOf(q) # d
  BY DEF IInv, Sole, d
<1>10. ASSUME NEW q \in Proc, q # p PROVE Claimed(q)'
  <2>1. pc[q] \in Working => DispatchOf(q) \in DOMAIN rows
    BY DEF IInv, Claimed
  <2>2. QED
    BY <1>2, <1>3, <1>9, <1>10, <2>1, ClaimedKept
<1>11. Sole'
  BY <1>3 DEF IInv, Sole
<1>12. AnswersAreRetained'
  BY <1>1, <1>2, <1>3 DEF IInv, AnswersAreRetained, d
<1>13. QED
  BY <1>4, <1>6, <1>7, <1>8, <1>10, <1>11, <1>12 DEF IInv

(* The turn is sent, for the first time.                                   *)
LEMMA SendStep == ASSUME IInv, NEW p \in Proc, SendTurn(p) PROVE IInv'
<1> DEFINE d == DispatchOf(p)
<1>1. d \in DOMAIN rows /\ d \in Dispatch /\ contacts[d] = 0
      /\ rows[d].record.thread /\ rows[d].record.state = "OUTCOME_UNKNOWN"
  BY DEF IInv, Shape, Claimed, ClaimInv, SendTurn, Working, Serving
<1>2. /\ contacts' \in [Dispatch -> Nat]
      /\ contacts'[d] = 1
      /\ \A e \in Dispatch : e # d => contacts'[e] = contacts[e]
  BY <1>1 DEF IInv, Shape, SendTurn
<1>3. /\ pc' \in [Proc -> Labels]
      /\ pc[p] = "writing" /\ pc'[p] = "turnsent"
      /\ \A q \in Proc : q # p => pc'[q] = pc[q]
      /\ \A q \in Proc : DispatchOf(q)' = DispatchOf(q)
      /\ UNCHANGED <<rows, rec, job, mapper>>
  BY DEF IInv, Shape, SendTurn, Goto, DispatchOf, Labels, Working, Serving, custody
<1>4. \A q \in Proc : DispatchOf(q) \in Dispatch
  BY JobTypes DEF IInv
<1> HIDE DEF d
<1>5. Shape'
  BY <1>2, <1>3 DEF IInv, Shape
<1>6. RowInv'
  BY <1>1, <1>2, <1>3 DEF IInv, Shape, RowInv, Known
<1>7. MapperInv'
  BY <1>2, <1>3, <1>4 DEF IInv, MapperInv
<1>8. {"writing", "turnsent"} \subseteq Working
  BY DEF Working, Serving
<1>9. Claimed(p)'
  BY <1>1, <1>2, <1>3, <1>8 DEF IInv, Claimed, ClaimInv, d
<1>10. \A q \in Proc : q # p /\ pc[q] \in Working => DispatchOf(q) # d
  BY <1>3, <1>8 DEF IInv, Sole, d
<1>11. ASSUME NEW q \in Proc, q # p PROVE Claimed(q)'
  BY <1>2, <1>3, <1>4, <1>10, <1>11, ClaimedKept
<1>12. Sole' /\ AnswersAreRetained'
  BY <1>3, <1>8 DEF IInv, Sole, AnswersAreRetained
<1>13. QED
  BY <1>5, <1>6, <1>7, <1>9, <1>11, <1>12 DEF IInv

(* A reply is taken over in memory only.                                   *)
LEMMA ReplyStep == ASSUME IInv, NEW p \in Proc, ReplyUpdateFails(p) PROVE IInv'
<1>1. PICK k \in Record :
        /\ rec' = [rec EXCEPT ![p] = k]
        /\ k.state = rec[p].state /\ k.ended = rec[p].ended
        /\ rec[p].thread => k.thread
        /\ rec[p].turn => k.turn
        /\ k.turn => rec[p].turn \/ pc[p] = "turnsent"
  <2>1. rec \in [Proc -> Record]
    BY DEF IInv, Shape
  <2>2. CASE pc[p] = "serving" /\ rec' = [rec EXCEPT ![p].thread = TRUE]
    <3>1. [rec[p] EXCEPT !.thread = TRUE] \in Record
      BY <2>1 DEF Record
    <3>2. rec' = [rec EXCEPT ![p] = [rec[p] EXCEPT !.thread = TRUE]]
      BY <2>1, <2>2
    <3>3. QED
      BY <2>1, <3>1, <3>2 DEF Record
  <2>3. CASE pc[p] = "turnsent" /\ rec' = [rec EXCEPT ![p].turn = TRUE]
    <3>1. [rec[p] EXCEPT !.turn = TRUE] \in Record
      BY <2>1 DEF Record
    <3>2. rec' = [rec EXCEPT ![p] = [rec[p] EXCEPT !.turn = TRUE]]
      BY <2>1, <2>3
    <3>3. QED
      BY <2>1, <2>3, <3>1, <3>2 DEF Record
  <2>4. QED
    BY <2>2, <2>3 DEF ReplyUpdateFails
<1>2. /\ pc[p] \in {"serving", "turnsent"}
      /\ pc' = [pc EXCEPT ![p] = "ending"]
      /\ UNCHANGED <<rows, job, mapper, contacts>>
  BY DEF ReplyUpdateFails, Goto, custody, evidence
<1>3. /\ pc' \in [Proc -> Labels] /\ rec' \in [Proc -> Record]
      /\ pc'[p] = "ending" /\ rec'[p] = k
      /\ \A q \in Proc : q # p => pc'[q] = pc[q] /\ rec'[q] = rec[q]
      /\ \A q \in Proc : DispatchOf(q)' = DispatchOf(q)
  BY <1>1, <1>2 DEF IInv, Shape, DispatchOf, Labels, Working
<1>4. {"serving", "turnsent", "ending"} \subseteq Working
  BY DEF Working, Serving
<1>5. "ending" # "returned" /\ pc[p] \in Working
  BY <1>2, <1>4
<1>6. Shape' /\ RowInv' /\ MapperInv'
  BY <1>2, <1>3 DEF IInv, Shape, RowInv, MapperInv
<1>7. Claimed(p)'
  BY <1>1, <1>2, <1>3, <1>5 DEF IInv, Claimed, ClaimInv
<1>8. ASSUME NEW q \in Proc, q # p PROVE Claimed(q)'
  BY <1>2, <1>3, <1>8, ClaimedKept
<1>9. Sole' /\ AnswersAreRetained'
  BY <1>2, <1>3, <1>4, <1>5 DEF IInv, Sole, AnswersAreRetained
<1>10. QED
  BY <1>6, <1>7, <1>8, <1>9 DEF IInv

(* Both closures: an exact duplicate is answered, a new one retained.      *)
LEMMA CloseStep ==
    ASSUME IInv, NEW p \in Proc, NEW c \in Closure, Close(p, c),
           pc[p] \in {"open", "preflight"}
    PROVE  IInv'
<1> DEFINE d == DispatchOf(p)
           k == ClosedRecord(c)
<1>1. k \in Record /\ k.state = "PRELAUNCH_CLOSED" /\ ~k.turn /\ ~k.ended
  BY FreshTypes DEF ClosedRecord, FreshRecord
<1>2. CASE d \in DOMAIN rows /\ rows[d] = [input |-> InputOf(p), record |-> k]
  <2>1. Return(p, k) /\ UNCHANGED <<rows, job, evidence>> /\ rows[d].record = k
    BY <1>2 DEF Close
  <2>2. QED
    BY <1>1, <1>2, <2>1, ReturnStep
<1>3. CASE d \in DOMAIN rows /\ rows[d] # [input |-> InputOf(p), record |-> k]
  <2>1. Goto(p, "raised") /\ UNCHANGED <<rows, job, rec, evidence>>
    BY <1>3 DEF Close
  <2>2. Moves(p, "raised") /\ Observes(p)
    BY <2>1 DEF Moves, Observes, Onward, evidence, Labels, Stopped, Working, Serving
  <2>3. QED
    BY <2>1, <2>2, MoveStep
<1>4. CASE d \notin DOMAIN rows
  <2>1. /\ Insert(InputOf(p), k) /\ rec' = [rec EXCEPT ![p] = k]
        /\ Goto(p, "returned") /\ UNCHANGED <<job, evidence>>
    BY <1>4 DEF Close, Return
  <2> HIDE DEF k
  <2>2. QED
    BY <1>1, <1>4, <2>1, InsertStep DEF Known
<1>5. QED
  BY <1>2, <1>3, <1>4

LEMMA LookupStep == ASSUME IInv, NEW p \in Proc, Lookup(p) PROVE IInv'
<1> DEFINE d == DispatchOf(p)
<1>1. CASE d \in DOMAIN rows /\ Return(p, rows[d].record)
  <2>1. rows[d].record \in Record
    BY <1>1 DEF IInv, Shape, Row
  <2>2. UNCHANGED <<rows, job, evidence>>
    BY DEF Lookup, custody
  <2>3. QED
    BY <1>1, <2>1, <2>2, ReturnStep
<1>2. CASE \E place \in {"refused", "preflight"} : Goto(p, place) /\ UNCHANGED rec
  <2>1. PICK place \in {"refused", "preflight"} : Goto(p, place) /\ UNCHANGED rec
    BY <1>2
  <2>2. Moves(p, place) /\ Observes(p)
    BY <2>1 DEF Lookup, Moves, Observes, Onward, custody, evidence, Labels, Stopped,
       Opening, Working, Serving
  <2>3. QED
    BY <2>1, <2>2, MoveStep
<1>3. QED
  BY <1>1, <1>2 DEF Lookup

LEMMA ClaimStep == ASSUME IInv, NEW p \in Proc, Claim(p) PROVE IInv'
<1> DEFINE d == DispatchOf(p)
<1>1. CASE d \in DOMAIN rows /\ rows[d].input = InputOf(p)
  <2>1. rows[d].record \in Record
    BY <1>1 DEF IInv, Shape, Row
  <2>2. Return(p, rows[d].record) /\ UNCHANGED <<rows, job, evidence>>
    BY <1>1 DEF Claim
  <2>3. QED
    BY <1>1, <2>1, <2>2, ReturnStep
<1>2. CASE d \in DOMAIN rows /\ rows[d].input # InputOf(p)
  <2>1. Goto(p, "raised") /\ UNCHANGED <<rows, job, rec, evidence>>
    BY <1>2 DEF Claim
  <2>2. Moves(p, "raised") /\ Observes(p)
    BY <2>1 DEF Moves, Observes, Onward, evidence, Labels, Stopped, Working, Serving
  <2>3. QED
    BY <2>1, <2>2, MoveStep
<1>3. CASE d \notin DOMAIN rows
  <2> DEFINE k == FreshRecord
  <2>1. /\ Insert(InputOf(p), k) /\ rec' = [rec EXCEPT ![p] = k]
        /\ Goto(p, "claimed") /\ UNCHANGED <<job, evidence>>
    BY <1>3 DEF Claim
  <2>2. k \in Record /\ k.state = "OUTCOME_UNKNOWN" /\ ~k.turn /\ ~k.ended
    BY FreshTypes DEF FreshRecord
  <2> HIDE DEF k
  <2>3. QED
    BY <1>3, <2>1, <2>2, InsertStep DEF Known
<1>4. QED
  BY <1>1, <1>2, <1>3

LEMMA ThreadReplyStep == ASSUME IInv, NEW p \in Proc, ThreadReply(p) PROVE IInv'
<1> DEFINE d == DispatchOf(p)
           k == [rec[p] EXCEPT !.thread = TRUE]
<1>1. /\ pc[p] = "serving" /\ pc[p] \in Working
      /\ Update(p, k) /\ Goto(p, "writing") /\ UNCHANGED <<job, evidence>>
  BY DEF ThreadReply, Working, Serving
<1>2. /\ rec[p] \in Record /\ ~rec[p].ended /\ rec[p].state = "OUTCOME_UNKNOWN"
      /\ rec[p].turn => contacts[d] = 1
      /\ contacts[d] = 0
  BY <1>1 DEF IInv, Shape, Claimed, ClaimInv
<1>3. /\ k \in Record /\ k.thread /\ k.turn = rec[p].turn
      /\ ~k.ended /\ k.state = "OUTCOME_UNKNOWN"
  BY <1>2 DEF Record
<1> HIDE DEF k
<1>4. ClaimInv("writing", k, k, contacts[d])
  BY <1>2, <1>3 DEF ClaimInv
<1>5. Observes(p) /\ contacts' = contacts
  BY <1>1 DEF Observes, evidence
<1>6. "writing" \in Working /\ "OUTCOME_UNKNOWN" \notin Known \cup {"PRELAUNCH_CLOSED"}
  BY DEF Working, Serving, Known
<1>7. QED
  BY <1>1, <1>2, <1>3, <1>4, <1>5, <1>6, UpdateStep

LEMMA TurnReplyStep == ASSUME IInv, NEW p \in Proc, TurnReply(p) PROVE IInv'
<1> DEFINE d == DispatchOf(p)
           k == [rec[p] EXCEPT !.turn = TRUE]
<1>1. /\ pc[p] = "turnsent" /\ pc[p] \in Working
      /\ Update(p, k) /\ Goto(p, "watching") /\ UNCHANGED <<job, contacts>>
      /\ mapper' = [mapper EXCEPT ![p] = NewMapper]
  BY DEF TurnReply, Working, Serving
<1>2. /\ rec[p] \in Record /\ ~rec[p].ended /\ rec[p].state = "OUTCOME_UNKNOWN"
      /\ rec[p].thread
      /\ contacts[d] = 1
  BY <1>1 DEF IInv, Shape, Claimed, ClaimInv
<1>3. /\ k \in Record /\ k.thread /\ k.turn
      /\ ~k.ended /\ k.state = "OUTCOME_UNKNOWN"
  BY <1>2 DEF Record
<1> HIDE DEF k
<1>4. ClaimInv("watching", k, k, contacts[d])
  BY <1>2, <1>3 DEF ClaimInv
<1>5. Observes(p)
  BY <1>1, <1>2 DEF Observes
<1>6. "watching" \in Working /\ "OUTCOME_UNKNOWN" \notin Known \cup {"PRELAUNCH_CLOSED"}
  BY DEF Working, Serving, Known
<1>7. QED
  BY <1>1, <1>2, <1>3, <1>4, <1>5, <1>6, UpdateStep

(* What the final update writes.                                           *)
LEMMA FinalRecord ==
    ASSUME IInv, NEW p \in Proc, FinalUpdate(p)
    PROVE  \E k \in Record :
              /\ pc[p] = "cut" /\ Update(p, k) /\ Goto(p, "returned") /\ Observes(p)
              /\ UNCHANGED <<job, contacts>>
              /\ k.ended /\ k.thread = rec[p].thread /\ k.turn = rec[p].turn
              /\ k.state \in Known \cup {"OUTCOME_UNKNOWN"}
              /\ k.state \in Known => contacts[DispatchOf(p)] = 1
<1> DEFINE m == IF mapper[p].mech = "NONE" THEN mapper[p] ELSE Drained(p)
           s == Outcome(p, m)
           k == [rec[p] EXCEPT !.ended = TRUE, !.state = s]
<1>1. /\ pc[p] = "cut" /\ Update(p, k) /\ Goto(p, "returned")
      /\ mapper' = [mapper EXCEPT ![p] = m]
      /\ UNCHANGED <<job, contacts>>
  BY DEF FinalUpdate
<1>2. m.mech # "NONE" => contacts[DispatchOf(p)] = 1
  BY DEF IInv, MapperInv
<1> HIDE DEF m
<1>3. s \in Known \cup {"OUTCOME_UNKNOWN"} /\ (m.mech = "NONE" => s = "OUTCOME_UNKNOWN")
  BY OutcomeType
<1>4. "OUTCOME_UNKNOWN" \notin Known
  BY DEF Known
<1> HIDE DEF s
<1>5. /\ k \in Record /\ k.ended /\ k.state = s
      /\ k.thread = rec[p].thread /\ k.turn = rec[p].turn
  BY <1>3 DEF IInv, Shape, Record
<1>6. Observes(p)
  BY <1>1, <1>2 DEF Observes
<1> HIDE DEF k
<1>7. QED
  BY <1>1, <1>2, <1>3, <1>4, <1>5, <1>6

LEMMA FinalStep == ASSUME IInv, NEW p \in Proc, FinalUpdate(p) PROVE IInv'
<1>1. PICK k \in Record :
              /\ pc[p] = "cut" /\ Update(p, k) /\ Goto(p, "returned") /\ Observes(p)
              /\ UNCHANGED <<job, contacts>>
              /\ k.ended /\ k.thread = rec[p].thread /\ k.turn = rec[p].turn
              /\ k.state \in Known \cup {"OUTCOME_UNKNOWN"}
              /\ k.state \in Known => contacts[DispatchOf(p)] = 1
  BY FinalRecord
<1>2. pc[p] \in Working /\ "returned" \notin Working /\ k.state # "PRELAUNCH_CLOSED"
  BY <1>1 DEF Working, Serving, Known
<1>3. rec[p].turn => contacts[DispatchOf(p)] = 1
  BY <1>2 DEF IInv, Claimed, ClaimInv
<1>4. ClaimInv("returned", k, k, contacts[DispatchOf(p)])
  BY <1>2 DEF ClaimInv
<1>5. QED
  BY <1>1, <1>2, <1>3, <1>4, UpdateStep

(* The steps that leave the store alone.                                   *)
StillStep(p) ==
    \/ RefuseClosure(p) \/ Open(p) \/ CreateTable(p) \/ CheckTable(p) \/ OpenFails(p)
    \/ PreflightFails(p) \/ ConstructFails(p) \/ StartServer(p) \/ StartFails(p)
    \/ DrainUpdateFails(p) \/ OperationFails(p) \/ Drain(p) \/ Interrupt(p)
    \/ Quiesce(p) \/ QuiesceUnconfirmed(p) \/ FinalFails(p) \/ Crash(p)

LEMMA StillMoves ==
    ASSUME IInv, NEW p \in Proc, StillStep(p)
    PROVE  /\ \E place : Moves(p, place)
           /\ Observes(p)
           /\ rec' = rec
<1>1. ASSUME Open(p) PROVE \E place : Moves(p, place)
  <2>1. \E place \in {"creating", "refused", "checking"} :
           Goto(p, place) /\ UNCHANGED <<rows, job, contacts>>
    BY <1>1 DEF Open, evidence
  <2>2. QED
    BY <2>1 DEF Moves, Onward, Labels, Opening, Working, Serving, Stopped
<1>2. ASSUME CheckTable(p) PROVE \E place : Moves(p, place)
  <2>1. \E place \in {"open", "refused"} :
           Goto(p, place) /\ UNCHANGED <<rows, job, contacts>>
    BY <1>2 DEF CheckTable, custody, evidence
  <2>2. QED
    BY <2>1 DEF Moves, Onward, Labels, Opening, Working, Serving, Stopped
<1>3. ASSUME RefuseClosure(p) \/ CreateTable(p) \/ OpenFails(p) \/ PreflightFails(p)
             \/ ConstructFails(p) \/ StartServer(p) \/ StartFails(p)
             \/ FinalFails(p) \/ Crash(p)
      PROVE  \E place : Moves(p, place)
  <2>1. /\ UNCHANGED <<rows, job, contacts>>
        /\ \/ Goto(p, "refused") \/ Goto(p, "open") \/ Goto(p, "raised") \/ Goto(p, "crashed")
           \/ pc[p] = "claimed" /\ (Goto(p, "serving") \/ Goto(p, "ending"))
    BY <1>3 DEF RefuseClosure, CreateTable, OpenFails, PreflightFails, ConstructFails,
       StartServer, StartFails, FinalFails, Crash, custody, evidence
  <2>2. QED
    BY <2>1 DEF Moves, Onward, Labels, Opening, Working, Serving, Stopped
<1>4. ASSUME DrainUpdateFails(p) \/ OperationFails(p) \/ Drain(p) \/ Interrupt(p)
             \/ Quiesce(p) \/ QuiesceUnconfirmed(p)
      PROVE  \E place : Moves(p, place)
  <2>1. /\ pc[p] \in Working
        /\ UNCHANGED <<rows, job, contacts>>
        /\ \/ Goto(p, "ending") \/ Goto(p, "cut")
           \/ pc[p] = "watching" /\ Goto(p, "watching")
    BY <1>4 DEF DrainUpdateFails, OperationFails, Drain, Interrupt, Quiesce,
       QuiesceUnconfirmed, custody, evidence, Working, Serving
  <2>2. QED
    BY <2>1 DEF Moves, Onward, Labels, Working
<1>5. ASSUME DrainUpdateFails(p) \/ Drain(p) PROVE Observes(p)
  <2>1. \E m : mapper' = [mapper EXCEPT ![p] = m]
    BY <1>5 DEF DrainUpdateFails, Drain
  <2>2. contacts[DispatchOf(p)] = 1
    BY <1>5 DEF DrainUpdateFails, Drain, IInv, Claimed, ClaimInv, Working, Serving
  <2>3. QED
    BY <2>1, <2>2 DEF Observes
<1>6. ASSUME OperationFails(p) PROVE Observes(p)
  <2>1. mapper' = [mapper EXCEPT ![p] = MarkLoss(mapper[p])]
    BY <1>6 DEF OperationFails
  <2>2. MarkLoss(mapper[p]).mech # "NONE" => contacts[DispatchOf(p)] = 1
    BY NoMapperStays DEF IInv, MapperInv
  <2>3. QED
    BY <2>1, <2>2 DEF Observes
<1>7. QED
  BY <1>1, <1>2, <1>3, <1>4, <1>5, <1>6
     DEF StillStep, Observes, RefuseClosure, Open, CreateTable, CheckTable, OpenFails,
         PreflightFails, ConstructFails, StartServer, StartFails, DrainUpdateFails,
         OperationFails, Drain, Interrupt, Quiesce, QuiesceUnconfirmed, FinalFails,
         Crash, custody, evidence

(* What goes on around the commands.                                       *)
LEMMA OutsideStep ==
    ASSUME IInv, UNCHANGED <<rows, pc, job, rec, mapper, contacts>> PROVE IInv'
<1>1. Shape' /\ RowInv'
  BY DEF IInv, Shape, RowInv
<1>2. \A q \in Proc : DispatchOf(q)' = DispatchOf(q)
  BY DEF DispatchOf
<1>3. QED
  BY <1>1, <1>2 DEF IInv, Claimed, Sole, MapperInv, AnswersAreRetained

LEMMA NextInv == IInv /\ [Next]_vars => IInv'
<1> SUFFICES ASSUME IInv, [Next]_vars PROVE IInv'
  OBVIOUS
<1>1. ASSUME NEW p \in Proc, StillStep(p) PROVE IInv'
  BY <1>1, StillMoves, MoveStep
<1>2. ASSUME NEW p \in Proc, ClosePrelaunch(p) \/ CaptureFails(p) PROVE IInv'
  BY <1>2, CloseStep, JobTypes DEF IInv, ClosePrelaunch, CaptureFails
<1>3. ASSUME NEW p \in Proc, ServerEmit(p) \/ ServerExit(p) PROVE IInv'
  BY <1>3, OutsideStep DEF ServerEmit, ServerExit, custody
<1>4. ASSUME UNCHANGED vars PROVE IInv'
  BY <1>4, OutsideStep DEF vars
<1>5. QED
  BY <1>1, <1>2, <1>3, <1>4, LookupStep, ClaimStep, ReplyStep, ThreadReplyStep,
     TurnReplyStep, SendStep, FinalStep
     DEF Next, Command, StillStep, Terminating

(* The inductive invariant holds: no turn is sent without a claim that     *)
(* retains its thread, whatever is interrupted (provider_runner.py run).   *)
THEOREM RunnerInvariant == Spec => []IInv
BY InitInv, NextInv, PTL DEF Spec

----------------------------------------------------------------------------
(* The invariants.                                                         *)

(* provider_runner.py run, close-prelaunch: a dispatch is sent at most     *)
(* once, and never when it was closed, for any number of commands.         *)
THEOREM OneTurn == Spec => []OneTurnPerDispatch
<1>1. IInv => OneTurnPerDispatch
  BY DEF IInv, RowInv, OneTurnPerDispatch
<1>2. QED
  BY <1>1, RunnerInvariant, PTL

(* provider_runner.py run: the thread of a turn that was sent is retained, *)
(* and only a turn that was sent is.                                       *)
THEOREM ThreadIsRetainedFirst == Spec => []TurnIsUnderRetainedThread
<1>1. IInv => TurnIsUnderRetainedThread
  BY DEF IInv, RowInv, TurnIsUnderRetainedThread
<1>2. QED
  BY <1>1, RunnerInvariant, PTL

(* provider_runner.py run, close-prelaunch: a final record that a command  *)
(* returned is in the store.                                               *)
THEOREM AnswersAreKept == Spec => []AnswersAreRetained
<1>1. IInv => AnswersAreRetained
  BY DEF IInv
<1>2. QED
  BY <1>1, RunnerInvariant, PTL

----------------------------------------------------------------------------
(* What a step does to the store and to the contacts.                      *)

Inserts(p) ==
    \E k \in Record : /\ DispatchOf(p) \notin DOMAIN rows
                      /\ Insert(InputOf(p), k)
                      /\ k.state \in {"OUTCOME_UNKNOWN", "PRELAUNCH_CLOSED"}
                      /\ UNCHANGED contacts

Updates(p) ==
    \E k \in Record : /\ pc[p] \in Working
                      /\ Update(p, k)
                      /\ rec[p].thread => k.thread
                      /\ rec[p].turn => k.turn
                      /\ k.state \in Known \cup {"OUTCOME_UNKNOWN"}
                      /\ k.state \in Known => contacts[DispatchOf(p)] = 1
                      /\ UNCHANGED contacts

LEMMA CloseKinds ==
    ASSUME NEW p \in Proc, NEW c \in Closure, Close(p, c)
    PROVE  UNCHANGED <<rows, contacts>> \/ Inserts(p)
<1>1. ClosedRecord(c) \in Record /\ ClosedRecord(c).state = "PRELAUNCH_CLOSED"
  BY FreshTypes DEF ClosedRecord, FreshRecord
<1>2. CASE DispatchOf(p) \in DOMAIN rows
  BY <1>2 DEF Close, evidence
<1>3. CASE DispatchOf(p) \notin DOMAIN rows
  <2>1. Insert(InputOf(p), ClosedRecord(c)) /\ UNCHANGED contacts
    BY <1>3 DEF Close, evidence
  <2>2. QED
    BY <1>1, <1>3, <2>1 DEF Inserts
<1>4. QED
  BY <1>2, <1>3

LEMMA ClaimKinds ==
    ASSUME NEW p \in Proc, Claim(p)
    PROVE  UNCHANGED <<rows, contacts>> \/ Inserts(p)
<1>1. FreshRecord \in Record /\ FreshRecord.state = "OUTCOME_UNKNOWN"
  BY FreshTypes DEF FreshRecord
<1>2. CASE DispatchOf(p) \in DOMAIN rows
  BY <1>2 DEF Claim, evidence
<1>3. CASE DispatchOf(p) \notin DOMAIN rows
  <2>1. Insert(InputOf(p), FreshRecord) /\ UNCHANGED contacts
    BY <1>3 DEF Claim, evidence
  <2>2. QED
    BY <1>1, <1>3, <2>1 DEF Inserts
<1>4. QED
  BY <1>2, <1>3

LEMMA ReplyKinds ==
    ASSUME IInv, NEW p \in Proc, ThreadReply(p) \/ TurnReply(p)
    PROVE  Updates(p)
<1>1. /\ pc[p] \in Working /\ UNCHANGED contacts
      /\ \/ Update(p, [rec[p] EXCEPT !.thread = TRUE])
         \/ Update(p, [rec[p] EXCEPT !.turn = TRUE])
  BY DEF ThreadReply, TurnReply, Working, Serving, evidence
<1>2. rec[p] \in Record /\ rec[p].state = "OUTCOME_UNKNOWN"
  BY <1>1 DEF IInv, Shape, Claimed, ClaimInv
<1>3. "OUTCOME_UNKNOWN" \notin Known
  BY DEF Known
<1>4. ASSUME NEW k, k \in {[rec[p] EXCEPT !.thread = TRUE], [rec[p] EXCEPT !.turn = TRUE]}
      PROVE  /\ k \in Record /\ k.state = "OUTCOME_UNKNOWN"
             /\ rec[p].thread => k.thread
             /\ rec[p].turn => k.turn
  BY <1>2, <1>4 DEF Record
<1>5. QED
  BY <1>1, <1>3, <1>4 DEF Updates

LEMMA StepKinds ==
    ASSUME IInv, [Next]_vars
    PROVE  \/ UNCHANGED <<rows, contacts>>
           \/ \E p \in Proc : Inserts(p) \/ Updates(p) \/ SendTurn(p)
<1>1. ASSUME NEW p \in Proc, StillStep(p) PROVE UNCHANGED <<rows, contacts>>
  BY <1>1, StillMoves DEF Moves
<1>2. ASSUME NEW p \in Proc, ClosePrelaunch(p) \/ CaptureFails(p)
      PROVE  UNCHANGED <<rows, contacts>> \/ Inserts(p)
  BY <1>2, CloseKinds, JobTypes DEF IInv, ClosePrelaunch, CaptureFails
<1>3. ASSUME NEW p \in Proc, FinalUpdate(p) PROVE Updates(p)
  <2>1. PICK k \in Record :
           /\ pc[p] = "cut" /\ Update(p, k) /\ UNCHANGED contacts
           /\ k.thread = rec[p].thread /\ k.turn = rec[p].turn
           /\ k.state \in Known \cup {"OUTCOME_UNKNOWN"}
           /\ k.state \in Known => contacts[DispatchOf(p)] = 1
    BY <1>3, FinalRecord
  <2>2. QED
    BY <2>1 DEF Updates, Working
<1>4. ASSUME NEW p \in Proc,
             Lookup(p) \/ ReplyUpdateFails(p) \/ ServerEmit(p) \/ ServerExit(p)
      PROVE  UNCHANGED <<rows, contacts>>
  BY <1>4 DEF Lookup, ReplyUpdateFails, ServerEmit, ServerExit, custody, evidence
<1>5. QED
  BY <1>1, <1>2, <1>3, <1>4, ClaimKinds, ReplyKinds
     DEF Next, Command, StillStep, Terminating, vars

(* A row is rewritten by the command it belongs to, before it is final.    *)
LEMMA UpdatesRow ==
    ASSUME IInv, NEW p \in Proc, Updates(p), NEW d, d = DispatchOf(p)
    PROVE  /\ d \in DOMAIN rows /\ DOMAIN rows' = DOMAIN rows
           /\ rows[d].record.state = "OUTCOME_UNKNOWN" /\ ~Final(rows[d].record)
           /\ rows[d].record.thread => rows'[d].record.thread
           /\ rows[d].record.turn => rows'[d].record.turn
           /\ rows'[d].record.state \in Known \cup {"OUTCOME_UNKNOWN"}
           /\ rows'[d].record.state \in Known => contacts[d] = 1
           /\ \A e \in DOMAIN rows : /\ rows'[e].input = rows[e].input
                                     /\ e # d => rows'[e] = rows[e]
<1>1. PICK k \in Record :
           /\ pc[p] \in Working /\ Update(p, k)
           /\ rec[p].thread => k.thread
           /\ rec[p].turn => k.turn
           /\ k.state \in Known \cup {"OUTCOME_UNKNOWN"}
           /\ k.state \in Known => contacts[d] = 1
  BY DEF Updates
<1>2. /\ d \in DOMAIN rows
      /\ rows[d].record.state = "OUTCOME_UNKNOWN" /\ ~Final(rows[d].record)
      /\ rows[d].record.thread => rec[p].thread
      /\ rows[d].record.turn => rec[p].turn
  BY <1>1 DEF IInv, Claimed, ClaimInv, Final
<1>3. Shape /\ rows' = [rows EXCEPT ![d].record = k]
  BY <1>1 DEF IInv, Update
<1>4. QED
  BY <1>1, <1>2, <1>3, UpdateRow

LEMMA InsertsRow ==
    ASSUME IInv, NEW p \in Proc, Inserts(p), NEW d, d = DispatchOf(p)
    PROVE  /\ d \in Dispatch \ DOMAIN rows /\ DOMAIN rows' = DOMAIN rows \cup {d}
           /\ rows'[d].record.state \in {"OUTCOME_UNKNOWN", "PRELAUNCH_CLOSED"}
           /\ \A e \in DOMAIN rows : rows'[e] = rows[e]
<1>1. PICK k \in Record : /\ d \notin DOMAIN rows
                          /\ Insert(InputOf(p), k)
                          /\ k.state \in {"OUTCOME_UNKNOWN", "PRELAUNCH_CLOSED"}
  BY DEF Inserts
<1>2. d \in Dispatch /\ InputOf(p) \in Inputs /\ InputOf(p).dispatch = d /\ Shape
  BY JobTypes DEF IInv
<1>3. /\ DOMAIN rows' = DOMAIN rows \cup {d}
      /\ rows'[d] = [input |-> InputOf(p), record |-> k]
      /\ \A e \in DOMAIN rows : rows'[e] = rows[e]
  BY <1>1, <1>2, InsertRow
<1>4. QED
  BY <1>1, <1>2, <1>3

(* provider_runner.py RunStore: no step of any command drops a row,        *)
(* exchanges its input, reopens it or retracts a thread or turn.           *)
THEOREM RowsAreMonotone == Spec => RowsNeverLostOrReopened
<1> DEFINE Keeps(d) ==
              LET old == rows[d].record
              IN  /\ d \in DOMAIN rows'
                  /\ rows'[d].input = rows[d].input
                  /\ Final(old) => rows'[d].record = old
                  /\ old.thread => rows'[d].record.thread
                  /\ old.turn => rows'[d].record.turn
<1>1. ASSUME IInv, [Next]_vars, NEW d \in DOMAIN rows PROVE Keeps(d)
  <2>1. CASE rows' = rows
    BY <2>1
  <2>2. ASSUME NEW p \in Proc, Inserts(p) PROVE Keeps(d)
    BY <1>1, <2>2, InsertsRow
  <2>3. ASSUME NEW p \in Proc, Updates(p) PROVE Keeps(d)
    BY <1>1, <2>3, UpdatesRow
  <2>4. ASSUME NEW p \in Proc, SendTurn(p) PROVE rows' = rows
    BY <2>4 DEF SendTurn, custody
  <2>5. QED
    BY <1>1, <2>1, <2>2, <2>3, <2>4, StepKinds
<1>2. IInv /\ [Next]_vars => [\A d \in DOMAIN rows : Keeps(d)]_rows
  BY <1>1
<1>3. QED
  BY <1>2, RunnerInvariant, PTL DEF Spec, RowsNeverLostOrReopened

----------------------------------------------------------------------------
(* The custody of a dispatch is implemented.                               *)

LEMMA CustodyInit == Init => Custody!Init
BY DEF Init, Custody!Init, CustodyOf

LEMMA CustodyStep == IInv /\ [Next]_vars => [Custody!Next]_(Custody!vars)
<1> SUFFICES ASSUME IInv, [Next]_vars PROVE [Custody!Next]_(Custody!vars)
  OBVIOUS
<1> DEFINE held == [d \in Dispatch |-> CustodyOf(d)]
<1>1. \A p \in Proc : DispatchOf(p) \in Dispatch
  BY JobTypes DEF IInv
<1>2. CASE UNCHANGED <<rows, contacts>>
  BY <1>2 DEF CustodyOf, Custody!vars
<1>3. ASSUME NEW p \in Proc, Inserts(p), NEW d \in Dispatch, d = DispatchOf(p)
      PROVE  Custody!Next
  <2>1. /\ d \in Dispatch \ DOMAIN rows /\ DOMAIN rows' = DOMAIN rows \cup {d}
        /\ rows'[d].record.state \in {"OUTCOME_UNKNOWN", "PRELAUNCH_CLOSED"}
        /\ \A e \in DOMAIN rows : rows'[e] = rows[e]
        /\ contacts' = contacts
    BY <1>3, InsertsRow DEF Inserts
  <2>2. CustodyOf(d) = "ABSENT" /\ CustodyOf(d)' \in {"CLAIMED", "CLOSED"}
    BY <2>1 DEF CustodyOf, Known
  <2>3. \A e \in Dispatch : e # d => CustodyOf(e)' = CustodyOf(e)
    BY <2>1 DEF CustodyOf
  <2>4. held' = [held EXCEPT ![d] = CustodyOf(d)']
    BY <2>3
  <2>5. Custody!Claim(d) \/ Custody!CloseWithoutContact(d)
    BY <2>1, <2>2, <2>4 DEF Custody!Claim, Custody!CloseWithoutContact
  <2>6. QED
    BY <2>1, <2>5 DEF Custody!Next
<1>4. ASSUME NEW p \in Proc, Updates(p), NEW d \in Dispatch, d = DispatchOf(p)
      PROVE  [Custody!Next]_(Custody!vars)
  <2>1. /\ d \in DOMAIN rows /\ DOMAIN rows' = DOMAIN rows
        /\ rows[d].record.state = "OUTCOME_UNKNOWN"
        /\ rows'[d].record.state \in Known \cup {"OUTCOME_UNKNOWN"}
        /\ rows'[d].record.state \in Known => contacts[d] = 1
        /\ \A e \in DOMAIN rows : e # d => rows'[e] = rows[e]
        /\ contacts' = contacts
    BY <1>4, UpdatesRow DEF Updates
  <2>2. CustodyOf(d) = "CLAIMED"
    BY <2>1 DEF CustodyOf, Known
  <2>3. \A e \in Dispatch : e # d => CustodyOf(e)' = CustodyOf(e)
    BY <2>1 DEF CustodyOf
  <2>4. CASE rows'[d].record.state = "OUTCOME_UNKNOWN"
    <3>1. CustodyOf(d)' = "CLAIMED"
      BY <2>1, <2>4 DEF CustodyOf, Known
    <3>2. held' = held
      BY <2>2, <2>3, <3>1
    <3>3. QED
      BY <2>1, <3>2 DEF Custody!vars
  <2>5. CASE rows'[d].record.state \in Known
    <3>1. CustodyOf(d)' = "ANSWERED" /\ contacts[d] = 1
      BY <2>1, <2>5 DEF CustodyOf, Known
    <3>2. held' = [held EXCEPT ![d] = "ANSWERED"]
      BY <2>3, <3>1
    <3>3. Custody!SettleAnswered(d)
      BY <2>1, <2>2, <3>1, <3>2 DEF Custody!SettleAnswered
    <3>4. QED
      BY <3>3 DEF Custody!Next
  <2>6. QED
    BY <2>1, <2>4, <2>5
<1>5. ASSUME NEW p \in Proc, SendTurn(p), NEW d \in Dispatch, d = DispatchOf(p)
      PROVE  Custody!Next
  <2>1. /\ d \in DOMAIN rows /\ rows[d].record.state = "OUTCOME_UNKNOWN"
        /\ contacts[d] = 0
        /\ contacts' = [contacts EXCEPT ![d] = @ + 1]
        /\ rows' = rows
    BY <1>5 DEF IInv, Claimed, ClaimInv, SendTurn, Working, Serving, custody
  <2>2. CustodyOf(d) = "CLAIMED"
    BY <2>1 DEF CustodyOf, Known
  <2>3. held' = held
    BY <2>1 DEF CustodyOf
  <2>4. contacts' = [contacts EXCEPT ![d] = 1]
    BY <2>1
  <2>5. Custody!Contact(d)
    BY <2>1, <2>2, <2>3, <2>4 DEF Custody!Contact
  <2>6. QED
    BY <2>5 DEF Custody!Next
<1>6. QED
  BY <1>1, <1>2, <1>3, <1>4, <1>5, StepKinds

(* provider_runner.py implements the one-shot custody of a dispatch.       *)
THEOREM RunnerImplementsCustody == Spec => ImplementsCustody
BY CustodyInit, CustodyStep, RunnerInvariant, PTL DEF Spec, ImplementsCustody, Custody!Spec

----------------------------------------------------------------------------
(* The evidence.                                                           *)

(* Every event of w reached the queue as it was.                           *)
Heard(w) == \A j \in 1 .. Len(w) : w[j].as = "MESSAGE"

(* What a mapper that has read m.seen of the events of w stands for.       *)
MapTrue(m, w) ==
    /\ m.mech = "DISPATCHING" => m.seen = 0
    /\ m.mech = "RUNNING" =>
            /\ m.seen > 0
            /\ \A j \in 1 .. m.seen : w[j].event = "ADMITTED"
    /\ m.mech = "PARKED" =>
            /\ m.seen > 0
            /\ w[1].event = "REFUSED"
            /\ \A j \in 2 .. m.seen : w[j].event \in TurnEnds
    /\ m.mech = "COMPLETED" =>
            /\ m.seen > 1
            /\ m.status \in TurnEnds
            /\ w[m.seen].event = m.status
            /\ \A j \in 1 .. m.seen - 1 : w[j].event = "ADMITTED"

(* A mapper never stands for more than it read, nor reads more than was    *)
(* taken from the queue; an acquisition without loss heard everything.     *)
Evidence(w, h, l, m) ==
    /\ h \in 0 .. Len(w)
    /\ m.seen <= h
    /\ l \/ Heard(w)
    /\ Heard(w) => MapTrue(m, w)

EvidenceInv == \A p \in Proc : Evidence(wire[p], head[p], loss[p], mapper[p])

EvidenceTypes ==
    /\ app \in [Proc -> {"none", "running", "turn", "exited"}]
    /\ wire \in [Proc -> Seq(Envelope)]
    /\ head \in [Proc -> Nat]
    /\ loss \in [Proc -> BOOLEAN]
    /\ mapper \in [Proc -> Mapper]

(* A discrepancy stands for nothing.                                       *)
LEMMA DiscrepancyStep ==
    ASSUME NEW m \in Mapper
    PROVE  /\ Discrepancy(m) \in Mapper /\ MarkLoss(m) \in Mapper
           /\ Discrepancy(m).seen = m.seen /\ MarkLoss(m).seen = m.seen
           /\ \A w : MapTrue(Discrepancy(m), w)
           /\ \A w : MapTrue(m, w) => MapTrue(MarkLoss(m), w)
<1>1. /\ Discrepancy(m) \in Mapper
      /\ Discrepancy(m).seen = m.seen
      /\ Discrepancy(m).mech \in {"INTERRUPTED", "INDETERMINATE"}
  BY DEF Discrepancy, Mapper, Mechanisms
<1>2. \A w : MapTrue(Discrepancy(m), w)
  BY <1>1 DEF MapTrue
<1> QED BY <1>1, <1>2 DEF MarkLoss

(* One envelope more.                                                      *)
LEMMA ReceiveType ==
    ASSUME NEW m \in Mapper, NEW e \in Envelope, NEW i \in Nat
    PROVE  /\ Receive(m, e, i) \in Mapper
           /\ Receive(m, e, i).seen \in {m.seen, i}
           /\ m.mech # "NONE" => Receive(m, e, i).mech # "NONE"
<1> DEFINE next == [m EXCEPT !.seen = i,
                             !.status = IF e.as = "MESSAGE" /\ e.event \in TurnEnds
                                        THEN e.event ELSE @]
<1>1. next \in Mapper /\ next.seen = i /\ next.mech = m.mech
  BY DEF Mapper
<1>2. /\ Discrepancy(next) \in Mapper /\ Discrepancy(next).seen = i
      /\ Discrepancy(next).mech # "NONE"
  BY <1>1, DiscrepancyStep DEF Discrepancy, Mapper
<1>3. Receive(m, e, i) = IF e.as = "MISSING" THEN m
                         ELSE IF e.as = "LOSS" \/ i # m.seen + 1 THEN Discrepancy(next)
                         ELSE Observe(next, e.event)
  BY DEF Receive
<1> HIDE DEF next
<1>4. Observe(next, e.event) \in Mapper /\ Observe(next, e.event).seen = i
  BY <1>1, <1>2 DEF Observe, Mapper, Mechanisms
<1>5. m.mech # "NONE" => Observe(next, e.event).mech # "NONE"
  BY <1>1, <1>2 DEF Observe, Mapper
<1> QED BY <1>1, <1>2, <1>3, <1>4, <1>5

LEMMA ReceiveTrue ==
    ASSUME NEW w \in Seq(Envelope), NEW m \in Mapper, NEW i \in 1 .. Len(w),
           w[i].as = "MESSAGE", MapTrue(m, w)
    PROVE  MapTrue(Receive(m, w[i], i), w)
<1> DEFINE e == w[i].event
           next == [m EXCEPT !.seen = i, !.status = IF e \in TurnEnds THEN e ELSE @]
<1>1. /\ next \in Mapper /\ next.seen = i /\ next.mech = m.mech
      /\ e \in TurnEnds => next.status = e
  <2>1. i \in Nat
    OBVIOUS
  <2> HIDE DEF e
  <2> QED BY <2>1 DEF Mapper
<1>2. Receive(m, w[i], i) = IF i # m.seen + 1 THEN Discrepancy(next) ELSE Observe(next, e)
  BY DEF Receive
<1>3. m.seen \in Nat
  BY DEF Mapper
<1> HIDE DEF next, e
<1>4. MapTrue(Discrepancy(next), w)
  BY <1>1, DiscrepancyStep
<1>5. ASSUME i = m.seen + 1 PROVE MapTrue(Observe(next, e), w)
  <2>1. CASE e = "ADMITTED" /\ next.mech \in {"DISPATCHING", "RUNNING"}
    <3>1. /\ Observe(next, e).mech = "RUNNING"
          /\ Observe(next, e).seen = i
      BY <1>1, <2>1 DEF Observe, Mapper, TurnEnds
    <3>2. \A j \in 1 .. i : w[j].event = "ADMITTED"
      BY <1>1, <1>3, <1>5, <2>1 DEF MapTrue, e
    <3> QED BY <3>1, <3>2 DEF MapTrue
  <2>2. CASE e = "REFUSED" /\ next.mech = "DISPATCHING"
    <3>1. /\ Observe(next, e).mech = "PARKED"
          /\ Observe(next, e).seen = i
      BY <1>1, <2>2 DEF Observe, Mapper
    <3>2. i = 1 /\ w[1].event = "REFUSED"
      BY <1>1, <1>3, <1>5, <2>2 DEF MapTrue, e
    <3> QED BY <3>1, <3>2 DEF MapTrue
  <2>3. CASE e = "APPROVAL" /\ next.mech = "RUNNING"
    <3>1. Observe(next, e).mech = "WAITING_APPROVAL"
      BY <1>1, <2>3 DEF Observe, Mapper, TurnEnds
    <3> QED BY <3>1 DEF MapTrue
  <2>4. CASE e \in TurnEnds /\ next.mech = "RUNNING"
    <3>1. /\ Observe(next, e).mech = "COMPLETED"
          /\ Observe(next, e).seen = i
          /\ Observe(next, e).status = e
      BY <1>1, <2>4 DEF Observe, Mapper, TurnEnds
    <3>2. /\ i > 1 /\ w[i].event = e
          /\ \A j \in 1 .. i - 1 : w[j].event = "ADMITTED"
      BY <1>1, <1>3, <1>5, <2>4 DEF MapTrue, e
    <3> QED BY <2>4, <3>1, <3>2 DEF MapTrue
  <2>5. CASE e \in TurnEnds /\ next.mech = "PARKED"
    <3>1. Observe(next, e) = next
      BY <1>1, <2>5 DEF Observe, TurnEnds
    <3>2. /\ w[1].event = "REFUSED"
          /\ \A j \in 2 .. i : w[j].event \in TurnEnds
      BY <1>1, <1>3, <1>5, <2>5 DEF MapTrue, e
    <3> QED BY <1>1, <2>5, <3>1, <3>2 DEF MapTrue
  <2> QED BY <1>4, <2>1, <2>2, <2>3, <2>4, <2>5 DEF Observe
<1> QED BY <1>2, <1>4, <1>5

(* What drain() makes of the queue is one envelope after the other.        *)
LEMMA DrainedSteps ==
    ASSUME NEW p \in Proc, wire[p] \in Seq(Envelope), head[p] \in 0 .. Len(wire[p]),
           mapper[p] \in Mapper
    PROVE  \E g \in [0 .. Len(wire[p]) - head[p] -> Mapper] :
               /\ g[0] = mapper[p]
               /\ g[Len(wire[p]) - head[p]] = Drained(p)
               /\ \A i \in 1 .. Len(wire[p]) - head[p] :
                      g[i] = Receive(g[i - 1], wire[p][head[p] + i], head[p] + i)
<1> DEFINE n == Len(wire[p]) - head[p]
           w == wire[p]
           S == 1 .. n
           Solves(f) == f = [s \in SUBSET S |->
               IF s = {} THEN mapper[p]
               ELSE LET x == Max(s)
                    IN  Receive(f[s \ {x}], w[Waiting(p)[x]], Waiting(p)[x])]
           h == CHOOSE f : Solves(f)
           V == Mapper \cup {h[s] : s \in SUBSET S}
           pick == [s \in SUBSET S |-> Max(s)]
           step == [q \in S \X V |-> Receive(q[2], w[head[p] + q[1]], head[p] + q[1])]
<1>1. n \in Nat /\ head[p] \in Nat
  OBVIOUS
<1>2. DOMAIN Waiting(p) = S /\ \A i \in S : Waiting(p)[i] = head[p] + i
  BY DEF Waiting
<1>3. Drained(p) = h[S]
  BY <1>2 DEF Drained, FoldLeft, MapThenFoldSet
<1>4. \A i \in S : head[p] + i \in Nat /\ w[head[p] + i] \in Envelope
  OBVIOUS
<1>5. \A s \in SUBSET S : s # {} => pick[s] \in s /\ \A i \in s : pick[s] >= i
  <2> SUFFICES ASSUME NEW s \in SUBSET S, s # {}
               PROVE  Max(s) \in s /\ \A i \in s : Max(s) >= i
    OBVIOUS
  <2>1. \E m \in s : \A i \in s : m >= i
    BY <1>1, GreatestBelow
  <2> QED BY <2>1 DEF Max
<1>6. \A i \in S, v \in V : step[<<i, v>>] = Receive(v, w[head[p] + i], head[p] + i)
  OBVIOUS
<1>7. \A v \in Mapper : v \in V
  OBVIOUS
<1>8. \A s \in SUBSET S : h[s] \in V
  OBVIOUS
<1>9. \A s \in SUBSET S : pick[s] = Max(s)
  OBVIOUS
<1> HIDE DEF V, step, h, pick
<1>10. \A i \in S, v \in Mapper : step[<<i, v>>] \in Mapper
  BY <1>4, <1>6, <1>7, ReceiveType
<1> HIDE DEF n
<1>11. PICK g \in [SUBSET S -> Mapper] :
          /\ Recursion(g, SUBSET S, mapper[p], pick, step)
          /\ g[1 .. 0] = mapper[p]
          /\ \A i \in S : g[1 .. i] = step[<<i, g[1 .. (i - 1)]>>]
  <2>1. StaysIn(step, n, Mapper)
    BY <1>10 DEF StaysIn
  <2>2. PicksGreatest(pick, n)
    BY <1>5 DEF PicksGreatest
  <2>3. \E g \in [SUBSET (1 .. n) -> Mapper] :
            /\ Recursion(g, SUBSET (1 .. n), mapper[p], pick, step)
            /\ Iterates(g, n, mapper[p], step)
    BY <1>1, <2>1, <2>2, Iteration
  <2> QED BY <2>3 DEF Iterates
<1>12. Solves(g)
  <2> SUFFICES ASSUME NEW s \in SUBSET S, s # {}
               PROVE  g[s] = Receive(g[s \ {Max(s)}], w[Waiting(p)[Max(s)]], Waiting(p)[Max(s)])
    BY <1>11 DEF Recursion
  <2>1. Max(s) \in s /\ Max(s) \in S /\ g[s \ {Max(s)}] \in Mapper
    BY <1>5, <1>9
  <2>2. g[s] = step[<<Max(s), g[s \ {Max(s)}]>>]
    BY <1>9, <1>11 DEF Recursion
  <2> HIDE DEF S, w
  <2> QED BY <1>2, <1>6, <1>7, <2>1, <2>2
<1>13. Solves(h)
  BY <1>12 DEF h
<1>14. Recursion(h, SUBSET S, mapper[p], pick, step)
  <2> SUFFICES ASSUME NEW s \in SUBSET S
               PROVE  h[s] = IF s = {} THEN mapper[p] ELSE step[<<pick[s], h[s \ {pick[s]}]>>]
    BY DEF Recursion
  <2>1. CASE s = {}
    BY <1>13, <2>1
  <2>2. CASE s # {}
    <3>1. Max(s) \in s /\ Max(s) \in S /\ h[s \ {Max(s)}] \in V
      BY <1>5, <1>8, <1>9, <2>2
    <3>2. h[s] = Receive(h[s \ {Max(s)}], w[Waiting(p)[Max(s)]], Waiting(p)[Max(s)])
      BY <1>13, <2>2
    <3> HIDE DEF S, w
    <3> QED BY <1>2, <1>6, <1>9, <2>2, <3>1, <3>2
  <2> QED BY <2>1, <2>2
<1>15. IsFiniteSet(S)
  BY <1>1, FS_Interval
<1>16. g[S] = h[S]
  <2>1. \A s \in SUBSET S : s # {} => pick[s] \in s
    BY <1>5
  <2> HIDE DEF S
  <2> QED BY <1>11, <1>14, <1>15, <2>1, RecursionUnique
<1> DEFINE f == [i \in 0 .. n |-> g[1 .. i]]
<1>17. \A i \in 0 .. n : 1 .. i \in SUBSET S
  BY <1>1
<1>18. f \in [0 .. n -> Mapper] /\ \A i \in 0 .. n : f[i] = g[1 .. i]
  BY <1>11, <1>17
<1>19. f[0] = mapper[p] /\ f[n] = Drained(p)
  BY <1>1, <1>3, <1>11, <1>16, <1>18
<1>20. ASSUME NEW i \in 1 .. n
       PROVE  f[i] = Receive(f[i - 1], w[head[p] + i], head[p] + i)
  <2>1. i \in 0 .. n /\ i - 1 \in 0 .. n
    BY <1>1
  <2>2. f[i] = step[<<i, f[i - 1]>>] /\ f[i - 1] \in V
    BY <1>7, <1>11, <1>18, <2>1
  <2> HIDE DEF f
  <2> QED BY <1>6, <2>2
<1> HIDE DEF f
<1> QED BY <1>18, <1>19, <1>20 DEF n

(* Reading on keeps the mapper true.                                       *)
LEMMA DrainedTrue ==
    ASSUME NEW p \in Proc, wire[p] \in Seq(Envelope), mapper[p] \in Mapper,
           Evidence(wire[p], head[p], loss[p], mapper[p])
    PROVE  /\ Drained(p) \in Mapper
           /\ Evidence(wire[p], Len(wire[p]), loss[p], Drained(p))
           /\ mapper[p].mech # "NONE" => Drained(p).mech # "NONE"
<1> DEFINE w == wire[p]
           k == head[p]
           n == Len(wire[p]) - head[p]
<1>1. k \in 0 .. Len(w) /\ n \in Nat /\ Len(w) \in Nat
  BY DEF Evidence
<1>2. PICK g \in [0 .. n -> Mapper] :
          /\ g[0] = mapper[p]
          /\ g[n] = Drained(p)
          /\ \A i \in 1 .. n : g[i] = Receive(g[i - 1], w[k + i], k + i)
  BY <1>1, DrainedSteps
<1> DEFINE Good(i) == /\ g[i].seen <= k + i
                      /\ Heard(w) => MapTrue(g[i], w)
                      /\ mapper[p].mech # "NONE" => g[i].mech # "NONE"
           N == {i \in Nat : i \in 0 .. n => Good(i)}
<1>3. 0 \in N
  BY <1>1, <1>2 DEF Evidence
<1>4. ASSUME NEW i \in N PROVE i + 1 \in N
  <2> SUFFICES ASSUME i + 1 \in 0 .. n PROVE Good(i + 1)
    OBVIOUS
  <2>1. i \in 0 .. n /\ i + 1 \in 1 .. n /\ Good(i)
    BY <1>1
  <2>2. g[i] \in Mapper /\ g[i + 1] = Receive(g[i], w[k + (i + 1)], k + (i + 1))
    BY <1>2, <2>1
  <2>3. k + (i + 1) \in 1 .. Len(w) /\ w[k + (i + 1)] \in Envelope
    BY <1>1, <2>1
  <2>4. /\ g[i + 1].seen \in {g[i].seen, k + (i + 1)}
        /\ g[i].mech # "NONE" => g[i + 1].mech # "NONE"
    <3>1. k + (i + 1) \in Nat
      BY <1>1, <2>1
    <3> HIDE DEF k, w
    <3> QED BY <2>2, <2>3, <3>1, ReceiveType
  <2>5. g[i].seen \in Nat
    BY <2>2 DEF Mapper
  <2>6. g[i + 1].seen <= k + (i + 1)
    BY <1>1, <2>1, <2>4, <2>5
  <2>7. Heard(w) => MapTrue(g[i + 1], w)
    <3>1. Heard(w) => w[k + (i + 1)].as = "MESSAGE"
      BY <2>3 DEF Heard
    <3> QED BY <2>1, <2>2, <2>3, <3>1, ReceiveTrue
  <2> QED BY <2>1, <2>4, <2>6, <2>7
<1>5. N \in SUBSET Nat
  OBVIOUS
<1>6. \A i \in N : i \in 0 .. n => Good(i)
  OBVIOUS
<1> HIDE DEF N
<1>7. N = Nat
  BY <1>3, <1>4, <1>5, NatInduct
<1>8. Good(n) /\ g[n] \in Mapper
  BY <1>1, <1>2, <1>6, <1>7
<1>9. k + n = Len(w)
  BY <1>1
<1> QED BY <1>1, <1>2, <1>8, <1>9 DEF Evidence

(* A step that leaves one invocation with evidence in order.               *)
Renews(p, a, w, h, l, m) ==
    /\ app' = [app EXCEPT ![p] = a]
    /\ wire' = [wire EXCEPT ![p] = w]
    /\ head' = [head EXCEPT ![p] = h]
    /\ loss' = [loss EXCEPT ![p] = l]
    /\ mapper' = [mapper EXCEPT ![p] = m]

LEMMA EvidenceOne ==
    ASSUME EvidenceTypes, EvidenceInv, NEW p \in Proc,
           NEW a \in {"none", "running", "turn", "exited"}, NEW w \in Seq(Envelope),
           NEW h, NEW l \in BOOLEAN, NEW m \in Mapper, Evidence(w, h, l, m),
           Renews(p, a, w, h, l, m)
    PROVE  EvidenceTypes' /\ EvidenceInv'
<1>1. h \in Nat
  BY DEF Evidence
<1>2. EvidenceTypes'
  BY <1>1 DEF EvidenceTypes, Renews
<1>3. ASSUME NEW q \in Proc PROVE Evidence(wire'[q], head'[q], loss'[q], mapper'[q])
  <2>1. CASE q = p
    BY <2>1 DEF EvidenceTypes, Renews
  <2>2. CASE q # p
    <3>1. /\ wire'[q] = wire[q] /\ head'[q] = head[q]
          /\ loss'[q] = loss[q] /\ mapper'[q] = mapper[q]
      BY <2>2 DEF EvidenceTypes, Renews
    <3> QED BY <3>1 DEF EvidenceInv
  <2> QED BY <2>1, <2>2
<1> QED BY <1>2, <1>3 DEF EvidenceInv

LEMMA EvidenceStep ==
    EvidenceTypes /\ EvidenceInv /\ [Next]_vars => EvidenceTypes' /\ EvidenceInv'
<1> SUFFICES ASSUME EvidenceTypes, EvidenceInv, [Next]_vars
             PROVE  EvidenceTypes' /\ EvidenceInv'
  OBVIOUS
<1>1. CASE UNCHANGED <<app, wire, head, loss, mapper>>
  BY <1>1 DEF EvidenceTypes, EvidenceInv
<1>2. ASSUME NEW p \in Proc
      PROVE  /\ app[p] \in {"none", "running", "turn", "exited"} /\ wire[p] \in Seq(Envelope)
             /\ loss[p] \in BOOLEAN /\ mapper[p] \in Mapper
             /\ Evidence(wire[p], head[p], loss[p], mapper[p])
  BY DEF EvidenceTypes, EvidenceInv
<1>3. ASSUME NEW p \in Proc, StartServer(p) \/ SendTurn(p) \/ ServerExit(p)
      PROVE  EvidenceTypes' /\ EvidenceInv'
  <2>1. PICK a \in {"running", "turn", "exited"} :
            app' = [app EXCEPT ![p] = a] /\ UNCHANGED <<wire, head, loss, mapper>>
    BY <1>3 DEF StartServer, SendTurn, ServerExit
  <2>2. Renews(p, a, wire[p], head[p], loss[p], mapper[p])
    BY <2>1 DEF EvidenceTypes, Renews
  <2> QED BY <1>2, <2>1, <2>2, EvidenceOne
<1>4. ASSUME NEW p \in Proc, StartFails(p) \/ QuiesceUnconfirmed(p)
      PROVE  EvidenceTypes' /\ EvidenceInv'
  <2>1. loss' = [loss EXCEPT ![p] = TRUE] /\ UNCHANGED <<app, wire, head, mapper>>
    BY <1>4 DEF StartFails, QuiesceUnconfirmed
  <2>2. Evidence(wire[p], head[p], TRUE, mapper[p])
    BY <1>2 DEF Evidence
  <2>3. Renews(p, app[p], wire[p], head[p], TRUE, mapper[p])
    BY <2>1 DEF EvidenceTypes, Renews
  <2> QED BY <1>2, <2>1, <2>2, <2>3, EvidenceOne
<1>5. ASSUME NEW p \in Proc, Quiesce(p) PROVE EvidenceTypes' /\ EvidenceInv'
  <2>1. PICK a \in {"none", "running", "turn", "exited"}, l \in BOOLEAN :
            /\ app' = [app EXCEPT ![p] = a] /\ loss' = [loss EXCEPT ![p] = l]
            /\ loss[p] => l
            /\ UNCHANGED <<wire, head, mapper>>
    BY <1>2, <1>5 DEF Quiesce
  <2>2. Evidence(wire[p], head[p], l, mapper[p])
    BY <1>2, <2>1 DEF Evidence
  <2>3. Renews(p, a, wire[p], head[p], l, mapper[p])
    BY <2>1 DEF EvidenceTypes, Renews
  <2> QED BY <1>2, <2>1, <2>2, <2>3, EvidenceOne
<1>6. ASSUME NEW p \in Proc, TurnReply(p) PROVE EvidenceTypes' /\ EvidenceInv'
  <2>1. mapper' = [mapper EXCEPT ![p] = NewMapper] /\ UNCHANGED <<app, wire, head, loss>>
    BY <1>6 DEF TurnReply
  <2>2. NewMapper \in Mapper /\ NewMapper.mech = "DISPATCHING" /\ NewMapper.seen = 0
    BY DEF NewMapper, NoMapper, Mapper, Mechanisms
  <2>3. Evidence(wire[p], head[p], loss[p], NewMapper)
    BY <1>2, <2>2 DEF Evidence, MapTrue
  <2>4. Renews(p, app[p], wire[p], head[p], loss[p], NewMapper)
    BY <2>1 DEF EvidenceTypes, Renews
  <2> QED BY <1>2, <2>1, <2>2, <2>3, <2>4, EvidenceOne
<1>7. ASSUME NEW p \in Proc, OperationFails(p) PROVE EvidenceTypes' /\ EvidenceInv'
  <2>1. /\ mapper' = [mapper EXCEPT ![p] = MarkLoss(mapper[p])]
        /\ UNCHANGED <<app, wire, head, loss>>
    BY <1>7 DEF OperationFails
  <2>2. MarkLoss(mapper[p]) \in Mapper /\ Evidence(wire[p], head[p], loss[p], MarkLoss(mapper[p]))
    BY <1>2, DiscrepancyStep DEF Evidence
  <2>3. Renews(p, app[p], wire[p], head[p], loss[p], MarkLoss(mapper[p]))
    BY <2>1 DEF EvidenceTypes, Renews
  <2> QED BY <1>2, <2>1, <2>2, <2>3, EvidenceOne
<1>8. ASSUME NEW p \in Proc, Interrupt(p) PROVE EvidenceTypes' /\ EvidenceInv'
  <2>1. PICK h \in {head[p], Len(wire[p])} :
            head' = [head EXCEPT ![p] = h] /\ UNCHANGED <<app, wire, loss, mapper>>
    <3>1. /\ UNCHANGED <<app, wire, loss, mapper>>
          /\ \/ head' = head
             \/ head' = [head EXCEPT ![p] = Len(wire[p])]
             \/ head' = [head EXCEPT ![p] = @]
      BY <1>8 DEF Interrupt
    <3>2. head = [head EXCEPT ![p] = head[p]]
      BY DEF EvidenceTypes
    <3> QED BY <3>1, <3>2
  <2>2. Evidence(wire[p], h, loss[p], mapper[p])
    <3>1. mapper[p].seen \in Nat
      BY <1>2 DEF Mapper
    <3> QED BY <1>2, <2>1, <3>1 DEF Evidence
  <2>3. Renews(p, app[p], wire[p], h, loss[p], mapper[p])
    BY <2>1 DEF EvidenceTypes, Renews
  <2> QED BY <1>2, <2>1, <2>2, <2>3, EvidenceOne
<1>9. ASSUME NEW p \in Proc
      PROVE  /\ Drained(p) \in Mapper
             /\ Evidence(wire[p], Len(wire[p]), loss[p], Drained(p))
             /\ MarkLoss(Drained(p)) \in Mapper
             /\ Evidence(wire[p], Len(wire[p]), loss[p], MarkLoss(Drained(p)))
  <2>1. Drained(p) \in Mapper /\ Evidence(wire[p], Len(wire[p]), loss[p], Drained(p))
    BY <1>2, DrainedTrue
  <2> QED BY <2>1, DiscrepancyStep DEF Evidence
<1>10. ASSUME NEW p \in Proc, Drain(p) \/ DrainUpdateFails(p)
       PROVE  EvidenceTypes' /\ EvidenceInv'
  <2>1. PICK m \in {Drained(p), MarkLoss(Drained(p))} :
            /\ head' = [head EXCEPT ![p] = Len(wire[p])]
            /\ mapper' = [mapper EXCEPT ![p] = m]
            /\ UNCHANGED <<app, wire, loss>>
    BY <1>10 DEF Drain, DrainUpdateFails
  <2>2. m \in Mapper /\ Evidence(wire[p], Len(wire[p]), loss[p], m)
    BY <1>9, <2>1
  <2>3. Renews(p, app[p], wire[p], Len(wire[p]), loss[p], m)
    BY <2>1 DEF EvidenceTypes, Renews
  <2> QED BY <1>2, <2>1, <2>2, <2>3, EvidenceOne
<1>11. ASSUME NEW p \in Proc, FinalUpdate(p) PROVE EvidenceTypes' /\ EvidenceInv'
  <2> DEFINE m == IF mapper[p].mech = "NONE" THEN mapper[p] ELSE Drained(p)
             h == IF m.mech = "NONE" THEN head[p] ELSE Len(wire[p])
  <2>1. /\ head' = [head EXCEPT ![p] = h]
        /\ mapper' = [mapper EXCEPT ![p] = m]
        /\ UNCHANGED <<app, wire, loss>>
    BY <1>11 DEF FinalUpdate
  <2>2. m \in Mapper /\ Evidence(wire[p], h, loss[p], m)
    <3>1. CASE mapper[p].mech = "NONE"
      BY <1>2, <3>1
    <3>2. CASE mapper[p].mech # "NONE"
      <4>1. m = Drained(p) /\ h \in {head[p], Len(wire[p])}
        BY <3>2
      <4>2. CASE h = Len(wire[p])
        BY <1>9, <4>1, <4>2
      <4>3. CASE h = head[p] /\ Drained(p).mech = "NONE"
        BY <1>2, <3>2, <4>3, DrainedTrue
      <4> QED BY <4>1, <4>2, <4>3
    <3> QED BY <3>1, <3>2
  <2>3. Renews(p, app[p], wire[p], h, loss[p], m)
    BY <2>1 DEF EvidenceTypes, Renews
  <2> HIDE DEF m, h
  <2> QED BY <1>2, <2>1, <2>2, <2>3, EvidenceOne
<1>12. ASSUME NEW p \in Proc, ServerEmit(p) PROVE EvidenceTypes' /\ EvidenceInv'
  <2>1. PICK e \in Events, as \in {"MESSAGE", "LOSS", "MISSING"} :
            /\ wire' = [wire EXCEPT ![p] = Append(wire[p], [event |-> e, as |-> as])]
            /\ loss' = [loss EXCEPT ![p] = loss[p] \/ as # "MESSAGE"]
            /\ UNCHANGED <<app, head, mapper>>
    BY <1>12 DEF ServerEmit
  <2> DEFINE last == [event |-> e, as |-> as]
             w == Append(wire[p], last)
             l == loss[p] \/ as # "MESSAGE"
  <2>2. last \in Envelope /\ w \in Seq(Envelope) /\ l \in BOOLEAN
    <3>1. last \in Envelope
      BY DEF Envelope
    <3> HIDE DEF last
    <3> QED BY <1>2, <3>1
  <2>3. Evidence(w, head[p], l, mapper[p])
    <3> DEFINE n == Len(wire[p])
    <3>1. /\ n \in Nat /\ Len(w) = n + 1 /\ w[n + 1] = last
          /\ \A j \in 1 .. n : w[j] = wire[p][j]
      BY <1>2, <2>2
    <3>2. mapper[p].seen \in Nat /\ mapper[p].seen <= head[p] /\ head[p] \in 0 .. n
      BY <1>2 DEF Evidence, Mapper
    <3>3. last.as = as
      OBVIOUS
    <3> HIDE DEF w, last, n
    <3>4. Heard(w) => Heard(wire[p])
      BY <3>1 DEF Heard, n
    <3>5. l \/ Heard(w)
      <4>1. ASSUME ~l PROVE Heard(w)
        <5>1. Heard(wire[p]) /\ as = "MESSAGE"
          BY <1>2, <4>1 DEF Evidence
        <5> QED BY <3>1, <3>3, <5>1 DEF Heard, n
      <4> QED BY <4>1
    <3>6. Heard(w) => MapTrue(mapper[p], w)
      <4>1. ASSUME MapTrue(mapper[p], wire[p]) PROVE MapTrue(mapper[p], w)
        BY <3>1, <3>2, <4>1 DEF MapTrue
      <4> QED BY <1>2, <3>4, <4>1 DEF Evidence
    <3>7. head[p] \in 0 .. Len(w)
      BY <3>1, <3>2
    <3> QED BY <3>2, <3>5, <3>6, <3>7 DEF Evidence
  <2>4. Renews(p, app[p], w, head[p], l, mapper[p])
    BY <2>1 DEF EvidenceTypes, Renews
  <2> HIDE DEF w, l
  <2> QED BY <1>2, <2>1, <2>2, <2>3, <2>4, EvidenceOne
<1>13. QED
  BY <1>1, <1>3, <1>4, <1>5, <1>6, <1>7, <1>8, <1>10, <1>11, <1>12
     DEF Next, Command, Terminating, vars, evidence, custody, RefuseClosure, Open, CreateTable,
         CheckTable, OpenFails, ClosePrelaunch, Close, Lookup, PreflightFails, CaptureFails,
         Claim, ConstructFails, ThreadReply, ReplyUpdateFails, FinalFails, Crash

LEMMA EvidenceCorrect == Spec => [](EvidenceTypes /\ EvidenceInv)
<1>1. Init => EvidenceTypes /\ EvidenceInv
  <2> SUFFICES ASSUME Init PROVE EvidenceTypes /\ EvidenceInv
    OBVIOUS
  <2>1. /\ NoMapper \in Mapper /\ NoMapper.seen = 0 /\ NoMapper.mech = "NONE"
        /\ <<>> \in Seq(Envelope) /\ Len(<<>>) = 0
    BY DEF NoMapper, Mapper, Mechanisms
  <2>2. Evidence(<<>>, 0, FALSE, NoMapper)
    BY <2>1 DEF Evidence, Heard, MapTrue
  <2>3. \A p \in Proc : wire[p] = <<>> /\ head[p] = 0 /\ loss[p] = FALSE /\ mapper[p] = NoMapper
    BY DEF Init
  <2> HIDE DEF Init
  <2>4. EvidenceInv
    BY <2>2, <2>3 DEF EvidenceInv
  <2>5. EvidenceTypes
    BY <2>1 DEF Init, EvidenceTypes
  <2> QED BY <2>4, <2>5
<1> QED BY <1>1, EvidenceStep, PTL DEF Spec

(* No step changes what a command was given, nor removes the file.         *)
LEMMA Untouched ==
    ASSUME [Next]_vars PROVE job' = job /\ file' \in {file, "bare", "ready"}
<1>1. ASSUME NEW p, Close(p, AttestedBy(job[p].closure)) \/ Close(p, ObservedBy(p)) \/ Claim(p)
      PROVE  job' = job /\ file' = file
  BY <1>1 DEF Close, Claim
<1>2. ASSUME NEW p, \/ Open(p) \/ CreateTable(p) \/ RefuseClosure(p) \/ CheckTable(p)
                    \/ OpenFails(p) \/ Lookup(p) \/ PreflightFails(p)
      PROVE  job' = job /\ file' \in {file, "bare", "ready"}
  BY <1>2 DEF Open, CreateTable, RefuseClosure, CheckTable, OpenFails, Lookup, PreflightFails,
     custody
<1>3. ASSUME NEW p, \/ ConstructFails(p) \/ StartServer(p) \/ StartFails(p) \/ ThreadReply(p)
                    \/ SendTurn(p) \/ TurnReply(p) \/ ReplyUpdateFails(p)
                    \/ DrainUpdateFails(p) \/ OperationFails(p) \/ Drain(p) \/ Interrupt(p)
                    \/ Quiesce(p) \/ QuiesceUnconfirmed(p) \/ FinalUpdate(p)
                    \/ FinalFails(p) \/ Crash(p) \/ ServerEmit(p) \/ ServerExit(p)
      PROVE  job' = job /\ file' = file
  BY <1>3 DEF ConstructFails, StartServer, StartFails, ThreadReply, SendTurn, TurnReply,
     ReplyUpdateFails, DrainUpdateFails, OperationFails, Drain, Interrupt, Quiesce,
     QuiesceUnconfirmed, FinalUpdate, FinalFails, Crash, ServerEmit, ServerExit, custody
<1>4. UNCHANGED vars => job' = job /\ file' = file
  BY DEF vars
<1> QED
  BY <1>1, <1>2, <1>3, <1>4 DEF Next, Command, Terminating, ClosePrelaunch, CaptureFails

(* Every reachable state of any instance is well typed: in particular the  *)
(* records stay within the vocabulary of the receipts and what drain()     *)
(* makes of any queue is a mapper (provider_runner.py run, drain).         *)
THEOREM RunnerTypes == Spec => []TypeOK
<1> DEFINE FileType == file \in {"absent", "bare", "ready"}
<1>1. Init => FileType
  BY DEF Init
<1>2. FileType /\ [Next]_vars => FileType'
  BY Untouched
<1>3. Spec => []FileType
  BY <1>1, <1>2, PTL DEF Spec
<1>4. FileType /\ IInv /\ EvidenceTypes => TypeOK
  BY DEF IInv, Shape, EvidenceTypes, TypeOK, Labels
<1> QED BY <1>3, <1>4, RunnerInvariant, EvidenceCorrect, PTL

----------------------------------------------------------------------------
(* The App Server that a known outcome is of has exited, its invocation    *)
(* has returned, and what it did is the outcome.                           *)
Witnesses(p, d, state) ==
    /\ pc[p] = "returned"
    /\ DispatchOf(p) = d
    /\ app[p] = "exited"
    /\ IF state = "NOT_ADMITTED_MODEL_AT_CAPACITY"
       THEN OnlyRefused(p)
       ELSE \E e \in TurnEnds \ {"other"} : StateOf(e) = state /\ EndedWith(p, e)

TruthInv ==
    \A d \in DOMAIN rows, state \in Known :
        rows[d].record.state = state => \E p \in Proc : Witnesses(p, d, state)

(* What returned with its App Server gone changes no more.                 *)
LEMMA Settled ==
    ASSUME IInv, EvidenceTypes, [Next]_vars, NEW q \in Proc,
           pc[q] = "returned", app[q] = "exited"
    PROVE  /\ pc'[q] = "returned" /\ app'[q] = "exited" /\ wire'[q] = wire[q]
           /\ DispatchOf(q)' = DispatchOf(q)
<1>1. /\ DOMAIN pc = Proc /\ DOMAIN app = Proc /\ DOMAIN wire = Proc
      /\ pc = [r \in Proc |-> pc[r]] /\ app = [r \in Proc |-> app[r]]
      /\ wire = [r \in Proc |-> wire[r]]
  BY DEF IInv, Shape, EvidenceTypes
<1>2. job' = job
  BY Untouched
<1>3. ASSUME NEW p \in Proc, Command(p) \/ Crash(p)
      PROVE  pc[p] # "returned" /\ \E l : Goto(p, l)
  BY <1>3 DEF Command, Crash, Opening, Working, Serving, Return,
     RefuseClosure, Open, CreateTable, CheckTable, OpenFails, ClosePrelaunch, Close, Lookup,
     PreflightFails, CaptureFails, Claim, ConstructFails, StartServer, StartFails, ThreadReply,
     SendTurn, TurnReply, ReplyUpdateFails, DrainUpdateFails, OperationFails, Drain, Interrupt,
     Quiesce, QuiesceUnconfirmed, FinalUpdate, FinalFails
<1>4. ASSUME NEW p \in Proc, Command(p) \/ Crash(p)
      PROVE  wire' = wire /\ \E a : app' = app \/ app' = [app EXCEPT ![p] = a]
  BY <1>4 DEF Command, Crash, evidence,
     RefuseClosure, Open, CreateTable, CheckTable, OpenFails, ClosePrelaunch, Close, Lookup,
     PreflightFails, CaptureFails, Claim, ConstructFails, StartServer, StartFails, ThreadReply,
     SendTurn, TurnReply, ReplyUpdateFails, DrainUpdateFails, OperationFails, Drain, Interrupt,
     Quiesce, QuiesceUnconfirmed, FinalUpdate, FinalFails
<1>5. DispatchOf(q)' = DispatchOf(q)
  BY <1>2 DEF DispatchOf
<1>6. ASSUME NEW p \in Proc, Command(p) \/ Crash(p)
      PROVE  pc'[q] = "returned" /\ app'[q] = "exited" /\ wire'[q] = wire[q]
  <2>1. p # q
    BY <1>3, <1>6
  <2> QED BY <1>1, <1>3, <1>4, <1>6, <2>1 DEF Goto
<1>7. ASSUME NEW p \in Proc, ServerEmit(p) \/ ServerExit(p)
      PROVE  pc'[q] = "returned" /\ app'[q] = "exited" /\ wire'[q] = wire[q]
  BY <1>1, <1>7 DEF ServerEmit, ServerExit
<1>8. CASE UNCHANGED vars
  BY <1>5, <1>8 DEF vars
<1> QED BY <1>5, <1>6, <1>7, <1>8 DEF Next, Terminating

(* Only the final update makes an outcome known.                           *)
LEMMA NewlyKnown ==
    ASSUME IInv, [Next]_vars, NEW d \in DOMAIN rows', rows'[d].record.state \in Known
    PROVE  \/ d \in DOMAIN rows /\ rows'[d].record.state = rows[d].record.state
           \/ \E p \in Proc : FinalUpdate(p) /\ d = DispatchOf(p)
<1> DEFINE Same == d \in DOMAIN rows /\ rows'[d].record.state = rows[d].record.state
<1>1. ASSUME UNCHANGED rows PROVE Same
  BY <1>1
<1>2. ASSUME NEW p \in Proc, Inserts(p) PROVE Same
  <2>1. PICK e : e = DispatchOf(p)
    OBVIOUS
  <2>2. /\ DOMAIN rows' = DOMAIN rows \cup {e}
        /\ rows'[e].record.state \in {"OUTCOME_UNKNOWN", "PRELAUNCH_CLOSED"}
        /\ \A f \in DOMAIN rows : rows'[f] = rows[f]
        /\ e \notin DOMAIN rows
    BY <1>2, <2>1, InsertsRow
  <2> QED BY <2>2 DEF Known
<1>3. ASSUME NEW p \in Proc, ThreadReply(p) \/ TurnReply(p) PROVE Same
  <2>1. PICK k \in {[rec[p] EXCEPT !.thread = TRUE], [rec[p] EXCEPT !.turn = TRUE]} :
            Update(p, k) /\ pc[p] \in Working
    BY <1>3 DEF ThreadReply, TurnReply, Working, Serving
  <2>2. /\ rec[p] \in Record /\ rec[p].state = "OUTCOME_UNKNOWN"
        /\ DispatchOf(p) \in DOMAIN rows
    BY <2>1 DEF IInv, Shape, Claimed, ClaimInv
  <2>3. k \in Record /\ k.state = "OUTCOME_UNKNOWN"
    BY <2>1, <2>2 DEF Record
  <2>4. /\ DOMAIN rows' = DOMAIN rows
        /\ rows'[DispatchOf(p)].record = k
        /\ \A e \in DOMAIN rows : e # DispatchOf(p) => rows'[e] = rows[e]
    BY <2>1, <2>2, <2>3, UpdateRow DEF IInv, Update
  <2> QED BY <2>3, <2>4 DEF Known
<1>4. ASSUME NEW p \in Proc, FinalUpdate(p), d # DispatchOf(p) PROVE Same
  <2>1. PICK k \in Record : Update(p, k) /\ pc[p] = "cut"
    BY <1>4, FinalRecord
  <2>2. DispatchOf(p) \in DOMAIN rows
    BY <2>1 DEF IInv, Claimed, Working
  <2>3. /\ DOMAIN rows' = DOMAIN rows
        /\ \A e \in DOMAIN rows : e # DispatchOf(p) => rows'[e] = rows[e]
    BY <2>1, <2>2, UpdateRow DEF IInv, Update
  <2> QED BY <1>4, <2>3
<1>5. ASSUME NEW p \in Proc, StillStep(p) PROVE UNCHANGED rows
  BY <1>5, StillMoves DEF Moves
<1>6. ASSUME NEW p \in Proc, ClosePrelaunch(p) \/ CaptureFails(p)
      PROVE  UNCHANGED <<rows, contacts>> \/ Inserts(p)
  BY <1>6, CloseKinds, JobTypes DEF IInv, ClosePrelaunch, CaptureFails
<1>7. ASSUME NEW p \in Proc,
             Lookup(p) \/ ReplyUpdateFails(p) \/ ServerEmit(p) \/ ServerExit(p) \/ SendTurn(p)
      PROVE  UNCHANGED rows
  BY <1>7 DEF Lookup, ReplyUpdateFails, ServerEmit, ServerExit, SendTurn, custody, evidence
<1> HIDE DEF Same
<1>8. Same \/ \E p \in Proc : FinalUpdate(p) /\ d = DispatchOf(p)
  BY <1>1, <1>2, <1>3, <1>4, <1>5, <1>6, <1>7, ClaimKinds
     DEF Next, Command, StillStep, Terminating, vars
<1> QED BY <1>8 DEF Same

(* What the final update records as known is what happened.                *)
LEMMA FinalTrue ==
    ASSUME IInv, EvidenceTypes, EvidenceInv, NEW p \in Proc, FinalUpdate(p),
           NEW d, d = DispatchOf(p), NEW state, state = rows'[d].record.state, state \in Known
    PROVE  Witnesses(p, d, state)'
<1> DEFINE m == IF mapper[p].mech = "NONE" THEN mapper[p] ELSE Drained(p)
           s == Outcome(p, m)
           k == [rec[p] EXCEPT !.ended = TRUE, !.state = s]
           w == wire[p]
           n == Len(wire[p])
<1>1. /\ pc[p] = "cut" /\ Update(p, k) /\ Goto(p, "returned")
      /\ UNCHANGED <<job, app, wire>>
  BY DEF FinalUpdate
<1>2. s \in Known \cup {"OUTCOME_UNKNOWN"} /\ (m.mech = "NONE" => s = "OUTCOME_UNKNOWN")
  <2> HIDE DEF m
  <2> QED BY OutcomeType
<1>3. k \in Record /\ k.state = s
  <2> HIDE DEF s
  <2> QED BY <1>2 DEF IInv, Shape, Record
<1>4. d \in DOMAIN rows
  BY <1>1 DEF IInv, Claimed, Working
<1>5. rows'[d].record.state = s
  <2> HIDE DEF k, s
  <2>1. Shape /\ rows' = [rows EXCEPT ![d].record = k]
    BY <1>1 DEF IInv, Update
  <2> QED BY <1>3, <1>4, <2>1, UpdateRow
<1>6. s \in Known /\ m.mech # "NONE" /\ "OUTCOME_UNKNOWN" \notin Known
  BY <1>2, <1>5 DEF Known
<1>7. m = Drained(p)
  BY <1>6
<1>8. w \in Seq(Envelope) /\ mapper[p] \in Mapper
      /\ Evidence(wire[p], head[p], loss[p], mapper[p])
  BY DEF EvidenceTypes, EvidenceInv
<1>9. m \in Mapper /\ Evidence(w, n, loss[p], m)
  <2>1. Drained(p) \in Mapper /\ Evidence(wire[p], n, loss[p], Drained(p))
    BY <1>8, DrainedTrue
  <2> HIDE DEF m, n
  <2> QED BY <1>7, <2>1
<1> HIDE DEF m
<1>10. /\ app[p] = "exited" /\ ~loss[p] /\ m.seen = n
       /\ \/ m.mech = "COMPLETED" /\ s = StateOf(m.status)
          \/ m.mech = "PARKED" /\ s = "NOT_ADMITTED_MODEL_AT_CAPACITY"
  BY <1>6 DEF Outcome
<1>11. MapTrue(m, w) /\ n \in Nat
  BY <1>8, <1>9, <1>10 DEF Evidence
<1> HIDE DEF s, w, n
<1>12. IF s = "NOT_ADMITTED_MODEL_AT_CAPACITY" THEN OnlyRefused(p)
       ELSE \E e \in TurnEnds \ {"other"} : StateOf(e) = s /\ EndedWith(p, e)
  <2>1. CASE m.mech = "COMPLETED" /\ s = StateOf(m.status)
    <3>1. /\ m.status \in TurnEnds \ {"other"}
          /\ s # "NOT_ADMITTED_MODEL_AT_CAPACITY"
      BY <1>6, <1>11, <2>1 DEF MapTrue, StateOf, TurnEnds, Known
    <3>2. /\ n > 1 /\ w[n].event = m.status
          /\ \A j \in 1 .. n - 1 : w[j].event = "ADMITTED"
      BY <1>10, <1>11, <2>1 DEF MapTrue
    <3>3. {w[j].event : j \in 1 .. n - 1} = {"ADMITTED"}
      <4>1. 1 \in 1 .. n - 1
        BY <1>11, <3>2
      <4> QED BY <3>2, <4>1
    <3>4. EndedWith(p, m.status)
      BY <3>2, <3>3 DEF EndedWith, Reported, w, n
    <3> QED BY <2>1, <3>1, <3>4
  <2>2. CASE m.mech = "PARKED" /\ s = "NOT_ADMITTED_MODEL_AT_CAPACITY"
    <3>1. /\ n > 0 /\ w[1].event = "REFUSED"
          /\ \A j \in 2 .. n : w[j].event \in TurnEnds
      BY <1>10, <1>11, <2>2 DEF MapTrue
    <3>2. OnlyRefused(p)
      BY <3>1 DEF OnlyRefused, Reported, w, n
    <3> QED BY <2>2, <3>2
  <2> QED BY <1>10, <2>1, <2>2
<1>13. /\ pc'[p] = "returned" /\ app' = app /\ wire' = wire
       /\ DispatchOf(p)' = DispatchOf(p)
  BY <1>1 DEF IInv, Shape, Goto, DispatchOf
<1> QED BY <1>5, <1>10, <1>12, <1>13
        DEF Witnesses, OnlyRefused, EndedWith, Reported

LEMMA TruthStep ==
    IInv /\ EvidenceTypes /\ EvidenceInv /\ TruthInv /\ [Next]_vars => TruthInv'
<1> SUFFICES ASSUME IInv, EvidenceTypes, EvidenceInv, TruthInv, [Next]_vars,
                    NEW d \in DOMAIN rows',
                    NEW state \in Known, state = rows'[d].record.state
             PROVE  \E p \in Proc : Witnesses(p, d, state)'
  BY DEF TruthInv
<1>1. CASE d \in DOMAIN rows /\ state = rows[d].record.state
  <2>1. PICK p \in Proc : Witnesses(p, d, state)
    BY <1>1 DEF TruthInv
  <2>2. /\ pc'[p] = "returned" /\ app'[p] = "exited" /\ wire'[p] = wire[p]
        /\ DispatchOf(p)' = DispatchOf(p)
    BY <2>1, Settled DEF Witnesses
  <2>3. /\ OnlyRefused(p)' <=> OnlyRefused(p)
        /\ \A e : EndedWith(p, e)' <=> EndedWith(p, e)
    BY <2>2 DEF OnlyRefused, EndedWith, Reported
  <2>4. Witnesses(p, d, state)'
    BY <2>1, <2>2, <2>3 DEF Witnesses
  <2> QED BY <2>4
<1>2. ASSUME NEW p \in Proc, FinalUpdate(p), d = DispatchOf(p)
      PROVE  Witnesses(p, d, state)'
  BY <1>2, FinalTrue
<1> QED BY <1>1, <1>2, NewlyKnown

(* A known outcome is what the App Server of the one turn really did, up   *)
(* to its exit, whatever was lost, interrupted or came late and whoever    *)
(* crashed (provider_runner.py run, drain, the finally clause).            *)
THEOREM KnownOutcomesAreTrue == Spec => []KnownOutcomeIsTrue
<1>1. Init => TruthInv
  BY DEF Init, TruthInv
<1>2. TruthInv => KnownOutcomeIsTrue
  BY DEF TruthInv, KnownOutcomeIsTrue, Witnesses
<1> QED BY <1>1, <1>2, TruthStep, EvidenceCorrect, RunnerInvariant, PTL DEF Spec

================================================================================
