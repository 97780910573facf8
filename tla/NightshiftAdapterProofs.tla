---------------------- MODULE NightshiftAdapterProofs ----------------------
(***************************************************************************)
(* Proofs about NightshiftAdapter, for any number of commands and of       *)
(* deliveries: its variables keep their ranges, what settles an attempt    *)
(* stays, one thread is asked for, no finalization overlooks a loss, a     *)
(* receipt is the answer of the attempt's own turn, and the adapter        *)
(* implements AttemptCustody.                                              *)
(***************************************************************************)
EXTENDS NightshiftAdapter, SequenceTheorems, TLAPS

----------------------------------------------------------------------------
(* The inductive invariant of the store and of the start commands.         *)

Fields == {"status", "thread", "turn", "final", "receipt"}

(* Where a drain returns is one of three places.                           *)
Jobs == [command : Commands, back : {"judging", "observing", "weighing"},
         closing : BOOLEAN]

Shape == /\ DOMAIN row = Fields /\ DOMAIN draft = Fields
         /\ lock \in Keepers \cup {NoId}
         /\ DOMAIN pc = Procs /\ DOMAIN turn = Starters
         /\ job \in [Procs -> Jobs]

(* What settles an attempt is kept.                                        *)
Keeps(old, new) == old.status \in Settled =>
                      new.status = old.status /\ new.receipt = old.receipt

(* The uncommitted row of an occurrence never contradicts the committed    *)
(* one, which nobody else can write.                                       *)
DraftInv == lock # NoId => Keeps(row, draft) /\ draft.status # "NONE"

(* Who finds the store without an attempt is the first to ask for a        *)
(* thread, and the last.                                                   *)
StartInv ==
    /\ \A s \in Starters : pc[s] \in {"keepThread", "turning"} => turn[s] = "thread"
    /\ \A s, t \in Starters : turn[s] # "none" /\ turn[t] # "none" => s = t
    /\ \A s \in Starters : pc[s] = "threading" \/ turn[s] # "none" => row.status # "NONE"
    /\ \A s, t \in Starters : pc[s] = "threading" =>
                                 turn[t] = "none" /\ (t # s => pc[t] # "threading")
    /\ \A k \in Keepers : pc[k] = "opening" => row.status # "NONE"

IInv == Shape /\ DraftInv /\ StartInv

----------------------------------------------------------------------------
(* The steps of the commands fall into a few kinds.                        *)

(* A command writes the row it reads.                                      *)
Writes(p, r) == /\ Retain(p, r)
                /\ DOMAIN r = Fields
                /\ Keeps(View(p), r)
                /\ r.status # "NONE"

Writing(p) == UNCHANGED store \/ \E r : Writes(p, r)

Early == {"opening", "threading", "keepThread", "turning"}

(* A command stays where it is or goes to no place of Early.               *)
Moving(p) == pc' = pc \/ \E place : place \notin Early /\ pc' = [pc EXCEPT ![p] = place]

Plain(p) == Writing(p) /\ Moving(p) /\ job' \in [Procs -> Jobs] /\ turn' = turn

(* An update that goes through keeps what is settled.                      *)
LEMMA UpdateWrites ==
    ASSUME NEW p, NEW r, Update(p, r), DOMAIN r = Fields, r.status # "NONE",
           r.receipt = View(p).receipt \/ r.status \notin Settled \/ r.status = "TERMINAL"
    PROVE  Writes(p, r)
<1>1. CASE r.status = "INDETERMINATE"
  BY <1>1 DEF Update, MayBecome, Writes, Keeps, Settled
<1>2. CASE r.status # "INDETERMINATE"
  BY <1>2 DEF Update, MayBecome, Writes, Keeps, Settled
<1> QED BY <1>1, <1>2

LEMMA ViewShape == ASSUME Shape, NEW p PROVE DOMAIN View(p) = Fields
BY DEF Shape, View

LEMMA RaiseMoves ==
    ASSUME Shape, NEW p \in Procs, Raise(p)
    PROVE  Moving(p) /\ job' \in [Procs -> Jobs]
<1>1. CASE Goto(p, "finishing") /\ UNCHANGED job
  BY <1>1 DEF Shape, Goto, Moving, Early
<1>2. CASE job' = [job EXCEPT ![p].closing = TRUE] /\ Goto(p, "cutting")
  BY <1>2 DEF Shape, Jobs, Goto, Moving, Early
<1> QED BY <1>1, <1>2 DEF Raise

LEMMA MarkPlain ==
    ASSUME Shape, NEW p \in Procs, NEW next, next \notin Early, MarkIndeterminate(p, next)
    PROVE  Writing(p) /\ Moving(p) /\ job' \in [Procs -> Jobs]
<1>1. CASE /\ Update(p, [View(p) EXCEPT !.status = "INDETERMINATE"])
           /\ Goto(p, next)
           /\ UNCHANGED job
  <2> DEFINE r == [View(p) EXCEPT !.status = "INDETERMINATE"]
  <2>1. DOMAIN r = Fields /\ r.status = "INDETERMINATE" /\ r.receipt = View(p).receipt
    BY ViewShape DEF Fields
  <2>2. Writes(p, r)
    BY <1>1, <2>1, UpdateWrites
  <2>3. Moving(p) /\ job' \in [Procs -> Jobs]
    BY <1>1 DEF Goto, Moving, Shape
  <2> QED BY <2>2, <2>3 DEF Writing
<1>2. CASE Raise(p) /\ UNCHANGED store
  BY <1>2, RaiseMoves DEF Writing
<1> QED BY <1>1, <1>2 DEF MarkIndeterminate

LEMMA Places3 ==
    ASSUME Shape, NEW p \in Procs
    PROVE  {AfterAct(p), AfterCut(p), job[p].back} \cap Early = {}
BY DEF Shape, Jobs, AfterAct, AfterCut, Early

LEMMA DrainRaisesPlain ==
    ASSUME Shape, NEW p \in Procs, DrainRaises(p)
    PROVE  Writing(p) /\ Moving(p) /\ job' \in [Procs -> Jobs]
<1>1. CASE MarkIndeterminate(p, AfterCut(p))
  BY <1>1, MarkPlain, Places3
<1>2. CASE Raise(p) /\ UNCHANGED store
  BY <1>2, RaiseMoves DEF Writing
<1> QED BY <1>1, <1>2 DEF DrainRaises

(* An exit moves a command to idle.                                        *)
LEMMA ExitMoves ==
    ASSUME Shape, NEW p \in Procs, Exit(p)
    PROVE  Moving(p) /\ job' \in [Procs -> Jobs]
BY DEF Exit, Goto, Moving, Early, Shape, Jobs, NoJob, Commands

LEMMA ResumePlain == ASSUME Shape, NEW k \in Keepers, Resume(k) PROVE Plain(k)
<1> k \in Procs
  BY DEF Procs
<1>1. turn' = turn
  BY DEF Resume, provider
<1>2. CASE Goto(k, "observing") /\ UNCHANGED <<store, job>>
  BY <1>1, <1>2 DEF Plain, Writing, Moving, Goto, Early, Shape
<1>3. CASE Raise(k) /\ UNCHANGED store
  BY <1>1, <1>3, RaiseMoves DEF Plain, Writing
<1>4. CASE MarkIndeterminate(k, "observing")
  BY <1>1, <1>4, MarkPlain DEF Plain, Early
<1>5. CASE /\ Goto(k, "reading")
           /\ job' = [job EXCEPT ![k].back = AfterAct(k)]
           /\ UNCHANGED store
  <2>1. job' \in [Procs -> Jobs]
    BY <1>5 DEF Shape, Jobs, AfterAct
  <2> QED BY <1>1, <1>5, <2>1 DEF Plain, Writing, Moving, Goto, Early
<1> QED BY <1>2, <1>3, <1>4, <1>5 DEF Resume

LEMMA StatusPlain == ASSUME Shape, NEW k \in Keepers, Status(k) PROVE Plain(k)
<1> k \in Procs
  BY DEF Procs
<1>1. turn' = turn /\ Writing(k)
  BY DEF Status, provider, Writing
<1>2. CASE \E place \in {"observing", AfterAct(k)} : Goto(k, place) /\ UNCHANGED job
  BY <1>1, <1>2, Places3 DEF Plain, Moving, Goto, Early, Shape
<1>3. CASE /\ Goto(k, IF View(k).thread = NoId THEN "draining" ELSE "reading")
           /\ job' = [job EXCEPT ![k].back = AfterAct(k)]
  <2>1. job' \in [Procs -> Jobs]
    BY <1>3 DEF Shape, Jobs, AfterAct
  <2>2. Moving(k)
    BY <1>3 DEF Moving, Goto, Early
  <2> QED BY <1>1, <2>1, <2>2 DEF Plain
<1> QED BY <1>2, <1>3 DEF Status

(* An observation of the worker never touches a receipt.                   *)
LEMMA ObservedShape ==
    ASSUME NEW r, NEW completed, NEW text, DOMAIN r = Fields
    PROVE  LET o == Observed(r, completed, text) IN
           /\ DOMAIN o = Fields
           /\ o.receipt = r.receipt
           /\ o.status \in {"INDETERMINATE", "PROVIDER_COMPLETED", "RUNNING"}
BY DEF Observed, Fields

LEMMA ReadThreadPlain == ASSUME Shape, NEW k \in Keepers, ReadThread(k) PROVE Plain(k)
<1> k \in Procs
  BY DEF Procs
<1>1. turn' = turn
  BY DEF ReadThread, provider
<1>2. CASE Raise(k) /\ UNCHANGED store
  BY <1>1, <1>2, RaiseMoves DEF Plain, Writing
<1>3. CASE \E place \in {"observing", "draining"} : MarkIndeterminate(k, place)
  BY <1>1, <1>3, MarkPlain DEF Plain, Early
<1>4. CASE \E turns \in SUBSET History(View(k).thread) : IngestThread(k, turns)
  <2>1. PICK turns \in SUBSET History(View(k).thread) : IngestThread(k, turns)
    BY <1>4
  <2>2. CASE Goto(k, "draining") /\ UNCHANGED <<store, job>>
    BY <1>1, <2>2 DEF Plain, Writing, Moving, Goto, Early, Shape
  <2>3. CASE \E t \in Own(turns, View(k)) :
               LET r == Observed(View(k), t.completed, t.text) IN
               \/ Update(k, r) /\ Goto(k, "draining") /\ UNCHANGED job
               \/ Raise(k) /\ UNCHANGED store
    <3>1. PICK t \in Own(turns, View(k)) :
               LET r == Observed(View(k), t.completed, t.text) IN
               \/ Update(k, r) /\ Goto(k, "draining") /\ UNCHANGED job
               \/ Raise(k) /\ UNCHANGED store
      BY <2>3
    <3> DEFINE r == Observed(View(k), t.completed, t.text)
    <3>2. CASE Raise(k) /\ UNCHANGED store
      BY <1>1, <3>2, RaiseMoves DEF Plain, Writing
    <3>3. CASE Update(k, r) /\ Goto(k, "draining") /\ UNCHANGED job
      <4>1. /\ DOMAIN r = Fields /\ r.receipt = View(k).receipt
            /\ r.status \in {"INDETERMINATE", "PROVIDER_COMPLETED", "RUNNING"}
        BY ObservedShape, ViewShape
      <4> HIDE DEF r
      <4>2. Writes(k, r)
        BY <3>3, <4>1, UpdateWrites
      <4> QED BY <1>1, <3>3, <4>2 DEF Plain, Writing, Moving, Goto, Early, Shape
    <3> QED BY <3>1, <3>2, <3>3
  <2> QED BY <2>1, <2>2, <2>3 DEF IngestThread
<1> QED BY <1>2, <1>3, <1>4 DEF ReadThread

LEMMA SealPlain == ASSUME Shape, NEW k \in Keepers, Seal(k) PROVE Plain(k)
<1> k \in Procs
  BY DEF Procs
<1>1. turn' = turn
  BY DEF Seal, provider
<1>2. CASE Goto(k, "observing") /\ UNCHANGED <<store, job>>
  BY <1>1, <1>2 DEF Plain, Writing, Moving, Goto, Early, Shape
<1>3. CASE MarkIndeterminate(k, "observing")
  BY <1>1, <1>3, MarkPlain DEF Plain, Early
<1>4. CASE /\ Update(k, [View(k) EXCEPT !.status = "TERMINAL", !.receipt = View(k).final])
           /\ Goto(k, "observing")
           /\ UNCHANGED job
  <2> DEFINE r == [View(k) EXCEPT !.status = "TERMINAL", !.receipt = View(k).final]
  <2>1. DOMAIN r = Fields /\ r.status = "TERMINAL"
    BY ViewShape DEF Fields
  <2>2. Update(k, r)
    BY <1>4
  <2> HIDE DEF r
  <2>3. Writes(k, r)
    BY <2>1, <2>2, UpdateWrites
  <2> QED BY <1>1, <1>4, <2>3 DEF Plain, Writing, Moving, Goto, Early, Shape
<1> QED BY <1>2, <1>3, <1>4 DEF Seal

LEMMA KeeperPlain ==
    ASSUME Shape, NEW k \in Keepers, KeeperStep(k), ~Begin(k)
    PROVE  Plain(k)
<1> k \in Procs
  BY DEF Procs
<1>1. CASE GiveUp(k)
  BY <1>1, ExitMoves DEF GiveUp, Plain, Writing, provider
<1>2. CASE Judge(k)
  BY <1>2 DEF Judge, Plain, Writing, Moving, Goto, Early, provider, Shape
<1> QED BY <1>1, <1>2, ResumePlain, StatusPlain, ReadThreadPlain, SealPlain DEF KeeperStep

LEMMA DrainDiagnosticsPlain ==
    ASSUME Shape, NEW p \in Procs, DrainDiagnostics(p) PROVE Plain(p)
<1>1. turn' = turn
  BY DEF DrainDiagnostics, provider
<1>2. CASE /\ Update(p, [View(p) EXCEPT !.status = "INDETERMINATE"])
           /\ Goto(p, job[p].back)
           /\ UNCHANGED job
  <2>1. MarkIndeterminate(p, job[p].back)
    BY <1>2 DEF MarkIndeterminate
  <2> QED BY <1>1, <2>1, MarkPlain, Places3 DEF Plain
<1>3. CASE DrainRaises(p)
  BY <1>1, <1>3, DrainRaisesPlain DEF Plain
<1> QED BY <1>2, <1>3 DEF DrainDiagnostics

LEMMA TakeRequestPlain ==
    ASSUME Shape, NEW p \in Procs, TakeRequest(p) PROVE Plain(p)
<1>1. turn' = turn
  BY DEF TakeRequest, provider
<1>2. CASE MarkIndeterminate(p, job[p].back)
  BY <1>1, <1>2, MarkPlain, Places3 DEF Plain
<1>3. CASE DrainRaises(p)
  BY <1>1, <1>3, DrainRaisesPlain DEF Plain
<1>4. CASE /\ Update(p, [View(p) EXCEPT !.status = "WAITING_APPROVAL"])
           /\ UNCHANGED <<pc, job>>
  <2> DEFINE r == [View(p) EXCEPT !.status = "WAITING_APPROVAL"]
  <2>1. DOMAIN r = Fields /\ r.status = "WAITING_APPROVAL" /\ Update(p, r)
    BY <1>4, ViewShape DEF Fields
  <2> HIDE DEF r
  <2>2. Writes(p, r)
    BY <2>1, UpdateWrites DEF Settled
  <2> QED BY <1>1, <1>4, <2>2 DEF Plain, Writing, Moving, Shape
<1> QED BY <1>2, <1>3, <1>4 DEF TakeRequest

LEMMA NotedShape ==
    ASSUME NEW r, NEW m, DOMAIN r = Fields
    PROVE  LET n == Noted(r, m) IN
           /\ DOMAIN n = Fields
           /\ n.receipt = r.receipt
           /\ n.status \in {"INDETERMINATE", "PROVIDER_COMPLETED", "RUNNING"}
<1>1. CASE m.kind = "echo"
  BY <1>1 DEF Noted, Fields
<1>2. CASE m.kind # "echo"
  BY <1>2, ObservedShape DEF Noted
<1> QED BY <1>1, <1>2

LEMMA TakeNotePlain ==
    ASSUME Shape, NEW p \in Procs, TakeNote(p) PROVE Plain(p)
<1>1. turn' = turn
  BY DEF TakeNote, provider
<1> DEFINE r == Noted(View(p), Head(link[p].notes))
<1>2. DOMAIN r = Fields /\ r.receipt = View(p).receipt
      /\ r.status \in {"INDETERMINATE", "PROVIDER_COMPLETED", "RUNNING"}
  BY NotedShape, ViewShape
<1>3. \/ MarkIndeterminate(p, job[p].back)
      \/ UNCHANGED <<store, pc, job>>
      \/ Update(p, r) /\ UNCHANGED <<pc, job>>
  BY DEF TakeNote
<1> HIDE DEF r
<1>4. CASE MarkIndeterminate(p, job[p].back)
  BY <1>1, <1>4, MarkPlain, Places3 DEF Plain
<1>5. CASE UNCHANGED <<store, pc, job>>
  BY <1>1, <1>5 DEF Plain, Writing, Moving, Shape
<1>6. CASE Update(p, r) /\ UNCHANGED <<pc, job>>
  <2>1. Writes(p, r)
    BY <1>2, <1>6, UpdateWrites
  <2> QED BY <1>1, <1>6, <2>1 DEF Plain, Writing, Moving, Shape
<1> QED BY <1>3, <1>4, <1>5, <1>6

LEMMA CommonPlain ==
    ASSUME Shape, NEW p \in Procs, CommonStep(p), ~Finish(p)
    PROVE  Plain(p)
<1>1. CASE SetupFails(p) \/ Connect(p) \/ RequestsTaken(p)
  BY <1>1 DEF SetupFails, Connect, RequestsTaken, Plain, Writing, Moving, Goto, Early,
              provider, Shape
<1>2. CASE ConnectFails(p)
  BY <1>2, RaiseMoves DEF ConnectFails, Plain, Writing, provider
<1>3. CASE DrainQueues(p) \/ NotesTaken(p)
  <2>1. PICK place \in {job[p].back, "requests"} : Goto(p, place)
    BY <1>3 DEF DrainQueues, NotesTaken
  <2>2. Moving(p)
    BY <2>1, Places3 DEF Moving, Goto, Early
  <2> QED BY <1>3, <2>2 DEF DrainQueues, NotesTaken, Plain, Writing, provider, Shape
<1>4. CASE Cut(p) \/ Look(p)
  <2>1. job' \in [Procs -> Jobs]
    <3>1. CASE Cut(p)
      BY <3>1 DEF Cut, Shape, Jobs
    <3>2. CASE Look(p)
      BY <3>2 DEF Look, Shape, Jobs
    <3> QED BY <1>4, <3>1, <3>2
  <2>2. Moving(p)
    BY <1>4 DEF Cut, Look, Goto, Moving, Early
  <2> QED BY <1>4, <2>1, <2>2 DEF Cut, Look, Plain, Writing, provider
<1>5. CASE Weigh(p)
  <2>1. CASE Goto(p, AfterCut(p)) /\ UNCHANGED <<store, job>>
    BY <1>5, <2>1, Places3 DEF Weigh, Plain, Writing, Moving, Goto, provider, Shape
  <2>2. CASE MarkIndeterminate(p, AfterCut(p))
    BY <1>5, <2>2, MarkPlain, Places3 DEF Weigh, Plain, provider
  <2> QED BY <1>5, <2>1, <2>2 DEF Weigh
<1> QED BY <1>1, <1>2, <1>3, <1>4, <1>5, DrainDiagnosticsPlain, TakeRequestPlain,
           TakeNotePlain DEF CommonStep

LEMMA StartPlain ==
    ASSUME Shape, NEW s \in Starters,
           Enter(s) \/ KeepTurn(s) \/ RecordStart(s) \/ LoseStart(s) \/ Busy(s)
    PROVE  Plain(s)
<1> s \in Procs
  BY DEF Procs
<1>1. CASE Enter(s) \/ RecordStart(s)
  BY <1>1 DEF Enter, RecordStart, Plain, Writing, Moving, Goto, Early, provider, Shape
<1>2. CASE KeepTurn(s)
  <2>1. turn' = turn /\ UNCHANGED job
    BY <1>2 DEF KeepTurn, provider
  <2>2. Moving(s)
    BY <1>2 DEF KeepTurn, Moving, Goto, Early
  <2>3. CASE UNCHANGED store
    BY <2>1, <2>2, <2>3 DEF Plain, Writing, Shape
  <2>4. CASE Update(s, [row EXCEPT !.turn = s, !.status = "RUNNING"])
    <3> DEFINE r == [row EXCEPT !.turn = s, !.status = "RUNNING"]
    <3>1. DOMAIN r = Fields /\ r.status = "RUNNING" /\ Update(s, r)
      BY <2>4 DEF Shape, Fields
    <3> HIDE DEF r
    <3>2. Writes(s, r)
      BY <3>1, UpdateWrites DEF Settled
    <3> QED BY <2>1, <2>2, <3>2 DEF Plain, Writing, Shape
  <2> QED BY <1>2, <2>3, <2>4 DEF KeepTurn
<1>3. CASE LoseStart(s)
  BY <1>3, MarkPlain DEF LoseStart, Plain, provider, Early
<1>4. CASE Busy(s)
  <2>1. Moving(s) /\ job' \in [Procs -> Jobs]
    BY <1>4, ExitMoves DEF Busy, Moving, Goto, Early, Shape
  <2> QED BY <1>4, <2>1 DEF Busy, Plain, Writing, provider
<1> QED BY <1>1, <1>2, <1>3, <1>4

LEMMA EitherPlain ==
    ASSUME Shape, NEW p \in Procs, Deadline(p) \/ Deliver(p) PROVE Plain(p)
<1>1. CASE Deadline(p)
  <2>1. job' \in [Procs -> Jobs]
    BY <1>1 DEF Deadline, Shape, Jobs
  <2> QED BY <1>1, <2>1 DEF Deadline, Plain, Writing, Moving, Goto, Early, provider
<1>2. CASE Deliver(p)
  BY <1>2 DEF Deliver, Plain, Writing, Moving, Shape
<1> QED BY <1>1, <1>2

----------------------------------------------------------------------------
(* Every step keeps the invariant and what is settled.                     *)

StoreInv == /\ DOMAIN row = Fields /\ DOMAIN draft = Fields
            /\ lock \in Keepers \cup {NoId}
            /\ DraftInv

(* What is committed is kept, and an attempt that is there stays there.    *)
Commits == Keeps(row, row') /\ (row.status # "NONE" => row'.status # "NONE")

LEMMA WritingKeeps ==
    ASSUME Shape, DraftInv, NEW p \in Procs, Writing(p)
    PROVE  StoreInv' /\ Commits
<1>1. CASE UNCHANGED store
  BY <1>1 DEF store, Shape, StoreInv, DraftInv, Keeps, Commits
<1>2. CASE \E r : Writes(p, r)
  <2>1. PICK r : Writes(p, r)
    BY <1>2
  <2>2. p # NoId
    BY ProcessesAssumption DEF Procs
  <2>3. CASE lock = p
    <3>1. draft' = r /\ row' = row /\ lock' = lock /\ Keeps(draft, r)
          /\ DOMAIN r = Fields /\ r.status # "NONE"
      BY <2>1, <2>3 DEF Writes, Retain, View
    <3> QED BY <2>2, <2>3, <3>1 DEF Shape, StoreInv, DraftInv, Keeps, Commits
  <2>4. CASE lock # p
    <3>1. row' = r /\ draft' = draft /\ lock = NoId /\ lock' = lock /\ Keeps(row, r)
          /\ DOMAIN r = Fields /\ r.status # "NONE"
      BY <2>1, <2>4 DEF Writes, Retain, CanWrite, View
    <3> QED BY <3>1 DEF Shape, StoreInv, DraftInv, Commits
  <2> QED BY <2>3, <2>4
<1> QED BY <1>1, <1>2 DEF Writing

LEMMA PlainKeeps ==
    ASSUME IInv, NEW p \in Procs, Plain(p)
    PROVE  IInv' /\ Commits
<1>1. StoreInv' /\ Commits
  BY WritingKeeps DEF IInv, Plain
<1>2. DOMAIN pc' = Procs /\ \A q \in Procs : pc'[q] \in Early => pc'[q] = pc[q]
  BY DEF IInv, Shape, Plain, Moving
<1>3. Shape'
  BY <1>1, <1>2 DEF StoreInv, Plain, Shape, IInv
<1>4. StartInv'
  BY <1>1, <1>2 DEF IInv, StartInv, Plain, Commits, Early, Procs
<1> QED BY <1>1, <1>3, <1>4 DEF IInv, StoreInv, Commits

(* An occurrence begins with the row that is committed.                    *)
LEMMA BeginKeeps ==
    ASSUME IInv, NEW k \in Keepers, Preflight(k) \/ Begin(k)
    PROVE  IInv' /\ Commits
<1> k \in Procs
  BY DEF Procs
<1>1. CASE Preflight(k)
  <2>1. /\ row' = row /\ draft' = draft /\ lock' = lock /\ turn' = turn /\ job' = job
        /\ pc' = [pc EXCEPT ![k] = "opening"] /\ row.status # "NONE"
    BY <1>1 DEF Preflight, Goto, store, provider
  <2>2. Shape' /\ DraftInv'
    BY <2>1 DEF IInv, Shape, DraftInv, Keeps
  <2>3. \A s \in Starters : pc'[s] = pc[s]
    BY <2>1, ProcessesAssumption DEF IInv, Shape, Procs
  <2>4. StartInv'
    BY <2>1, <2>3 DEF IInv, Shape, StartInv, Procs
  <2> QED BY <2>1, <2>2, <2>4 DEF IInv, Commits, Keeps
<1>2. CASE Begin(k)
  <2>1. /\ row' = row /\ draft' = row /\ lock' = k /\ turn' = turn
        /\ pc' = [pc EXCEPT ![k] = "connecting"] /\ pc[k] = "opening"
    BY <1>2 DEF Begin, Goto, provider
  <2>2. job' \in [Procs -> Jobs]
    BY <1>2 DEF Begin, IInv, Shape, Jobs
  <2>3. Shape' /\ DraftInv'
    BY <2>1, <2>2 DEF IInv, Shape, DraftInv, Keeps, StartInv
  <2>4. \A q \in Procs : pc'[q] \in Early => pc'[q] = pc[q]
    BY <2>1 DEF IInv, Shape, Early
  <2>5. StartInv'
    BY <2>1, <2>4 DEF IInv, StartInv, Early, Procs
  <2> QED BY <2>1, <2>3, <2>5 DEF IInv, Commits, Keeps
<1> QED BY <1>1, <1>2

(* It ends with a commit or is rolled back.                                *)
LEMMA EndKeeps ==
    ASSUME IInv, NEW p \in Procs, Finish(p) \/ Interrupt(p) \/ Crash(p)
    PROVE  IInv' /\ Commits
<1>1. Moving(p) /\ job' \in [Procs -> Jobs] /\ turn' = turn
  BY ExitMoves DEF Finish, Interrupt, End, Crash, IInv, provider
<1>2. StoreInv' /\ Commits
  <2>1. CASE UNCHANGED store
    BY <2>1 DEF store, IInv, Shape, StoreInv, DraftInv, Keeps, Commits
  <2>2. CASE lock = p /\ row' \in {draft, row} /\ draft' = NoRow /\ lock' = NoId
    <3>1. DOMAIN NoRow = Fields
      BY DEF NoRow, Fields
    <3>2. lock # NoId
      BY <2>2, ProcessesAssumption DEF Procs
    <3> QED BY <2>2, <3>1, <3>2 DEF IInv, Shape, StoreInv, DraftInv, Keeps, Commits
  <2> QED BY <2>1, <2>2 DEF Finish, Interrupt, End, Crash
<1>3. DOMAIN pc' = Procs /\ \A q \in Procs : pc'[q] \in Early => pc'[q] = pc[q]
  BY <1>1 DEF IInv, Shape, Moving
<1>4. Shape'
  BY <1>1, <1>2, <1>3 DEF StoreInv, Shape, IInv
<1>5. StartInv'
  BY <1>1, <1>2, <1>3 DEF IInv, StartInv, Commits, Early, Procs
<1> QED BY <1>2, <1>4, <1>5 DEF IInv, StoreInv, Commits

(* The first steps of start: admitting the attempt, asking for a thread    *)
(* and for a turn.                                                         *)
LEMMA AdmitKeeps ==
    ASSUME IInv, NEW s \in Starters, Admit(s)
    PROVE  IInv' /\ Commits
<1> s \in Procs
  BY DEF Procs
<1>1. CASE Raise(s) /\ UNCHANGED store
  <2>1. Plain(s)
    BY <1>1, RaiseMoves DEF Admit, IInv, Plain, Writing, provider
  <2> QED BY <2>1, PlainKeeps
<1>2. CASE row.status = "NONE" /\ Retain(s, FreshRow) /\ Goto(s, "threading") /\ UNCHANGED job
  <2>1. s # NoId /\ lock # s
    BY ProcessesAssumption DEF IInv, Shape, Procs
  <2>2. /\ row' = FreshRow /\ draft' = draft /\ lock' = lock /\ lock = NoId
        /\ turn' = turn /\ job' = job /\ pc' = [pc EXCEPT ![s] = "threading"]
    BY <1>2, <2>1 DEF Admit, Retain, CanWrite, Goto, provider
  <2>3. DOMAIN FreshRow = Fields /\ FreshRow.status # "NONE"
    BY DEF FreshRow, NoRow, Fields
  <2>4. Shape' /\ DraftInv' /\ Commits
    BY <1>2, <2>2, <2>3 DEF IInv, Shape, DraftInv, Commits, Keeps, Settled
  <2>5. StartInv'
    BY <1>2, <2>2, <2>3 DEF IInv, Shape, StartInv, Procs
  <2> QED BY <2>4, <2>5 DEF IInv
<1> QED BY <1>1, <1>2 DEF Admit

LEMMA AskKeeps ==
    ASSUME IInv, NEW s \in Starters, StartThread(s) \/ StartTurn(s)
    PROVE  IInv' /\ Commits
<1> s \in Procs
  BY DEF Procs
<1>1. /\ row' = row /\ draft' = draft /\ lock' = lock /\ job' = job
      /\ pc[s] \in {"threading", "turning"}
      /\ \/ turn' = turn /\ pc' = [pc EXCEPT ![s] = "losing"]
         \/ \E t \in {"thread", "running"}, place \in {"keepThread", "keepTurn", "losing"} :
               /\ turn' = [turn EXCEPT ![s] = t] /\ pc' = [pc EXCEPT ![s] = place]
               /\ place = "keepThread" => t = "thread"
  BY DEF StartThread, StartTurn, Goto, store
<1>2. Shape' /\ DraftInv' /\ Commits
  BY <1>1 DEF IInv, Shape, DraftInv, Commits, Keeps
<1>3. \A t \in Starters \ {s} : pc'[t] = pc[t] /\ turn'[t] = turn[t]
  BY <1>1 DEF IInv, Shape, Procs
<1>4. /\ pc'[s] \notin {"threading", "turning"}
      /\ pc'[s] = "keepThread" => turn'[s] = "thread"
      /\ turn[s] # "none" => turn'[s] # "none"
  BY <1>1 DEF IInv, Shape, Procs
<1>5. \A k \in Keepers : pc'[k] = pc[k]
  BY <1>1, ProcessesAssumption DEF IInv, Shape, Procs
<1>6. \A t \in Starters \ {s} : turn'[t] = "none" /\ pc'[t] # "threading"
  BY <1>1, <1>3 DEF IInv, StartInv
<1>7. row.status # "NONE"
  BY <1>1 DEF IInv, StartInv
<1>8. StartInv'
  BY <1>1, <1>3, <1>4, <1>5, <1>6, <1>7 DEF IInv, StartInv
<1> QED BY <1>2, <1>8 DEF IInv

LEMMA KeepThreadKeeps ==
    ASSUME IInv, NEW s \in Starters, KeepThread(s)
    PROVE  IInv' /\ Commits
<1> s \in Procs
  BY DEF Procs
<1>1. turn' = turn /\ job' = job /\ pc[s] = "keepThread"
  BY DEF KeepThread, provider
<1>2. CASE Goto(s, "losing") /\ UNCHANGED store
  <2>1. Plain(s)
    BY <1>1, <1>2 DEF Plain, Writing, Moving, Goto, Early, IInv, Shape
  <2> QED BY <2>1, PlainKeeps
<1>3. CASE /\ Update(s, [row EXCEPT !.thread = s, !.status = "STARTING"])
           /\ Goto(s, "turning")
  <2> DEFINE r == [row EXCEPT !.thread = s, !.status = "STARTING"]
  <2>1. DOMAIN r = Fields /\ r.status = "STARTING" /\ Update(s, r)
    BY <1>3 DEF IInv, Shape, Fields
  <2> HIDE DEF r
  <2>2. Writing(s)
    BY <2>1, UpdateWrites DEF Settled, Writing
  <2>3. StoreInv' /\ Commits
    BY <2>2, WritingKeeps DEF IInv
  <2>4. pc' = [pc EXCEPT ![s] = "turning"]
    BY <1>3 DEF Goto
  <2>5. Shape'
    BY <1>1, <2>3, <2>4 DEF IInv, Shape, StoreInv
  <2>6. StartInv'
    BY <1>1, <2>3, <2>4, ProcessesAssumption DEF IInv, Shape, StartInv, Commits, Procs
  <2> QED BY <2>3, <2>5, <2>6 DEF IInv, StoreInv, Commits
<1> QED BY <1>2, <1>3 DEF KeepThread

LEMMA WorkKeeps ==
    ASSUME IInv, NEW s \in Starters, Work(s)
    PROVE  IInv' /\ Commits
<1>1. /\ row' = row /\ draft' = draft /\ lock' = lock /\ job' = job /\ pc' = pc
      /\ turn[s] = "running" /\ (turn' = turn \/ turn' = [turn EXCEPT ![s] = "completed"])
  BY DEF Work, store
<1>2. Shape' /\ DraftInv' /\ Commits
  BY <1>1 DEF IInv, Shape, DraftInv, Commits, Keeps
<1>3. \A t \in Starters : /\ turn'[t] = "none" <=> turn[t] = "none"
                          /\ turn[t] = "thread" => turn'[t] = "thread"
  BY <1>1 DEF IInv, Shape
<1>4. StartInv'
  BY <1>1, <1>3 DEF IInv, StartInv
<1> QED BY <1>2, <1>4 DEF IInv

LEMMA Inductive == IInv /\ [Next]_vars => IInv' /\ Commits
<1> SUFFICES ASSUME IInv, [Next]_vars PROVE IInv' /\ Commits
  OBVIOUS
<1>1. Shape
  BY DEF IInv
<1>2. CASE UNCHANGED vars
  BY <1>2 DEF vars, IInv, Shape, DraftInv, StartInv, Commits, Keeps
<1>3. ASSUME NEW s \in Starters, Enter(s) \/ StartStep(s) \/ Work(s)
      PROVE  IInv' /\ Commits
  <2>1. s \in Procs
    BY DEF Procs
  <2>2. CASE Enter(s) \/ KeepTurn(s) \/ RecordStart(s) \/ LoseStart(s) \/ Busy(s)
    BY <1>1, <2>1, <2>2, StartPlain, PlainKeeps
  <2> QED BY <1>3, <2>2, AdmitKeeps, AskKeeps, KeepThreadKeeps, WorkKeeps DEF StartStep
<1>4. ASSUME NEW k \in Keepers, Preflight(k) \/ KeeperStep(k)
      PROVE  IInv' /\ Commits
  <2>1. k \in Procs
    BY DEF Procs
  <2>2. CASE KeeperStep(k) /\ ~Begin(k)
    BY <1>1, <2>1, <2>2, KeeperPlain, PlainKeeps
  <2> QED BY <1>4, <2>2, BeginKeeps
<1>5. ASSUME NEW p \in Procs, CommonStep(p) \/ Deadline(p) \/ Crash(p) \/ Interrupt(p) \/ Deliver(p)
      PROVE  IInv' /\ Commits
  <2>1. CASE CommonStep(p) /\ ~Finish(p)
    BY <1>1, <2>1, CommonPlain, PlainKeeps
  <2>2. CASE Deadline(p) \/ Deliver(p)
    BY <1>1, <2>2, EitherPlain, PlainKeeps
  <2> QED BY <1>5, <2>1, <2>2, EndKeeps
<1> QED BY <1>2, <1>3, <1>4, <1>5 DEF Next

LEMMA Initially == Init => IInv
BY ProcessesAssumption
   DEF Init, NoRow, NoJob, IInv, Shape, DraftInv, StartInv, Fields, Jobs, Commands, Procs

----------------------------------------------------------------------------

(* Whatever commands are given, however many run at a time and wherever    *)
(* they die, an attempt that is INDETERMINATE or TERMINAL stays that way   *)
(* with the receipt it has.                                                *)
THEOREM SettledForever == Spec => SettledStays
<1>1. IInv /\ [Next]_vars =>
        [row.status \in Settled => row'.status = row.status /\ row'.receipt = row.receipt]_vars
  BY Inductive DEF Commits, Keeps
<1> QED BY <1>1, Initially, Inductive, PTL DEF Spec, SettledStays

(* Whatever start commands are given to an attempt, and however each of    *)
(* them ends, one thread at most is ever asked for.                        *)
THEOREM OneThread == Spec => OneThreadPerAttempt
<1>1. IInv /\ [Next]_vars =>
        [\A s \in Starters : pc[s] = "threading" /\ pc'[s] = "keepThread"
                              => \A t \in Starters : turn[t] = "none"]_vars
  BY DEF IInv, StartInv
<1> QED BY <1>1, Initially, Inductive, PTL DEF Spec, OneThreadPerAttempt

----------------------------------------------------------------------------
(* The invariant of one occurrence: where it stands, its job, its          *)
(* connection, whether its row is settled and whether it holds the lock.   *)

Drains == {"draining", "requests", "notes"}
Drained(l) == l.requests = <<>> /\ l.notes = <<>>

OccurrenceInv(place, j, l, settled, held) ==
    /\ place \notin {"idle", "opening"} => held
    /\ place \in {"idle", "opening", "connecting"} => ~l.open /\ ~l.loss /\ ~j.closing
    /\ l.clean => ~l.open /\ ~l.loss
    /\ j.closing => /\ place \in Drains \cup {"cutting", "weighing", "finishing"}
                    /\ place \in Drains => j.back = "weighing"
    /\ place = "finishing" /\ (l.open \/ l.loss) => settled
    /\ place = "notes" /\ ~l.open => l.requests = <<>>
    /\ place = "weighing" /\ ~l.open => settled \/ Drained(l)
    /\ place = "sealing" => settled \/ (l.clean /\ Drained(l))

Occurrence(k) ==
    OccurrenceInv(pc[k], job[k], link[k], draft.status \in Settled, lock = k)

LinkShape == /\ DOMAIN link = Procs
             /\ \A p \in Procs : DOMAIN link[p] = DOMAIN NoLink

OInv == IInv /\ LinkShape /\ \A k \in Keepers : Occurrence(k)

(* An exception of an occurrence that holds the lock.                      *)
LEMMA RaiseTo ==
    ASSUME IInv, NEW k \in Keepers, Raise(k)
    PROVE  IF job[k].closing THEN pc'[k] = "finishing" /\ job'[k] = job[k]
           ELSE pc'[k] = "cutting" /\ job'[k].closing /\ job'[k].back = job[k].back
<1>1. k \in Procs /\ k \notin Starters
  BY ProcessesAssumption DEF Procs
<1>2. DOMAIN pc = Procs /\ job \in [Procs -> Jobs]
  BY DEF IInv, Shape
<1>3. CASE job[k].closing
  BY <1>1, <1>2, <1>3 DEF Raise, Goto
<1>4. CASE ~job[k].closing
  <2>1. /\ job' = [job EXCEPT ![k].closing = TRUE]
        /\ pc' = [pc EXCEPT ![k] = "cutting"]
    BY <1>1, <1>4 DEF Raise, Goto
  <2>2. pc'[k] = "cutting"
    BY <1>1, <1>2, <2>1
  <2>3. job'[k].closing /\ job'[k].back = job[k].back
    BY <1>1, <1>2, <2>1 DEF Jobs
  <2> QED BY <1>4, <2>2, <2>3
<1> QED BY <1>3, <1>4

(* Marking the attempt settles it, or it is settled already.               *)
LEMMA MarkTo ==
    ASSUME IInv, NEW k \in Keepers, lock = k, NEW next, MarkIndeterminate(k, next)
    PROVE  /\ lock' = k
           /\ \/ pc'[k] = next /\ job'[k] = job[k] /\ draft'.status \in Settled
              \/ Raise(k) /\ draft' = draft /\ draft.status \in Settled
<1>1. k \in Procs /\ View(k) = draft
  BY DEF Procs, View
<1>2. CASE /\ Update(k, [View(k) EXCEPT !.status = "INDETERMINATE"])
           /\ Goto(k, next)
           /\ UNCHANGED job
  <2>1. draft' = [draft EXCEPT !.status = "INDETERMINATE"] /\ lock' = lock
    BY <1>1, <1>2 DEF Update, Retain
  <2>2. draft'.status = "INDETERMINATE"
    BY <2>1 DEF IInv, Shape, Fields
  <2> QED BY <1>1, <1>2, <2>1, <2>2 DEF Goto, IInv, Shape, Settled
<1>3. CASE Refused(k, "INDETERMINATE") /\ Raise(k) /\ UNCHANGED store
  BY <1>1, <1>3 DEF Refused, MayBecome, store, Settled
<1> QED BY <1>2, <1>3 DEF MarkIndeterminate

LEMMA MarkOccurrence ==
    ASSUME OInv, NEW k \in Keepers, NEW next, MarkIndeterminate(k, next),
           link'[k].clean => ~link'[k].open /\ ~link'[k].loss,
           pc[k] \in Drains \cup {"acting", "reading", "weighing", "sealing"},
           next \notin {"idle", "opening", "connecting", "notes"},
           job[k].closing => next \in {"weighing", "finishing"}
    PROVE  Occurrence(k)'
<1>1. lock = k /\ IInv /\ Occurrence(k)
  BY DEF OInv, Occurrence, OccurrenceInv, Drains
<1>2. /\ lock' = k
      /\ \/ pc'[k] = next /\ job'[k] = job[k] /\ draft'.status \in Settled
         \/ Raise(k) /\ draft' = draft /\ draft.status \in Settled
  BY <1>1, MarkTo
<1>3. CASE pc'[k] = next /\ job'[k] = job[k] /\ draft'.status \in Settled
  BY <1>1, <1>2, <1>3 DEF Occurrence, OccurrenceInv, Drains
<1>4. CASE Raise(k) /\ draft' = draft /\ draft.status \in Settled
  <2>1. CASE job[k].closing /\ pc'[k] = "finishing" /\ job'[k] = job[k]
    BY <1>1, <1>2, <1>4, <2>1 DEF Occurrence, OccurrenceInv, Drains
  <2>2. CASE pc'[k] = "cutting"
    BY <1>1, <1>2, <1>4, <2>2 DEF Occurrence, OccurrenceInv, Drains
  <2> QED BY <1>1, <1>4, <2>1, <2>2, RaiseTo
<1> QED BY <1>2, <1>3, <1>4

(* An exception before the occurrence is finalized.                        *)
LEMMA RaiseOccurrence ==
    ASSUME OInv, NEW k \in Keepers, Raise(k), ~job[k].closing,
           lock = k, lock' = lock, link'[k].clean => ~link'[k].open /\ ~link'[k].loss
    PROVE  Occurrence(k)'
<1>1. pc'[k] = "cutting"
  BY RaiseTo DEF OInv
<1> QED BY <1>1 DEF Occurrence, OccurrenceInv, Drains

LEMMA DrainRaisesOccurrence ==
    ASSUME OInv, NEW k \in Keepers, DrainRaises(k), pc[k] \in Drains,
           link'[k].clean => ~link'[k].open /\ ~link'[k].loss
    PROVE  Occurrence(k)'
<1>1. lock = k /\ IInv /\ Occurrence(k)
  BY DEF OInv, Occurrence, OccurrenceInv, Drains
<1>2. CASE Raise(k) /\ UNCHANGED store /\ job[k].back # "weighing"
  <2>1. ~job[k].closing
    BY <1>1, <1>2 DEF Occurrence, OccurrenceInv
  <2> QED BY <1>1, <1>2, <2>1, RaiseOccurrence DEF store
<1>3. CASE MarkIndeterminate(k, AfterCut(k))
  <2>1. /\ AfterCut(k) \notin {"idle", "opening", "connecting", "notes"}
        /\ job[k].closing => AfterCut(k) \in {"weighing", "finishing"}
    BY DEF AfterCut
  <2> QED BY <1>3, <2>1, MarkOccurrence DEF Drains
<1> QED BY <1>2, <1>3 DEF DrainRaises

(* A cut is clean only when nothing was lost and nothing is left open.     *)
LEMMA QuiesceCuts ==
    ASSUME LinkShape, NEW k \in Keepers, Quiesce(k)
    PROVE  link'[k].clean => ~link'[k].open /\ ~link'[k].loss
<1>1. k \in Procs /\ DOMAIN link = Procs /\ DOMAIN link[k] = DOMAIN NoLink
  BY DEF LinkShape, Procs
<1>2. CASE link'[k] = [link[k] EXCEPT !.open = FALSE, !.clean = ~link[k].loss]
  <2>1. link'[k].loss = link[k].loss /\ ~link'[k].open
    BY <1>1, <1>2 DEF NoLink
  <2>2. link'[k].clean = ~link[k].loss
    BY <1>1, <1>2 DEF NoLink
  <2> QED BY <2>1, <2>2
<1>3. CASE \E open \in BOOLEAN :
             link'[k] = [link[k] EXCEPT !.open = open, !.clean = FALSE,
                                       !.loss = TRUE, !.diagnostics = TRUE]
  <2>1. ~link'[k].clean
    BY <1>1, <1>3 DEF NoLink
  <2> QED BY <2>1
<1> QED BY <1>1, <1>2, <1>3 DEF Quiesce, SetLink

(* What an occurrence that is not draining does.                           *)
LEMMA OpeningOccurrence ==
    ASSUME OInv, NEW k \in Keepers,
           Preflight(k) \/ Begin(k) \/ GiveUp(k) \/ SetupFails(k) \/ Connect(k)
    PROVE  Occurrence(k)'
<1>1. /\ k \in Procs /\ Occurrence(k) /\ DOMAIN pc = Procs /\ DOMAIN link = Procs
      /\ job \in [Procs -> Jobs]
  BY DEF OInv, IInv, Shape, LinkShape, Procs
<1>2. CASE Preflight(k)
  BY <1>1, <1>2 DEF Preflight, Goto, store, Occurrence, OccurrenceInv, Drains
<1>3. CASE Begin(k)
  <2>1. pc[k] = "opening" /\ pc'[k] = "connecting" /\ lock' = k /\ link' = link
        /\ job'[k].closing = job[k].closing
    BY <1>1, <1>3 DEF Begin, Goto, Jobs
  <2> QED BY <1>1, <2>1 DEF Occurrence, OccurrenceInv, Drains
<1>4. CASE GiveUp(k)
  <2>1. pc'[k] = "idle" /\ link'[k] = NoLink /\ job'[k] = NoJob
    BY <1>1, <1>4 DEF GiveUp, Exit, Goto, SetLink
  <2> QED BY <2>1 DEF Occurrence, OccurrenceInv, Drains, NoLink, NoJob
<1>5. CASE SetupFails(k)
  BY <1>1, <1>5 DEF SetupFails, Goto, store, Occurrence, OccurrenceInv, Drains
<1>6. CASE Connect(k)
  <2>1. /\ pc'[k] = "acting" /\ pc[k] = "connecting" /\ lock' = lock /\ job' = job
        /\ link'[k] = [NoLink EXCEPT !.open = TRUE]
    BY <1>1, <1>6 DEF Connect, Goto, SetLink, store
  <2> QED BY <1>1, <2>1 DEF Occurrence, OccurrenceInv, Drains, NoLink
<1> QED BY <1>2, <1>3, <1>4, <1>5, <1>6

LEMMA ConnectFailsOccurrence ==
    ASSUME OInv, NEW k \in Keepers, ConnectFails(k) PROVE Occurrence(k)'
<1>1. k \in Procs /\ Occurrence(k) /\ DOMAIN link = Procs
  BY DEF OInv, LinkShape, Procs
<1>2. ~job[k].closing /\ lock = k /\ lock' = lock /\ Raise(k)
  BY <1>1 DEF ConnectFails, store, Occurrence, OccurrenceInv, Drains
<1>3. link'[k].clean => ~link'[k].open /\ ~link'[k].loss
  <2>1. CASE SetLink(k, [NoLink EXCEPT !.loss = TRUE, !.diagnostics = TRUE])
    BY <1>1, <2>1 DEF SetLink, NoLink
  <2> QED BY <2>1, QuiesceCuts DEF ConnectFails, OInv
<1> QED BY <1>2, <1>3, RaiseOccurrence

(* A step to a place that asks for nothing but the lock.                   *)
LEMMA GoOn ==
    ASSUME OInv, NEW k \in Keepers, NEW place, Goto(k, place),
           lock = k, lock' = lock, link' = link, ~job[k].closing, ~job'[k].closing,
           place \notin {"idle", "opening", "connecting", "finishing", "notes",
                         "weighing", "sealing"}
    PROVE  Occurrence(k)'
<1>1. k \in Procs /\ Occurrence(k) /\ pc'[k] = place
  BY DEF OInv, IInv, Shape, Procs, Goto
<1> QED BY <1>1 DEF Occurrence, OccurrenceInv, Drains

LEMMA ActingOccurrence ==
    ASSUME OInv, NEW k \in Keepers, Resume(k) \/ Status(k)
    PROVE  Occurrence(k)'
<1>1. k \in Procs /\ Occurrence(k) /\ job \in [Procs -> Jobs] /\ link' = link
  BY DEF OInv, IInv, Shape, Procs, Resume, Status
<1>2. pc[k] = "acting" /\ ~job[k].closing /\ lock = k
      /\ (link'[k].clean => ~link'[k].open /\ ~link'[k].loss)
  BY <1>1 DEF Resume, Status, Occurrence, OccurrenceInv, Drains
<1>3. CASE Raise(k) /\ UNCHANGED store
  BY <1>2, <1>3, RaiseOccurrence DEF store
<1>4. CASE MarkIndeterminate(k, "observing")
  BY <1>2, <1>4, MarkOccurrence
<1>5. CASE /\ UNCHANGED store
           /\ \E place \in {"observing", "reading", "draining", AfterAct(k)} : Goto(k, place)
           /\ UNCHANGED job \/ job' = [job EXCEPT ![k].back = AfterAct(k)]
  <2>1. ~job'[k].closing /\ lock' = lock
    BY <1>1, <1>2, <1>5 DEF Jobs, store
  <2> QED BY <1>1, <1>2, <1>5, <2>1, GoOn DEF AfterAct
<1>6. CASE Resume(k)
  BY <1>3, <1>4, <1>5, <1>6 DEF Resume, store
<1>7. CASE Status(k)
  BY <1>5, <1>7 DEF Status
<1> QED BY <1>6, <1>7

LEMMA ReadThreadOccurrence ==
    ASSUME OInv, NEW k \in Keepers, ReadThread(k) PROVE Occurrence(k)'
<1>1. k \in Procs /\ Occurrence(k) /\ link' = link /\ pc[k] = "reading"
  BY DEF OInv, Procs, ReadThread
<1>2. ~job[k].closing /\ lock = k
      /\ (link'[k].clean => ~link'[k].open /\ ~link'[k].loss)
  BY <1>1 DEF Occurrence, OccurrenceInv, Drains
<1>3. CASE Raise(k) /\ UNCHANGED store
  BY <1>2, <1>3, RaiseOccurrence DEF store
<1>4. CASE \E next \in {"observing", "draining"} : MarkIndeterminate(k, next)
  BY <1>1, <1>2, <1>4, MarkOccurrence
<1>5. CASE \E turns \in SUBSET History(View(k).thread) : IngestThread(k, turns)
  <2>1. \/ Raise(k) /\ UNCHANGED store
        \/ Goto(k, "draining") /\ UNCHANGED job /\ lock' = lock
    BY <1>5 DEF IngestThread, Update, Retain, store
  <2> QED BY <1>1, <1>2, <1>3, <2>1, GoOn
<1> QED BY <1>3, <1>4, <1>5 DEF ReadThread

LEMMA JudgeOccurrence ==
    ASSUME OInv, NEW k \in Keepers, Judge(k) PROVE Occurrence(k)'
<1>1. Occurrence(k) /\ link' = link /\ pc[k] = "judging" /\ job' = job /\ lock' = lock
      /\ \E place \in {"observing", "cutting"} : Goto(k, place)
  BY DEF OInv, Judge, store
<1>2. ~job[k].closing /\ lock = k
  BY <1>1 DEF Occurrence, OccurrenceInv, Drains
<1> QED BY <1>1, <1>2, GoOn

LEMMA SealOccurrence ==
    ASSUME OInv, NEW k \in Keepers, Seal(k) PROVE Occurrence(k)'
<1>1. Occurrence(k) /\ link' = link /\ pc[k] = "sealing"
  BY DEF OInv, Seal
<1>2. ~job[k].closing /\ lock = k
      /\ (link'[k].clean => ~link'[k].open /\ ~link'[k].loss)
  BY <1>1 DEF Occurrence, OccurrenceInv, Drains
<1>3. CASE MarkIndeterminate(k, "observing")
  BY <1>1, <1>2, <1>3, MarkOccurrence
<1>4. CASE Goto(k, "observing") /\ UNCHANGED job /\ lock' = lock
  BY <1>1, <1>2, <1>4, GoOn
<1> QED BY <1>3, <1>4 DEF Seal, Update, Retain, store

(* What it does while it drains.                                           *)
LEMMA DrainsOccurrence ==
    ASSUME OInv, NEW k \in Keepers,
           DrainDiagnostics(k) \/ DrainQueues(k) \/ RequestsTaken(k) \/ NotesTaken(k)
    PROVE  Occurrence(k)'
<1>1. /\ k \in Procs /\ Occurrence(k) /\ DOMAIN pc = Procs /\ DOMAIN link = Procs
      /\ job[k].back \in {"judging", "observing", "weighing"}
      /\ DOMAIN link[k] = DOMAIN NoLink
  BY DEF OInv, IInv, Shape, Jobs, LinkShape, Procs
<1>2. pc[k] \in Drains /\ lock = k /\ View(k) = draft
  BY <1>1 DEF Occurrence, OccurrenceInv, DrainDiagnostics, DrainQueues, RequestsTaken,
              NotesTaken, Drains, View
<1>3. (job[k].closing => job[k].back = "weighing")
      /\ (link[k].clean => ~link[k].open /\ ~link[k].loss)
  BY <1>1, <1>2 DEF Occurrence, OccurrenceInv
<1>4. CASE DrainDiagnostics(k)
  <2>1. /\ link'[k].open = link[k].open
        /\ link'[k].loss = link[k].loss
        /\ link'[k].clean = link[k].clean
    <3>1. CASE link'[k] = [link[k] EXCEPT !.diagnostics = FALSE]
      BY <1>1, <3>1 DEF NoLink
    <3>2. CASE link'[k] = [link[k] EXCEPT !.diagnostics = FALSE,
                                         !.requests = <<>>, !.notes = <<>>]
      BY <1>1, <3>2 DEF NoLink
    <3> QED BY <1>1, <1>4, <3>1, <3>2 DEF DrainDiagnostics, SetLink
  <2>2. CASE /\ Update(k, [View(k) EXCEPT !.status = "INDETERMINATE"])
             /\ Goto(k, job[k].back)
             /\ UNCHANGED job
    <3>1. MarkIndeterminate(k, job[k].back)
      BY <2>2 DEF MarkIndeterminate
    <3> QED BY <1>1, <1>2, <1>3, <2>1, <3>1, MarkOccurrence
  <2>3. CASE DrainRaises(k)
    BY <1>2, <1>3, <2>1, <2>3, DrainRaisesOccurrence
  <2> QED BY <1>4, <2>2, <2>3 DEF DrainDiagnostics
<1>5. CASE DrainQueues(k)
  <2>1. /\ link' = link /\ job' = job /\ lock' = lock /\ draft' = draft
        /\ pc'[k] = IF draft.status = "INDETERMINATE" THEN job[k].back ELSE "requests"
    BY <1>1, <1>2, <1>5 DEF DrainQueues, Goto, store
  <2> QED BY <1>1, <1>2, <1>3, <2>1 DEF Occurrence, OccurrenceInv, Drains, Settled
<1>6. CASE RequestsTaken(k)
  <2>1. /\ link' = link /\ job' = job /\ lock' = lock /\ pc'[k] = "notes"
        /\ link[k].requests = <<>>
    BY <1>1, <1>6 DEF RequestsTaken, Goto, store
  <2> QED BY <1>1, <1>2, <1>3, <2>1 DEF Occurrence, OccurrenceInv, Drains
<1>7. CASE NotesTaken(k)
  <2>1. /\ link' = link /\ job' = job /\ lock' = lock /\ pc'[k] = job[k].back
        /\ link[k].notes = <<>> /\ pc[k] = "notes"
    BY <1>1, <1>7 DEF NotesTaken, Goto, store
  <2> QED BY <1>1, <1>2, <1>3, <2>1 DEF Occurrence, OccurrenceInv, Drains, Drained
<1> QED BY <1>4, <1>5, <1>6, <1>7

(* A message is taken from its queue.                                      *)
LEMMA TakesOccurrence ==
    ASSUME OInv, NEW k \in Keepers, TakeRequest(k) \/ TakeNote(k)
    PROVE  Occurrence(k)'
<1>1. /\ k \in Procs /\ Occurrence(k) /\ DOMAIN pc = Procs /\ DOMAIN link = Procs
      /\ job[k].back \in {"judging", "observing", "weighing"}
      /\ DOMAIN link[k] = DOMAIN NoLink
  BY DEF OInv, IInv, Shape, Jobs, LinkShape, Procs
<1>2. pc[k] \in {"requests", "notes"} /\ lock = k /\ View(k) = draft
  BY <1>1 DEF Occurrence, OccurrenceInv, TakeRequest, TakeNote, View
<1>3. (job[k].closing => job[k].back = "weighing")
      /\ (link[k].clean => ~link[k].open /\ ~link[k].loss)
  BY <1>1, <1>2 DEF Occurrence, OccurrenceInv, Drains
<1>4. /\ link'[k].open = link[k].open
      /\ link'[k].loss = link[k].loss
      /\ link'[k].clean = link[k].clean
      /\ TakeNote(k) => link'[k].requests = link[k].requests
  BY <1>1 DEF TakeRequest, TakeNote, SetLink, NoLink
<1>5. CASE MarkIndeterminate(k, job[k].back)
  BY <1>1, <1>2, <1>3, <1>4, <1>5, MarkOccurrence DEF Drains
<1>6. CASE DrainRaises(k)
  BY <1>2, <1>3, <1>4, <1>6, DrainRaisesOccurrence DEF Drains
<1>7. CASE UNCHANGED <<pc, job>> /\ lock' = lock
  <2>1. pc[k] = "notes" => TakeNote(k)
    BY DEF TakeRequest
  <2> QED BY <1>1, <1>2, <1>3, <1>4, <1>7, <2>1 DEF Occurrence, OccurrenceInv, Drains
<1>8. CASE TakeRequest(k)
  BY <1>5, <1>6, <1>7, <1>8 DEF TakeRequest, Update, Retain
<1>9. CASE TakeNote(k)
  BY <1>5, <1>7, <1>9 DEF TakeNote, Update, Retain, store
<1> QED BY <1>8, <1>9

(* The acquisition cut and what follows from it.                           *)
LEMMA CutOccurrence ==
    ASSUME OInv, NEW k \in Keepers, Cut(k) \/ Look(k) \/ Deadline(k)
    PROVE  Occurrence(k)'
<1>1. /\ k \in Procs /\ Occurrence(k) /\ DOMAIN pc = Procs /\ DOMAIN link = Procs
      /\ job \in [Procs -> Jobs] /\ DOMAIN link[k] = DOMAIN NoLink
  BY DEF OInv, IInv, Shape, LinkShape, Procs
<1>2. CASE Cut(k)
  <2>1. /\ pc'[k] = "draining" /\ lock' = lock /\ job'[k].back = "weighing"
        /\ job'[k].closing = job[k].closing /\ pc[k] = "cutting"
    BY <1>1, <1>2 DEF Cut, Goto, store, Jobs
  <2>2. link'[k].clean => ~link'[k].open /\ ~link'[k].loss
    BY <1>2, QuiesceCuts DEF Cut, OInv
  <2> QED BY <1>1, <2>1, <2>2 DEF Occurrence, OccurrenceInv, Drains
<1>3. CASE Look(k)
  <2>1. /\ pc'[k] = "draining" /\ lock' = lock /\ link' = link
        /\ job'[k].closing = job[k].closing /\ pc[k] = "observing"
    BY <1>1, <1>3 DEF Look, Goto, store, Jobs
  <2> QED BY <1>1, <2>1 DEF Occurrence, OccurrenceInv, Drains
<1>4. CASE Deadline(k)
  <2>1. /\ pc'[k] = "cutting" /\ lock' = lock /\ link' = link /\ pc[k] = "observing"
    BY <1>1, <1>4 DEF Deadline, Goto, store
  <2> QED BY <1>1, <2>1 DEF Occurrence, OccurrenceInv, Drains
<1> QED BY <1>2, <1>3, <1>4

LEMMA WeighOccurrence ==
    ASSUME OInv, NEW k \in Keepers, Weigh(k) PROVE Occurrence(k)'
<1>1. k \in Procs /\ Occurrence(k) /\ DOMAIN pc = Procs /\ link' = link /\ pc[k] = "weighing"
  BY DEF OInv, IInv, Shape, Procs, Weigh
<1>2. lock = k /\ View(k) = draft /\ (link'[k].clean => ~link'[k].open /\ ~link'[k].loss)
  BY <1>1 DEF Occurrence, OccurrenceInv, Drains, View
<1>3. CASE /\ link[k].clean \/ View(k).status = "INDETERMINATE"
           /\ Goto(k, AfterCut(k)) /\ UNCHANGED <<store, job>>
  <2>1. /\ pc'[k] = AfterCut(k) /\ job' = job /\ lock' = lock /\ draft' = draft
        /\ link[k].clean \/ draft.status \in Settled
    BY <1>1, <1>2, <1>3 DEF Goto, store, Settled
  <2> QED BY <1>1, <1>2, <2>1 DEF Occurrence, OccurrenceInv, Drains, AfterCut
<1>4. CASE MarkIndeterminate(k, AfterCut(k))
  BY <1>1, <1>2, <1>4, MarkOccurrence DEF AfterCut
<1> QED BY <1>3, <1>4 DEF Weigh

LEMMA EndOccurrence ==
    ASSUME OInv, NEW k \in Keepers, Finish(k) \/ Interrupt(k) \/ Crash(k)
    PROVE  Occurrence(k)'
<1>1. k \in Procs /\ DOMAIN pc = Procs /\ DOMAIN link = Procs /\ job \in [Procs -> Jobs]
  BY DEF OInv, IInv, Shape, LinkShape, Procs
<1>2. pc'[k] = "idle" /\ link'[k] = NoLink /\ job'[k] = NoJob
  BY <1>1 DEF Finish, Interrupt, End, Crash, Exit, Goto, SetLink
<1> QED BY <1>2 DEF Occurrence, OccurrenceInv, Drains, NoLink, NoJob

LEMMA DeliverOccurrence ==
    ASSUME OInv, NEW k \in Keepers, Deliver(k) PROVE Occurrence(k)'
<1>1. /\ k \in Procs /\ Occurrence(k) /\ DOMAIN link = Procs
      /\ DOMAIN link[k] = DOMAIN NoLink
  BY DEF OInv, LinkShape, Procs
<1>2. /\ link'[k].open /\ link[k].open /\ link'[k].clean = link[k].clean
      /\ pc' = pc /\ job' = job /\ lock' = lock /\ draft' = draft
  BY <1>1 DEF Deliver, SetLink, NoLink, store
<1> QED BY <1>1, <1>2 DEF Occurrence, OccurrenceInv, Drains

(* A step of one command leaves alone what is another's, and the store     *)
(* when another has the lock.                                              *)
OwnPlace(p) == \A q \in Procs \ {p} : pc'[q] = pc[q] /\ job'[q] = job[q]
OwnStore(p) == UNCHANGED store \/ lock \in {p, NoId}
OwnLink(p) == /\ DOMAIN link' = Procs /\ DOMAIN link'[p] = DOMAIN NoLink
              /\ \A q \in Procs \ {p} : link'[q] = link[q]
Own3(p) == OwnPlace(p) /\ OwnStore(p) /\ OwnLink(p)

LEMMA LinkSet ==
    ASSUME LinkShape, NEW p \in Procs, NEW l, DOMAIN l = DOMAIN NoLink,
           link' = link \/ SetLink(p, l)
    PROVE  OwnLink(p)
BY DEF LinkShape, SetLink, OwnLink

LEMMA MovesOwn ==
    ASSUME Shape, NEW p \in Procs
    PROVE  /\ Raise(p) => OwnPlace(p)
           /\ \A next : MarkIndeterminate(p, next) => OwnPlace(p) /\ OwnStore(p)
           /\ DrainRaises(p) => OwnPlace(p) /\ OwnStore(p)
           /\ Exit(p) => OwnPlace(p)
<1>1. Raise(p) => OwnPlace(p)
  BY DEF Raise, Goto, OwnPlace, Shape
<1>2. \A next : MarkIndeterminate(p, next) => OwnPlace(p) /\ OwnStore(p)
  BY <1>1 DEF MarkIndeterminate, Update, Retain, CanWrite, Goto, OwnPlace, OwnStore, Shape
<1>3. DrainRaises(p) => OwnPlace(p) /\ OwnStore(p)
  BY <1>1, <1>2 DEF DrainRaises, OwnStore
<1>4. Exit(p) => OwnPlace(p)
  BY DEF Exit, Goto, OwnPlace, Shape
<1> QED BY <1>1, <1>2, <1>3, <1>4

LEMMA KeeperOwn ==
    ASSUME Shape, LinkShape, NEW k \in Keepers, Preflight(k) \/ KeeperStep(k)
    PROVE  Own3(k)
<1> k \in Procs
  BY DEF Procs
<1>1. CASE Preflight(k) \/ Begin(k) \/ Judge(k)
  <2>1. OwnPlace(k)
    BY <1>1 DEF Preflight, Begin, Judge, Goto, OwnPlace, Shape
  <2> QED BY <1>1, <2>1 DEF Preflight, Begin, Judge, Own3, OwnStore, OwnLink, LinkShape
<1>2. CASE GiveUp(k)
  BY <1>2, MovesOwn, LinkSet DEF GiveUp, Exit, Own3, OwnStore
<1>3. CASE Resume(k) \/ Status(k)
  <2>1. OwnPlace(k)
    BY <1>3, MovesOwn DEF Resume, Status, Goto, OwnPlace, Shape
  <2>2. OwnStore(k)
    BY <1>3, MovesOwn DEF Resume, Status, OwnStore, store
  <2> QED BY <1>3, <2>1, <2>2 DEF Resume, Status, Own3, OwnLink, LinkShape
<1>4. CASE ReadThread(k)
  <2>1. ASSUME NEW turns, IngestThread(k, turns) PROVE OwnPlace(k) /\ OwnStore(k)
    BY <2>1, MovesOwn
       DEF IngestThread, Update, Retain, CanWrite, Goto, OwnPlace, OwnStore, Shape, store
  <2>2. OwnPlace(k) /\ OwnStore(k)
    BY <1>4, <2>1, MovesOwn DEF ReadThread, OwnStore
  <2> QED BY <1>4, <2>2 DEF ReadThread, Own3, OwnLink, LinkShape
<1>5. CASE Seal(k)
  <2>1. OwnPlace(k) /\ OwnStore(k)
    BY <1>5, MovesOwn
       DEF Seal, Update, Retain, CanWrite, Goto, OwnPlace, OwnStore, Shape, store
  <2> QED BY <1>5, <2>1 DEF Seal, Own3, OwnLink, LinkShape
<1> QED BY <1>1, <1>2, <1>3, <1>4, <1>5 DEF KeeperStep

LEMMA CommonOwn ==
    ASSUME Shape, LinkShape, NEW p \in Procs,
           CommonStep(p) \/ Deadline(p) \/ Crash(p) \/ Interrupt(p) \/ Deliver(p)
    PROVE  Own3(p)
<1>1. DOMAIN link[p] = DOMAIN NoLink
  BY DEF LinkShape
<1>2. CASE SetupFails(p) \/ RequestsTaken(p) \/ NotesTaken(p) \/ DrainQueues(p)
           \/ Look(p) \/ Deadline(p)
  <2>1. OwnPlace(p)
    BY <1>2 DEF SetupFails, RequestsTaken, NotesTaken, DrainQueues, Look, Deadline, Goto,
                OwnPlace, Shape
  <2> QED BY <1>2, <2>1 DEF SetupFails, RequestsTaken, NotesTaken, DrainQueues, Look,
                            Deadline, Own3, OwnStore, OwnLink, LinkShape
<1>3. CASE Connect(p) \/ ConnectFails(p)
  <2>1. OwnPlace(p) /\ OwnStore(p)
    BY <1>3, MovesOwn DEF Connect, ConnectFails, Goto, OwnPlace, OwnStore, Shape
  <2>2. OwnLink(p)
    <3>1. CASE Connect(p)
      BY <3>1 DEF Connect, SetLink, OwnLink, LinkShape, NoLink
    <3>2. CASE SetLink(p, [NoLink EXCEPT !.loss = TRUE, !.diagnostics = TRUE])
      BY <3>2 DEF SetLink, OwnLink, LinkShape, NoLink
    <3>3. CASE Quiesce(p)
      BY <1>1, <3>3 DEF Quiesce, SetLink, OwnLink, LinkShape
    <3> QED BY <1>3, <3>1, <3>2, <3>3 DEF ConnectFails
  <2> QED BY <2>1, <2>2 DEF Own3
<1>4. CASE DrainDiagnostics(p)
  <2>1. OwnPlace(p) /\ OwnStore(p)
    BY <1>4, MovesOwn DEF DrainDiagnostics, Update, Retain, CanWrite, Goto, OwnPlace,
                          OwnStore, Shape
  <2>2. OwnLink(p)
    BY <1>1, <1>4 DEF DrainDiagnostics, SetLink, OwnLink, LinkShape
  <2> QED BY <2>1, <2>2 DEF Own3
<1>5. CASE TakeRequest(p) \/ TakeNote(p)
  <2>1. OwnPlace(p) /\ OwnStore(p)
    BY <1>5, MovesOwn DEF TakeRequest, TakeNote, Update, Retain, CanWrite, Goto, OwnPlace,
                          OwnStore, Shape, store
  <2>2. PICK l : SetLink(p, l) /\ DOMAIN l = DOMAIN NoLink
    BY <1>1, <1>5 DEF TakeRequest, TakeNote
  <2> QED BY <2>1, <2>2, LinkSet DEF Own3
<1>6. CASE Cut(p)
  <2>1. OwnPlace(p) /\ OwnStore(p)
    BY <1>6 DEF Cut, Goto, OwnPlace, OwnStore, Shape
  <2>2. OwnLink(p)
    BY <1>1, <1>6 DEF Cut, Quiesce, SetLink, OwnLink, LinkShape
  <2> QED BY <2>1, <2>2 DEF Own3
<1>7. CASE Weigh(p)
  <2>1. OwnPlace(p) /\ OwnStore(p)
    BY <1>7, MovesOwn DEF Weigh, Goto, OwnPlace, OwnStore, Shape, store
  <2> QED BY <1>7, <2>1 DEF Weigh, Own3, OwnLink, LinkShape
<1>8. CASE Finish(p) \/ Interrupt(p) \/ Crash(p)
  BY <1>8, MovesOwn, LinkSet DEF Finish, Interrupt, End, Crash, Exit, Own3, OwnStore
<1>9. CASE Deliver(p)
  <2>1. OwnPlace(p) /\ OwnStore(p)
    BY <1>9 DEF Deliver, OwnPlace, OwnStore
  <2>2. OwnLink(p)
    BY <1>1, <1>9 DEF Deliver, SetLink, OwnLink, LinkShape
  <2> QED BY <2>1, <2>2 DEF Own3
<1> QED BY <1>2, <1>3, <1>4, <1>5, <1>6, <1>7, <1>8, <1>9 DEF CommonStep

LEMMA StartOwn ==
    ASSUME Shape, LinkShape, NEW s \in Starters, Enter(s) \/ StartStep(s) \/ Work(s)
    PROVE  Own3(s)
<1> s \in Procs
  BY DEF Procs
<1>1. CASE Enter(s) \/ StartThread(s) \/ StartTurn(s) \/ Work(s) \/ RecordStart(s)
  <2>1. OwnPlace(s)
    BY <1>1 DEF Enter, StartThread, StartTurn, Work, RecordStart, Goto, OwnPlace, Shape
  <2> QED BY <1>1, <2>1 DEF Enter, StartThread, StartTurn, Work, RecordStart, Own3,
                            OwnStore, OwnLink, LinkShape
<1>2. CASE Admit(s) \/ KeepThread(s) \/ KeepTurn(s)
  <2>1. OwnPlace(s) /\ OwnStore(s)
    BY <1>2, MovesOwn DEF Admit, KeepThread, KeepTurn, Update, Retain, CanWrite, Goto,
                          OwnPlace, OwnStore, Shape
  <2> QED BY <1>2, <2>1 DEF Admit, KeepThread, KeepTurn, Own3, OwnLink, LinkShape
<1>3. CASE LoseStart(s)
  BY <1>3, MovesOwn DEF LoseStart, Own3, OwnLink, LinkShape
<1>4. CASE Busy(s)
  <2>1. OwnPlace(s)
    BY <1>4, MovesOwn DEF Busy, Goto, OwnPlace, Shape
  <2>2. OwnLink(s)
    BY <1>4, LinkSet DEF Busy, Exit, OwnLink, LinkShape
  <2> QED BY <1>4, <2>1, <2>2 DEF Busy, Own3, OwnStore
<1> QED BY <1>1, <1>2, <1>3, <1>4 DEF StartStep

(* An occurrence is not disturbed by another command.                      *)
LEMMA Undisturbed ==
    ASSUME OInv, NEW p \in Procs, Own3(p), NEW k \in Keepers \ {p}
    PROVE  Occurrence(k)'
<1>1. k \in Procs \ {p} /\ k # NoId /\ Occurrence(k)
  BY ProcessesAssumption DEF Procs, OInv
<1>2. pc'[k] = pc[k] /\ job'[k] = job[k] /\ link'[k] = link[k]
  BY <1>1 DEF Own3, OwnPlace, OwnLink
<1>3. lock = k => lock' = lock /\ draft' = draft
  BY <1>1 DEF Own3, OwnStore, store
<1> QED BY <1>1, <1>2, <1>3 DEF Occurrence, OccurrenceInv, Drains

LEMMA OwnLinkShape == ASSUME LinkShape, NEW p \in Procs, Own3(p) PROVE LinkShape'
BY DEF LinkShape, Own3, OwnLink

LEMMA OInductive == OInv /\ [Next]_vars => OInv'
<1> SUFFICES ASSUME OInv, [Next]_vars PROVE OInv'
  OBVIOUS
<1>1. IInv' /\ Shape /\ LinkShape
  BY Inductive DEF OInv, IInv
<1>2. CASE UNCHANGED vars
  <2>1. UNCHANGED <<pc, job, link, draft, lock>>
    BY <1>2 DEF vars
  <2> QED BY <1>1, <2>1 DEF OInv, LinkShape, Occurrence
<1>3. ASSUME NEW s \in Starters, Enter(s) \/ StartStep(s) \/ Work(s) PROVE OInv'
  <2>1. s \in Procs /\ s \notin Keepers /\ Own3(s)
    BY <1>1, <1>3, StartOwn, ProcessesAssumption DEF Procs
  <2> QED BY <1>1, <2>1, Undisturbed, OwnLinkShape DEF OInv
<1>4. ASSUME NEW k \in Keepers, Preflight(k) \/ KeeperStep(k) PROVE OInv'
  <2>1. k \in Procs /\ Own3(k)
    BY <1>1, <1>4, KeeperOwn DEF Procs
  <2>2. Occurrence(k)'
    BY <1>4, OpeningOccurrence, ActingOccurrence, ReadThreadOccurrence, JudgeOccurrence,
       SealOccurrence DEF KeeperStep
  <2> QED BY <1>1, <2>1, <2>2, Undisturbed, OwnLinkShape DEF OInv
<1>5. ASSUME NEW p \in Procs, CommonStep(p) \/ Deadline(p) \/ Crash(p) \/ Interrupt(p) \/ Deliver(p)
      PROVE  OInv'
  <2>1. Own3(p)
    BY <1>1, <1>5, CommonOwn
  <2>2. p \in Keepers => Occurrence(p)'
    BY <1>5, OpeningOccurrence, ConnectFailsOccurrence, DrainsOccurrence, TakesOccurrence,
       CutOccurrence, WeighOccurrence, EndOccurrence, DeliverOccurrence DEF CommonStep
  <2> QED BY <1>1, <2>1, <2>2, Undisturbed, OwnLinkShape DEF OInv
<1> QED BY <1>2, <1>3, <1>4, <1>5 DEF Next

LEMMA OInitially == Init => OInv
<1> SUFFICES ASSUME Init PROVE OInv
  OBVIOUS
<1>1. LinkShape
  BY DEF Init, LinkShape
<1>2. ASSUME NEW k \in Keepers PROVE Occurrence(k)
  BY DEF Init, Procs, Occurrence, OccurrenceInv, NoLink, NoJob, Drains
<1> QED BY <1>1, <1>2, Initially DEF OInv

----------------------------------------------------------------------------

(* Whenever an occurrence that lost a frame comes to its commit through    *)
(* finalize_occurrence, after an exception of the command or of the        *)
(* finalization too, the attempt it commits is settled.  An interrupt      *)
(* reaches the commit without the finalization.                            *)
THEOREM FinalizationSettles == Spec => []FinalizationSettlesLoss
<1>1. OInv => FinalizationSettlesLoss
  BY DEF OInv, Occurrence, OccurrenceInv, FinalizationSettlesLoss, View
<1> QED BY <1>1, OInitially, OInductive, PTL DEF Spec

(* A receipt waits for a cut without loss and for all that the connection  *)
(* delivered before it, and is written of a turn that is still seen as     *)
(* completed then.                                                         *)
THEOREM SealedOnCleanCut == Spec => SealsOnCleanCut
<1>1. OInv /\ [Next]_vars =>
        [\A k \in Keepers :
           /\ draft.status # "TERMINAL"
           /\ draft'.status = "TERMINAL"
           /\ pc[k] = "sealing" /\ pc'[k] # "sealing"
           => /\ draft.status = "PROVIDER_COMPLETED"
              /\ link[k].clean /\ ~link[k].open
              /\ link[k].requests = <<>> /\ link[k].notes = <<>>]_vars
  <2> SUFFICES ASSUME OInv, Next, NEW k \in Keepers, draft.status # "TERMINAL",
                      draft'.status = "TERMINAL", pc[k] = "sealing", pc'[k] # "sealing"
               PROVE  /\ draft.status = "PROVIDER_COMPLETED"
                      /\ link[k].clean /\ ~link[k].open /\ Drained(link[k])
    BY DEF Drained
  <2>1. k \in Procs /\ lock = k /\ IInv /\ View(k) = draft
    BY DEF OInv, Procs, View, Occurrence, OccurrenceInv
  <2>2. (draft.status \in Settled \/ (link[k].clean /\ Drained(link[k])))
        /\ (link[k].clean => ~link[k].open)
    BY DEF OInv, Occurrence, OccurrenceInv
  <2>3. draft.status = "PROVIDER_COMPLETED"
    <3>1. ASSUME NEW p \in Procs, Own3(p) PROVE p = k
      BY <2>1, <3>1 DEF Own3, OwnPlace
    <3>2. Seal(k) \/ Crash(k) \/ Interrupt(k)
      <4>1. ~\E s \in Starters : Enter(s) \/ StartStep(s) \/ Work(s)
        BY <2>1, <3>1, StartOwn, ProcessesAssumption DEF OInv, IInv, Procs
      <4>2. ASSUME NEW j \in Keepers, Preflight(j) \/ KeeperStep(j)
            PROVE  Seal(k)
        <5>1. j = k
          BY <3>1, <4>2, KeeperOwn DEF OInv, IInv, Procs
        <5> QED BY <4>2, <5>1 DEF Preflight, KeeperStep, Begin, GiveUp, Resume, Status,
                                  ReadThread, Judge
      <4>3. ASSUME NEW p \in Procs,
                   CommonStep(p) \/ Deadline(p) \/ Crash(p) \/ Interrupt(p) \/ Deliver(p)
            PROVE  Crash(k) \/ Interrupt(k)
        <5>1. p = k
          BY <3>1, <4>3, CommonOwn DEF OInv, IInv
        <5> QED BY <4>3, <5>1 DEF CommonStep, SetupFails, Connect, ConnectFails,
                   DrainDiagnostics, DrainQueues, TakeRequest, RequestsTaken, TakeNote,
                   NotesTaken, Cut, Weigh, Look, Finish, Deadline, Deliver
      <4> QED BY <4>1, <4>2, <4>3 DEF Next
    <3>3. CASE Crash(k) \/ Interrupt(k)
      BY <2>1, <3>3 DEF Crash, Interrupt, End, NoRow
    <3>4. CASE Seal(k)
      <4>1. CASE UNCHANGED store
        BY <4>1 DEF store
      <4>2. CASE MarkIndeterminate(k, "observing")
        <5>1. draft' = draft \/ draft' = [draft EXCEPT !.status = "INDETERMINATE"]
          BY <2>1, <4>2 DEF MarkIndeterminate, Update, Retain, store
        <5> QED BY <2>1, <5>1 DEF IInv, Shape, Fields
      <4>3. CASE draft.status = "PROVIDER_COMPLETED"
        BY <4>3
      <4> QED BY <2>1, <3>4, <4>1, <4>2, <4>3 DEF Seal
    <3> QED BY <3>2, <3>3, <3>4
  <2> QED BY <2>2, <2>3 DEF Settled
<1> QED BY <1>1, OInitially, OInductive, PTL DEF Spec, SealsOnCleanCut

----------------------------------------------------------------------------
(* What is retained or on its way agrees with what the worker said.        *)

Told(t, text) == t \in Starters /\ turn[t] = "completed" /\ answer[t] = text

Truthful(r) ==
    /\ r.turn # Alien
    /\ r.status = "PROVIDER_COMPLETED" => r.final = "none" \/ Told(r.turn, r.final)
    /\ r.receipt # "none" => r.status = "TERMINAL"
    /\ r.status = "TERMINAL" => IsOutcome(r.receipt) /\ Told(r.turn, r.receipt)

TrueNotice(m) ==
    m.kind = "completed" => m.turn = Alien \/ m.text = "none" \/ Told(m.turn, m.text)

AnswerInv == /\ answer \in [Starters -> Texts]
             /\ \A t \in Starters : turn[t] = "completed" => answer[t] \in Answers

Truths == {m \in Notice : TrueNotice(m)}

NotesInv == \A p \in Procs : link[p].notes \in Seq(Truths)

TruthInv == Truthful(row) /\ Truthful(draft) /\ AnswerInv /\ NotesInv

CInv == OInv /\ TruthInv

----------------------------------------------------------------------------
(* What a completed turn has said stays.                                   *)
LEMMA ToldStays ==
    ASSUME OInv, AnswerInv, [Next]_vars
    PROVE  /\ \A t \in Starters : turn[t] = "completed" =>
                 turn'[t] = "completed" /\ answer'[t] = answer[t]
           /\ AnswerInv'
<1>1. DOMAIN turn = Starters
  BY DEF OInv, IInv, Shape
<1>2. CASE turn' = turn /\ answer' = answer
  BY <1>2 DEF AnswerInv
<1>3. ASSUME NEW s \in Starters, StartThread(s) \/ StartTurn(s)
      PROVE  /\ \A t \in Starters : turn[t] = "completed" =>
                   turn'[t] = "completed" /\ answer'[t] = answer[t]
             /\ AnswerInv'
  <2>1. turn[s] # "completed" /\ answer' = answer
    BY <1>3 DEF StartThread, StartTurn, OInv, IInv, StartInv
  <2>2. turn' = turn \/ \E t \in {"thread", "running"} : turn' = [turn EXCEPT ![s] = t]
    BY <1>3 DEF StartThread, StartTurn
  <2> QED BY <1>1, <2>1, <2>2 DEF AnswerInv
<1>4. ASSUME NEW s \in Starters, Work(s)
      PROVE  /\ \A t \in Starters : turn[t] = "completed" =>
                   turn'[t] = "completed" /\ answer'[t] = answer[t]
             /\ AnswerInv'
  <2>1. turn[s] = "running"
    BY <1>4 DEF Work
  <2>2. CASE turn' = turn /\ answer' = [answer EXCEPT ![s] = "partial"]
    BY <1>1, <2>1, <2>2 DEF AnswerInv, Texts
  <2>3. CASE /\ turn' = [turn EXCEPT ![s] = "completed"]
             /\ \E text \in Answers : answer' = [answer EXCEPT ![s] = text]
    BY <1>1, <2>1, <2>3 DEF AnswerInv, Texts
  <2> QED BY <1>4, <2>2, <2>3 DEF Work
<1>5. CASE UNCHANGED vars
  BY <1>2, <1>5 DEF vars
<1>6. ASSUME NEW k \in Keepers, Preflight(k) \/ KeeperStep(k)
      PROVE  turn' = turn /\ answer' = answer
  BY <1>6 DEF Preflight, KeeperStep, Begin, GiveUp, Resume, Status, ReadThread, Judge, Seal,
              provider
<1>7. ASSUME NEW p \in Procs, CommonStep(p) \/ Deadline(p) \/ Crash(p) \/ Interrupt(p) \/ Deliver(p)
      PROVE  turn' = turn /\ answer' = answer
  BY <1>7 DEF CommonStep, SetupFails, Connect, ConnectFails, DrainDiagnostics, DrainQueues,
              TakeRequest, RequestsTaken, TakeNote, NotesTaken, Cut, Weigh, Look, Finish,
              Deadline, Crash, Interrupt, End, Deliver, provider
<1>8. ASSUME NEW s \in Starters, Enter(s) \/ StartStep(s), ~StartThread(s), ~StartTurn(s)
      PROVE  turn' = turn /\ answer' = answer
  BY <1>8 DEF Enter, StartStep, Admit, KeepThread, KeepTurn, RecordStart, LoseStart, Busy,
              provider
<1> QED BY <1>2, <1>3, <1>4, <1>5, <1>6, <1>7, <1>8 DEF Next, StartStep

----------------------------------------------------------------------------
(* What is written to a row is truthful.                                   *)

Written == Truthful(row') /\ Truthful(draft')

LEMMA RetainTruth ==
    ASSUME Truthful(row), Truthful(draft), NEW p, NEW r, Retain(p, r), Truthful(r)
    PROVE  Written
BY DEF Retain, Written

LEMMA ViewTruth == ASSUME Truthful(row), Truthful(draft), NEW p PROVE Truthful(View(p))
BY DEF View

(* An update that completes nothing.                                       *)
LEMMA UpdateTruth ==
    ASSUME Truthful(row), Truthful(draft), NEW p, NEW r, Update(p, r), r.turn # Alien,
           r.receipt = View(p).receipt, r.status \notin {"TERMINAL", "PROVIDER_COMPLETED"}
    PROVE  Written
<1>1. View(p).status # "TERMINAL"
  BY DEF Update, MayBecome, Settled
<1>2. Truthful(r)
  BY <1>1, ViewTruth DEF Truthful
<1> QED BY <1>2, RetainTruth DEF Update

LEMMA MarkTruth ==
    ASSUME Shape, Truthful(row), Truthful(draft), NEW p, NEW next, MarkIndeterminate(p, next)
    PROVE  Written
<1>1. CASE Update(p, [View(p) EXCEPT !.status = "INDETERMINATE"])
  <2> DEFINE r == [View(p) EXCEPT !.status = "INDETERMINATE"]
  <2>1. r.status = "INDETERMINATE" /\ r.receipt = View(p).receipt /\ r.turn = View(p).turn
    BY ViewShape DEF Fields
  <2>2. Update(p, r) /\ View(p).turn # Alien
    BY <1>1, ViewTruth DEF Truthful
  <2> HIDE DEF r
  <2> QED BY <2>1, <2>2, UpdateTruth
<1>2. CASE UNCHANGED store
  BY <1>2 DEF store, Written
<1> QED BY <1>1, <1>2 DEF MarkIndeterminate

LEMMA DrainTruth ==
    ASSUME Shape, Truthful(row), Truthful(draft), NEW p, DrainRaises(p)
    PROVE  Written
BY MarkTruth DEF DrainRaises, store, Written

(* What the worker is seen to have said becomes the row's.                 *)
LEMMA ObservedTruth ==
    ASSUME Shape, Truthful(row), Truthful(draft), NEW p, NEW completed, NEW text,
           Update(p, Observed(View(p), completed, text)),
           completed => text = "none" \/ Told(View(p).turn, text)
    PROVE  Written
<1> DEFINE r == Observed(View(p), completed, text)
<1>1. /\ r.receipt = View(p).receipt /\ r.turn = View(p).turn
      /\ r.final = text
      /\ r.status \in {"INDETERMINATE", "PROVIDER_COMPLETED", "RUNNING"}
      /\ r.status = "PROVIDER_COMPLETED" => completed
  BY ViewShape DEF Observed, Fields
<1>2. Update(p, r)
  OBVIOUS
<1> HIDE DEF r
<1>3. View(p).status # "TERMINAL" /\ Truthful(View(p))
  BY <1>1, <1>2, ViewTruth DEF Update, MayBecome, Settled
<1>4. Truthful(r)
  BY <1>1, <1>3 DEF Truthful
<1> QED BY <1>2, <1>4, RetainTruth DEF Update

LEMMA KeeperTruth ==
    ASSUME OInv, TruthInv, NEW k \in Keepers, Preflight(k) \/ KeeperStep(k)
    PROVE  Written
<1>1. Shape /\ Truthful(row) /\ Truthful(draft)
  BY DEF OInv, IInv, TruthInv
<1>2. CASE UNCHANGED store
  BY <1>1, <1>2 DEF store, Written
<1>3. CASE \E next : MarkIndeterminate(k, next)
  BY <1>1, <1>3, MarkTruth
<1>4. CASE Begin(k)
  BY <1>1, <1>4 DEF Begin, Written
<1>5. CASE ReadThread(k)
  <2>1. CASE \E turns \in SUBSET History(View(k).thread) : \E t \in Own(turns, View(k)) :
               Update(k, Observed(View(k), t.completed, t.text))
    <3>1. PICK turns \in SUBSET History(View(k).thread) : \E t \in Own(turns, View(k)) :
               Update(k, Observed(View(k), t.completed, t.text))
      BY <2>1
    <3>1a. PICK t \in Own(turns, View(k)) :
               Update(k, Observed(View(k), t.completed, t.text))
      BY <3>1
    <3>2. t.id = View(k).turn /\ t \in History(View(k).thread) /\ t.id # Alien
      BY <1>1, ViewTruth DEF Own, Truthful
    <3>3. t.completed => t.text = "none" \/ Told(t.id, t.text)
      <4>1. PICK u \in Begun : \E x \in {answer[u], "none"} :
               t = [id |-> u, completed |-> turn[u] = "completed", text |-> x]
        BY <3>2 DEF History
      <4>2. t.id = u /\ t.text \in {answer[u], "none"} /\ u \in Starters
        BY <4>1 DEF Begun
      <4>3. t.completed = (turn[u] = "completed")
        BY <4>1
      <4> QED BY <4>2, <4>3 DEF Told
    <3> QED BY <1>1, <3>1a, <3>2, <3>3, ObservedTruth
  <2> QED BY <1>2, <1>3, <1>5, <2>1 DEF ReadThread, IngestThread
<1>6. CASE Seal(k)
  <2>1. CASE /\ View(k).status = "PROVIDER_COMPLETED"
             /\ IsOutcome(View(k).final)
             /\ Update(k, [View(k) EXCEPT !.status = "TERMINAL", !.receipt = View(k).final])
    <3> DEFINE r == [View(k) EXCEPT !.status = "TERMINAL", !.receipt = View(k).final]
    <3>1. r.status = "TERMINAL" /\ r.receipt = View(k).final /\ r.turn = View(k).turn
      BY <1>1, ViewShape DEF Fields
    <3>2. Update(k, r)
      BY <2>1
    <3> HIDE DEF r
    <3>3. View(k).final # "none"
      BY <2>1 DEF IsOutcome
    <3>4. Truthful(r)
      BY <1>1, <2>1, <3>1, <3>3, ViewTruth DEF Truthful
    <3> QED BY <1>1, <3>2, <3>4, RetainTruth DEF Update
  <2> QED BY <1>2, <1>3, <1>6, <2>1 DEF Seal, store
<1> QED BY <1>2, <1>3, <1>4, <1>5, <1>6
        DEF KeeperStep, Preflight, GiveUp, Resume, Status, Judge, store

LEMMA TakeNoteTruth ==
    ASSUME OInv, TruthInv, NEW p \in Procs, TakeNote(p) PROVE Written
<1>1. Shape /\ Truthful(row) /\ Truthful(draft)
  BY DEF OInv, IInv, TruthInv
<1> DEFINE m == Head(link[p].notes)
<1>2. m \in Notice /\ TrueNotice(m)
  <2>1. m \in Truths
    BY DEF TakeNote, TruthInv, NotesInv
  <2> QED BY <2>1 DEF Truths
<1>3. \/ MarkIndeterminate(p, job[p].back)
      \/ UNCHANGED store
      \/ m.kind # "huge" /\ Concerns(m, View(p)) /\ Update(p, Noted(View(p), m))
  BY DEF TakeNote
<1> HIDE DEF m
<1>4. CASE m.kind # "huge" /\ Concerns(m, View(p)) /\ Update(p, Noted(View(p), m))
  <2>1. CASE m.kind = "echo"
    <3> DEFINE r == [View(p) EXCEPT !.status = "RUNNING"]
    <3>1. r.status = "RUNNING" /\ r.receipt = View(p).receipt /\ r.turn = View(p).turn
      BY <1>1, ViewShape DEF Fields
    <3>2. Update(p, r) /\ View(p).turn # Alien
      BY <1>1, <1>4, <2>1, ViewTruth DEF Noted, Truthful
    <3> HIDE DEF r
    <3> QED BY <1>1, <3>1, <3>2, UpdateTruth
  <2>2. CASE m.kind # "echo"
    <3>1. m.kind = "completed"
      BY <1>2, <1>4, <2>2 DEF Notice
    <3>2. m.turn = View(p).turn /\ m.turn # Alien
      BY <1>1, <1>4, ViewTruth DEF Concerns, Truthful
    <3>3. m.text = "none" \/ Told(View(p).turn, m.text)
      BY <1>2, <3>1, <3>2 DEF TrueNotice
    <3> QED BY <1>1, <1>4, <2>2, <3>3, ObservedTruth DEF Noted
  <2> QED BY <2>1, <2>2
<1> QED BY <1>1, <1>3, <1>4, MarkTruth DEF store, Written

LEMMA CommonTruth ==
    ASSUME OInv, TruthInv, NEW p \in Procs,
           CommonStep(p) \/ Deadline(p) \/ Crash(p) \/ Interrupt(p) \/ Deliver(p)
    PROVE  Written
<1>1. Shape /\ Truthful(row) /\ Truthful(draft)
  BY DEF OInv, IInv, TruthInv
<1>2. CASE UNCHANGED store
  BY <1>1, <1>2 DEF store, Written
<1>3. CASE (\E next : MarkIndeterminate(p, next)) \/ DrainRaises(p)
  BY <1>1, <1>3, MarkTruth, DrainTruth
<1>4. CASE DrainDiagnostics(p)
  <2>1. CASE Update(p, [View(p) EXCEPT !.status = "INDETERMINATE"]) /\ Goto(p, job[p].back)
             /\ UNCHANGED job
    BY <1>3, <2>1 DEF MarkIndeterminate
  <2> QED BY <1>3, <1>4, <2>1 DEF DrainDiagnostics
<1>5. CASE TakeRequest(p)
  <2>1. CASE Update(p, [View(p) EXCEPT !.status = "WAITING_APPROVAL"])
    <3> DEFINE r == [View(p) EXCEPT !.status = "WAITING_APPROVAL"]
    <3>1. /\ r.status = "WAITING_APPROVAL" /\ r.receipt = View(p).receipt
          /\ r.turn = View(p).turn
      BY <1>1, ViewShape DEF Fields
    <3>2. Update(p, r) /\ View(p).turn # Alien
      BY <1>1, <2>1, ViewTruth DEF Truthful
    <3> HIDE DEF r
    <3> QED BY <1>1, <3>1, <3>2, UpdateTruth
  <2> QED BY <1>3, <1>5, <2>1 DEF TakeRequest
<1>6. CASE Finish(p) \/ Interrupt(p) \/ Crash(p)
  <2>1. Truthful(NoRow)
    BY ProcessesAssumption DEF Truthful, NoRow
  <2> QED BY <1>1, <1>6, <2>1 DEF Finish, Interrupt, End, Crash, Written, store
<1>7. CASE Weigh(p)
  BY <1>2, <1>3, <1>7 DEF Weigh, store
<1> QED BY <1>2, <1>4, <1>5, <1>6, <1>7, TakeNoteTruth
        DEF CommonStep, SetupFails, Connect, ConnectFails, DrainQueues, RequestsTaken,
            NotesTaken, Cut, Look, Deadline, Deliver, store

LEMMA StartTruth ==
    ASSUME OInv, TruthInv, NEW s \in Starters, Enter(s) \/ StartStep(s) \/ Work(s)
    PROVE  Written
<1>1. Shape /\ Truthful(row) /\ Truthful(draft) /\ s # Alien /\ row.turn # Alien
  BY ProcessesAssumption DEF OInv, IInv, TruthInv, Procs, Truthful
<1>2. CASE UNCHANGED store
  BY <1>1, <1>2 DEF store, Written
<1>3. CASE Admit(s)
  <2>1. Truthful(FreshRow)
    BY ProcessesAssumption DEF Truthful, FreshRow, NoRow
  <2> QED BY <1>1, <1>2, <1>3, <2>1, RetainTruth DEF Admit
<1>4. lock # s /\ View(s) = row
  BY <1>1, ProcessesAssumption DEF Shape, Procs, View
<1>5. CASE KeepThread(s)
  <2>1. CASE Update(s, [row EXCEPT !.thread = s, !.status = "STARTING"])
    <3> DEFINE r == [row EXCEPT !.thread = s, !.status = "STARTING"]
    <3>1. r.status = "STARTING" /\ r.receipt = row.receipt /\ r.turn = row.turn
      BY <1>1 DEF Shape, Fields
    <3>2. Update(s, r)
      BY <2>1
    <3> HIDE DEF r
    <3> QED BY <1>1, <1>4, <3>1, <3>2, UpdateTruth
  <2> QED BY <1>2, <1>5, <2>1 DEF KeepThread
<1>6. CASE KeepTurn(s)
  <2>1. CASE Update(s, [row EXCEPT !.turn = s, !.status = "RUNNING"])
    <3> DEFINE r == [row EXCEPT !.turn = s, !.status = "RUNNING"]
    <3>1. r.status = "RUNNING" /\ r.receipt = row.receipt /\ r.turn = s
      BY <1>1 DEF Shape, Fields
    <3>2. Update(s, r)
      BY <2>1
    <3> HIDE DEF r
    <3> QED BY <1>1, <1>4, <3>1, <3>2, UpdateTruth
  <2> QED BY <1>2, <1>6, <2>1 DEF KeepTurn
<1>7. CASE LoseStart(s)
  BY <1>1, <1>7, MarkTruth DEF LoseStart
<1> QED BY <1>2, <1>3, <1>5, <1>6, <1>7
        DEF Enter, StartStep, StartThread, StartTurn, RecordStart, Busy, Work, store

----------------------------------------------------------------------------
(* What is enqueued is true.                                               *)

NotesMove(p) ==
    \/ link'[p].notes \in {link[p].notes, <<>>}
    \/ link[p].notes # <<>> /\ link'[p].notes = Tail(link[p].notes)
    \/ \E m \in Notices : link'[p].notes = Append(link[p].notes, m)

LEMMA NoticesTrue ==
    ASSUME AnswerInv, NEW m \in Notices PROVE m \in Notice /\ TrueNotice(m)
<1>1. CASE m \in {[kind |-> "completed", turn |-> Alien, text |-> "alien"],
                 [kind |-> "huge", turn |-> Alien, text |-> "none"]}
  BY <1>1 DEF Notice, Texts, Answers, TrueNotice
<1>2. CASE \E s \in Begun : m = [kind |-> "echo", turn |-> s, text |-> "none"]
  BY <1>2 DEF Notice, Texts, Answers, TrueNotice, Begun
<1>3. CASE \E s \in Begun : \E t \in {answer[s], "none"} :
             turn[s] = "completed" /\ m = [kind |-> "completed", turn |-> s, text |-> t]
  BY <1>3 DEF Notice, Texts, Answers, TrueNotice, Begun, AnswerInv, Told
<1> QED BY <1>1, <1>2, <1>3 DEF Notices

LEMMA NotesKept ==
    ASSUME AnswerInv, NotesInv, NEW p \in Procs, NotesMove(p),
           \A t \in Starters : turn[t] = "completed" =>
              turn'[t] = "completed" /\ answer'[t] = answer[t]
    PROVE  link'[p].notes \in Seq(Truths')
<1>1. Truths \subseteq Truths'
  BY DEF Truths, TrueNotice, Told
<1>2. link[p].notes \in Seq(Truths')
  BY <1>1 DEF NotesInv
<1>3. \A m \in Notices : m \in Truths'
  BY <1>1, NoticesTrue DEF Truths
<1> HIDE DEF Truths
<1>4. CASE link'[p].notes \in {link[p].notes, <<>>}
  BY <1>2, <1>4, EmptySeq
<1>5. CASE link[p].notes # <<>> /\ link'[p].notes = Tail(link[p].notes)
  BY <1>2, <1>5
<1>6. CASE \E m \in Notices : link'[p].notes = Append(link[p].notes, m)
  BY <1>2, <1>3, <1>6
<1> QED BY <1>4, <1>5, <1>6 DEF NotesMove

LEMMA QuiesceMoves ==
    ASSUME LinkShape, NEW p \in Procs, Quiesce(p) PROVE NotesMove(p)
<1>1. DOMAIN link = Procs /\ DOMAIN link[p] = DOMAIN NoLink
  BY DEF LinkShape
<1>2. CASE SetLink(p, [link[p] EXCEPT !.open = FALSE, !.clean = ~link[p].loss])
  <2>1. link'[p].notes = link[p].notes
    BY <1>1, <1>2 DEF SetLink, NoLink
  <2> QED BY <2>1 DEF NotesMove
<1>3. ASSUME NEW open \in BOOLEAN,
             SetLink(p, [link[p] EXCEPT !.open = open, !.clean = FALSE,
                                        !.loss = TRUE, !.diagnostics = TRUE])
      PROVE  NotesMove(p)
  <2>1. link'[p].notes = link[p].notes
    BY <1>1, <1>3 DEF SetLink, NoLink
  <2> QED BY <2>1 DEF NotesMove
<1> QED BY <1>2, <1>3 DEF Quiesce

LEMMA StepMoves ==
    ASSUME LinkShape, NEW p \in Procs,
           CommonStep(p) \/ Deadline(p) \/ Crash(p) \/ Interrupt(p) \/ Deliver(p) \/ Exit(p) \/ link' = link
    PROVE  NotesMove(p)
<1>1. DOMAIN link = Procs /\ DOMAIN link[p] = DOMAIN NoLink
  BY DEF LinkShape
<1>2. CASE link' = link
  BY <1>2 DEF NotesMove
<1>3. CASE Exit(p) \/ Finish(p) \/ Interrupt(p) \/ Crash(p) \/ Connect(p)
  <2>1. link'[p].notes = <<>>
    BY <1>1, <1>3 DEF Exit, Finish, Interrupt, End, Crash, Connect, SetLink, NoLink
  <2> QED BY <2>1 DEF NotesMove
<1>4. CASE ConnectFails(p)
  <2>1. CASE SetLink(p, [NoLink EXCEPT !.loss = TRUE, !.diagnostics = TRUE])
    <3>1. link'[p].notes = <<>>
      BY <1>1, <2>1 DEF SetLink, NoLink
    <3> QED BY <3>1 DEF NotesMove
  <2>2. CASE Quiesce(p)
    BY <2>2, QuiesceMoves
  <2> QED BY <1>4, <2>1, <2>2 DEF ConnectFails
<1>5. CASE DrainDiagnostics(p) \/ TakeRequest(p)
  <2>1. link'[p].notes \in {link[p].notes, <<>>}
    <3>1. CASE DrainDiagnostics(p)
      BY <1>1, <3>1 DEF DrainDiagnostics, SetLink, NoLink
    <3>2. CASE TakeRequest(p)
      BY <1>1, <3>2 DEF TakeRequest, SetLink, NoLink
    <3> QED BY <1>5, <3>1, <3>2
  <2> QED BY <2>1 DEF NotesMove
<1>6. CASE TakeNote(p)
  <2>1. link[p].notes # <<>> /\ link'[p].notes = Tail(link[p].notes)
    BY <1>1, <1>6 DEF TakeNote, SetLink, NoLink
  <2> QED BY <2>1 DEF NotesMove
<1>7. CASE Deliver(p)
  <2>1. CASE \E m \in Notices : SetLink(p, [link[p] EXCEPT !.notes = Append(@, m)])
    <3>1. \E m \in Notices : link'[p].notes = Append(link[p].notes, m)
      BY <1>1, <2>1 DEF SetLink, NoLink
    <3> QED BY <3>1 DEF NotesMove
  <2>2. CASE \E ask \in Asks : SetLink(p, [link[p] EXCEPT !.requests = Append(@, ask)])
    <3>1. link'[p].notes = link[p].notes
      BY <1>1, <2>2 DEF SetLink, NoLink
    <3> QED BY <3>1 DEF NotesMove
  <2>3. CASE SetLink(p, [link[p] EXCEPT !.loss = TRUE, !.diagnostics = TRUE])
    <3>1. link'[p].notes = link[p].notes
      BY <1>1, <2>3 DEF SetLink, NoLink
    <3> QED BY <3>1 DEF NotesMove
  <2> QED BY <1>7, <2>1, <2>2, <2>3 DEF Deliver
<1>8. CASE Cut(p)
  BY <1>8, QuiesceMoves DEF Cut
<1> QED BY <1>2, <1>3, <1>4, <1>5, <1>6, <1>7, <1>8
        DEF CommonStep, SetupFails, DrainQueues, RequestsTaken, NotesTaken, Weigh, Look,
            Deadline

LEMMA NotesStay == OInv /\ TruthInv /\ [Next]_vars => NotesInv'
<1> SUFFICES ASSUME OInv, TruthInv, [Next]_vars, NEW q \in Procs
             PROVE  link'[q].notes \in Seq(Truths')
  BY DEF NotesInv
<1>1. Shape /\ LinkShape
  BY DEF OInv, IInv
<1>2. NotesMove(q)
  <2>1. CASE UNCHANGED vars
    BY <2>1 DEF vars, NotesMove
  <2>2. ASSUME NEW s \in Starters, Enter(s) \/ StartStep(s) \/ Work(s)
        PROVE  NotesMove(q)
    <3>1. Own3(s) /\ s \in Procs
      BY <1>1, <2>2, StartOwn DEF Procs
    <3>2. link' = link \/ Exit(s)
      BY <2>2 DEF Enter, StartStep, Work, Admit, StartThread, KeepThread, StartTurn, KeepTurn,
                  RecordStart, LoseStart, Busy
    <3> QED BY <1>1, <3>1, <3>2, StepMoves DEF Own3, OwnLink, NotesMove
  <2>3. ASSUME NEW k \in Keepers, Preflight(k) \/ KeeperStep(k) PROVE NotesMove(q)
    <3>1. Own3(k) /\ k \in Procs
      BY <1>1, <2>3, KeeperOwn DEF Procs
    <3>2. link' = link \/ Exit(k)
      BY <2>3 DEF Preflight, KeeperStep, Begin, GiveUp, Resume, Status, ReadThread, Judge, Seal
    <3> QED BY <1>1, <3>1, <3>2, StepMoves DEF Own3, OwnLink, NotesMove
  <2>4. ASSUME NEW p \in Procs, CommonStep(p) \/ Deadline(p) \/ Crash(p) \/ Interrupt(p) \/ Deliver(p)
        PROVE  NotesMove(q)
    BY <1>1, <2>4, StepMoves, CommonOwn DEF Own3, OwnLink, NotesMove
  <2> QED BY <2>1, <2>2, <2>3, <2>4 DEF Next
<1> QED BY <1>2, NotesKept, ToldStays DEF TruthInv

----------------------------------------------------------------------------

LEMMA CInductive == CInv /\ [Next]_vars => CInv' /\ Written
<1> SUFFICES ASSUME CInv, [Next]_vars PROVE CInv' /\ Written
  OBVIOUS
<1>1. OInv' /\ OInv /\ TruthInv
  BY OInductive DEF CInv
<1>2. /\ \A t \in Starters : turn[t] = "completed" =>
            turn'[t] = "completed" /\ answer'[t] = answer[t]
      /\ AnswerInv'
  BY <1>1, ToldStays DEF TruthInv
<1>3. Written
  BY <1>1, KeeperTruth, CommonTruth, StartTruth
     DEF Next, vars, Written, TruthInv
<1>4. Truthful(row)' /\ Truthful(draft)'
  BY <1>2, <1>3 DEF Written, Truthful, Told
<1> QED BY <1>1, <1>2, <1>3, <1>4, NotesStay DEF CInv, TruthInv

LEMMA CInitially == Init => CInv
<1> SUFFICES ASSUME Init PROVE CInv
  OBVIOUS
<1>1. AnswerInv
  BY DEF Init, AnswerInv, Texts, Answers
<1>2. NotesInv
  BY EmptySeq DEF Init, NotesInv, NoLink
<1>3. Truthful(NoRow)
  BY ProcessesAssumption DEF Truthful, NoRow
<1> QED BY <1>1, <1>2, <1>3, OInitially DEF CInv, TruthInv, Init

(* Whatever is sent twice, late or about another turn, a receipt is the    *)
(* final message of the attempt's own turn.                                *)
THEOREM ReceiptIsOwn == Spec => []ReceiptIsTheAnswer
<1>1. CInv => ReceiptIsTheAnswer
  BY DEF CInv, TruthInv, Truthful, Told, ReceiptIsTheAnswer
<1> QED BY <1>1, CInitially, CInductive, PTL DEF Spec

----------------------------------------------------------------------------
(* The refinement: what AttemptCustody sees of a state.                    *)

Phase == CASE row.status = "NONE" -> "absent"
           [] row.status = "INDETERMINATE" -> "lost"
           [] row.status = "TERMINAL" -> "sealed"
           [] OTHER -> "open"

Given == IF \E s \in Starters : turn[s] = "completed"
           THEN <<answer[CHOOSE s \in Starters : turn[s] = "completed"]>>
           ELSE <<>>

(* At most one turn is ever completed.                                     *)
LEMMA GivenIs ==
    ASSUME CInv
    PROVE  /\ \A s \in Starters : turn[s] = "completed" => Given = <<answer[s]>>
           /\ (\A s \in Starters : turn[s] # "completed") => Given = <<>>
<1>1. \A s, t \in Starters : turn[s] = "completed" /\ turn[t] = "completed" => s = t
  BY DEF CInv, OInv, IInv, StartInv
<1>2. ASSUME NEW s \in Starters, turn[s] = "completed" PROVE Given = <<answer[s]>>
  <2>1. (CHOOSE t \in Starters : turn[t] = "completed") = s
    BY <1>1, <1>2
  <2> QED BY <1>2, <2>1 DEF Given
<1>3. (\A s \in Starters : turn[s] # "completed") => Given = <<>>
  BY DEF Given
<1> QED BY <1>2, <1>3

(* The worker's answer is the only step that changes what is given, and it *)
(* leaves the row alone.                                                   *)
LEMMA GivenStep ==
    ASSUME CInv, CInv', [Next]_vars
    PROVE  \/ Given' = Given
           \/ /\ row' = row /\ row.status # "NONE" /\ Given = <<>>
              /\ \E a \in Answers : Given' = <<a>>
<1>1. CASE \A s \in Starters : turn'[s] # "completed"
  <2>1. \A s \in Starters : turn[s] # "completed"
    BY <1>1, ToldStays DEF CInv, TruthInv
  <2>2. Given' = <<>> /\ Given = <<>>
    BY <1>1, <2>1, GivenIs DEF Given
  <2> QED BY <2>2
<1>2. CASE \E s \in Starters : turn[s] = "completed"
  <2>1. PICK s \in Starters : turn[s] = "completed"
    BY <1>2
  <2>2. turn'[s] = "completed" /\ answer'[s] = answer[s]
    BY <2>1, ToldStays DEF CInv, TruthInv
  <2>3. \A t \in Starters : turn'[t] = "completed" => t = s
    BY <2>2 DEF CInv, OInv, IInv, StartInv
  <2>4. (CHOOSE t \in Starters : turn'[t] = "completed") = s
    BY <2>2, <2>3
  <2>5. Given' = <<answer[s]>>
    BY <2>2, <2>4 DEF Given
  <2> QED BY <2>1, <2>5, GivenIs
<1>3. CASE /\ \A s \in Starters : turn[s] # "completed"
           /\ \E s \in Starters : turn'[s] = "completed"
  <2>1. PICK s \in Starters : turn'[s] = "completed"
    BY <1>3
  <2>2. \A t \in Starters : turn'[t] = "completed" => t = s
    BY <2>1 DEF CInv, OInv, IInv, StartInv
  <2>3. (CHOOSE t \in Starters : turn'[t] = "completed") = s
    BY <2>1, <2>2
  <2>4. Given' = <<answer'[s]>> /\ Given = <<>>
    BY <1>3, <2>1, <2>3, GivenIs DEF Given
  <2>5. answer'[s] \in Answers
    BY <2>1 DEF CInv, TruthInv, AnswerInv
  <2>6. \E t \in Starters : Work(t)
    <3>1. turn' # turn
      BY <1>3, <2>1
    <3>2. CASE \E t \in Starters : StartThread(t) \/ StartTurn(t)
      <4>1. \A t \in Starters : turn'[t] = turn[t] \/ turn'[t] \in {"thread", "running"}
        BY <3>2 DEF StartThread, StartTurn, CInv, OInv, IInv, Shape
      <4> QED BY <1>3, <2>1, <4>1
    <3>3. CASE \E t \in Starters : Enter(t) \/ StartStep(t)
      BY <3>1, <3>2, <3>3 DEF Enter, StartStep, Admit, KeepThread, KeepTurn, RecordStart,
                              LoseStart, Busy, provider
    <3>4. ASSUME NEW k \in Keepers, Preflight(k) \/ KeeperStep(k) PROVE FALSE
      BY <3>1, <3>4 DEF Preflight, KeeperStep, Begin, GiveUp, Resume, Status, ReadThread,
                        Judge, Seal, provider
    <3>5. ASSUME NEW p \in Procs, CommonStep(p) \/ Deadline(p) \/ Crash(p) \/ Interrupt(p) \/ Deliver(p)
          PROVE  FALSE
      BY <3>1, <3>5 DEF CommonStep, SetupFails, Connect, ConnectFails, DrainDiagnostics,
                        DrainQueues, TakeRequest, RequestsTaken, TakeNote, NotesTaken, Cut,
                        Weigh, Look, Finish, Deadline, Crash, Interrupt, End, Deliver, provider
    <3> QED BY <3>1, <3>3, <3>4, <3>5 DEF Next, vars
  <2>7. row' = row /\ row.status # "NONE"
    BY <2>6 DEF Work, store, CInv, OInv, IInv, StartInv
  <2> QED BY <2>4, <2>5, <2>7
<1> QED BY <1>1, <1>2, <1>3

(* Before an attempt is admitted nobody holds the lock and no start command *)
(* has come far.                                                           *)
Outside == {"idle", "connecting", "acting", "finishing"}

AbsentInv == row.status = "NONE" => /\ lock = NoId
                                    /\ \A s \in Starters : pc[s] \in Outside

(* Then it is admitted before anything else happens to it.                 *)
LEMMA FirstStep ==
    ASSUME OInv, AbsentInv, row.status = "NONE", [Next]_vars
    PROVE  \/ row'.status = "ADMITTED"
           \/ row' = row /\ lock' = NoId /\ \A s \in Starters : pc'[s] \in Outside
<1>1. Shape /\ LinkShape /\ lock = NoId /\ \A s \in Starters : pc[s] \in Outside
  BY DEF OInv, IInv, AbsentInv
<1>2. CASE UNCHANGED vars
  BY <1>1, <1>2 DEF vars
<1>3. \A p \in Procs : lock # p
  BY <1>1, ProcessesAssumption DEF Procs
<1>4. \A k \in Keepers : pc[k] = "idle"
  BY <1>3 DEF OInv, Occurrence, OccurrenceInv, IInv, StartInv, Procs
<1>5. ASSUME NEW p \in Procs, Own3(p), row' = row, lock' = lock,
             p \in Starters => pc'[p] \in Outside
      PROVE  row' = row /\ lock' = NoId /\ \A s \in Starters : pc'[s] \in Outside
  BY <1>1, <1>5 DEF Own3, OwnPlace, Procs
<1>6. ASSUME NEW s \in Starters, Enter(s) \/ StartStep(s) \/ Work(s)
      PROVE  \/ row'.status = "ADMITTED"
             \/ row' = row /\ lock' = lock /\ pc'[s] \in Outside
  <2>1. pc[s] \in Outside /\ DOMAIN pc = Procs /\ s \in Procs /\ lock # s
    BY <1>1, <1>3 DEF Shape, Procs
  <2>2. CASE Admit(s)
    <3>1. CASE Retain(s, FreshRow)
      BY <2>1, <3>1 DEF Retain, FreshRow, NoRow
    <3>2. CASE Raise(s) /\ UNCHANGED store
      BY <2>1, <3>2 DEF Raise, Goto, store, Outside
    <3> QED BY <2>2, <3>1, <3>2 DEF Admit
  <2>3. CASE Enter(s) \/ Busy(s) \/ Work(s)
    BY <2>1, <2>3 DEF Enter, Busy, Work, Exit, Goto, Outside, store
  <2> QED BY <1>6, <2>1, <2>2, <2>3
          DEF StartStep, StartThread, KeepThread, StartTurn, KeepTurn, RecordStart,
              LoseStart, Outside
<1>7. ASSUME NEW k \in Keepers, Preflight(k) \/ KeeperStep(k) PROVE FALSE
  BY <1>4, <1>7 DEF Preflight, KeeperStep, Begin, GiveUp, Resume, Status, ReadThread, Judge,
                    Seal, AbsentInv
<1>8. ASSUME NEW p \in Procs, CommonStep(p) \/ Deadline(p) \/ Crash(p) \/ Interrupt(p) \/ Deliver(p)
      PROVE  row' = row /\ lock' = lock /\ (p \in Starters => pc'[p] \in Outside)
  <2>1. pc[p] \in Outside /\ DOMAIN pc = Procs /\ lock # p
    BY <1>1, <1>3, <1>4 DEF Shape, Procs, Outside
  <2>2. CASE SetupFails(p) \/ Connect(p) \/ Finish(p) \/ Interrupt(p) \/ Crash(p) \/ Interrupt(p) \/ Deliver(p)
    BY <2>1, <2>2 DEF SetupFails, Connect, Finish, Interrupt, End, Crash, Deliver, Exit, Goto, Outside, store
  <2>3. CASE ConnectFails(p)
    BY <2>1, <2>3 DEF ConnectFails, Raise, Goto, Outside, store
  <2> QED BY <1>8, <2>1, <2>2, <2>3
          DEF CommonStep, DrainDiagnostics, DrainQueues, TakeRequest, RequestsTaken, TakeNote,
              NotesTaken, Cut, Weigh, Look, Deadline, Outside
<1>9. CASE \E s \in Starters : Enter(s) \/ StartStep(s) \/ Work(s)
  BY <1>1, <1>5, <1>6, <1>9, StartOwn DEF Procs
<1>10. CASE \E p \in Procs : CommonStep(p) \/ Deadline(p) \/ Crash(p) \/ Interrupt(p) \/ Deliver(p)
  BY <1>1, <1>5, <1>8, <1>10, CommonOwn
<1> QED BY <1>2, <1>7, <1>9, <1>10 DEF Next

LEMMA AbsentInductive == OInv /\ AbsentInv /\ [Next]_vars => AbsentInv'
<1> SUFFICES ASSUME OInv, AbsentInv, [Next]_vars PROVE AbsentInv'
  OBVIOUS
<1>1. row.status # "NONE" => row'.status # "NONE"
  BY Inductive DEF OInv, Commits
<1>2. CASE row.status = "NONE"
  BY <1>2, FirstStep DEF AbsentInv
<1>3. CASE row.status # "NONE"
  BY <1>1, <1>3 DEF AbsentInv
<1> QED BY <1>2, <1>3

(* A receipt is there exactly when the attempt is TERMINAL.                *)
ReceiptInv ==
    /\ row.status = "TERMINAL" <=> row.receipt # "none"
    /\ row.status = "TERMINAL" => row.receipt = "valid" /\ Given = <<"valid">>

LEMMA ReceiptOf == CInv => ReceiptInv
<1> SUFFICES ASSUME CInv PROVE ReceiptInv
  OBVIOUS
<1>1. Truthful(row)
  BY DEF CInv, TruthInv
<1>2. CASE row.status = "TERMINAL"
  <2>1. IsOutcome(row.receipt) /\ Told(row.turn, row.receipt)
    BY <1>1, <1>2 DEF Truthful
  <2>2. answer[row.turn] \in Answers
    BY <2>1 DEF Told, CInv, TruthInv, AnswerInv
  <2>3. row.receipt = "valid"
    BY <2>1, <2>2 DEF IsOutcome, Told, Answers
  <2> QED BY <1>2, <2>1, <2>3, GivenIs DEF Told, ReceiptInv
<1>3. CASE row.status # "TERMINAL"
  BY <1>1, <1>3 DEF Truthful, ReceiptInv
<1> QED BY <1>2, <1>3

LEMMA PromiseInit == Init => Promise!Init
<1> SUFFICES ASSUME Init PROVE Promise!Init
  OBVIOUS
<1>1. Phase = "absent" /\ row.receipt = "none"
  BY DEF Init, NoRow, Phase
<1>2. Given = <<>>
  BY DEF Init, Given
<1> QED BY <1>1, <1>2 DEF Promise!Init, Phase, Given

LEMMA PromiseNext ==
    CInv /\ CInv' /\ AbsentInv /\ [Next]_vars => [Promise!Next]_Promise!vars
<1> SUFFICES ASSUME CInv, CInv', AbsentInv, [Next]_vars PROVE [Promise!Next]_Promise!vars
  OBVIOUS
<1>1. Commits
  BY Inductive DEF CInv, OInv
<1>2. /\ row.status = "TERMINAL" <=> row.receipt # "none"
      /\ row'.status = "TERMINAL" <=> row'.receipt # "none"
      /\ row'.status = "TERMINAL" => row'.receipt = "valid" /\ Given' = <<"valid">>
  <2>1. ReceiptInv
    BY ReceiptOf
  <2>2. ReceiptInv'
    BY ReceiptOf, PTL
  <2> QED BY <2>1, <2>2 DEF ReceiptInv
<1>3. CASE /\ row' = row /\ row.status # "NONE" /\ Given = <<>>
           /\ \E a \in Answers : Given' = <<a>>
  <2>1. Phase # "absent" /\ Phase' = Phase
    BY <1>3 DEF Phase
  <2>2. \E a \in Answers : Promise!Answer(a)
    BY <1>3, <2>1 DEF Promise!Answer, Phase, Given
  <2> QED BY <2>2 DEF Promise!Next
<1>4. CASE Given' = Given
  <2>1. CASE Phase' = Phase
    <3>1. row'.receipt = row.receipt
      BY <1>1, <1>2, <2>1 DEF Phase, Commits, Keeps, Settled
    <3> QED BY <1>4, <2>1, <3>1 DEF Promise!vars, Phase, Given
  <2>2. CASE Phase = "absent" /\ Phase' = "open"
    <3>1. row'.receipt = "none" /\ row.receipt = "none"
      BY <1>2, <2>2 DEF Phase
    <3>2. Promise!Admit
      BY <1>4, <2>2, <3>1 DEF Promise!Admit, Phase, Given
    <3> QED BY <3>2 DEF Promise!Next
  <2>3. CASE Phase = "open" /\ Phase' = "lost"
    <3>1. row'.receipt = "none" /\ row.receipt = "none"
      BY <1>2, <2>3 DEF Phase
    <3>2. Promise!Lose
      BY <1>4, <2>3, <3>1 DEF Promise!Lose, Phase, Given
    <3> QED BY <3>2 DEF Promise!Next
  <2>4. CASE Phase = "open" /\ Phase' = "sealed"
    <3>1. row'.receipt = "valid" /\ Given = <<"valid">>
      BY <1>2, <1>4, <2>4 DEF Phase
    <3>2. Promise!Seal("valid")
      BY <1>4, <2>4, <3>1 DEF Promise!Seal, Phase, Given
    <3> QED BY <3>2 DEF Promise!Next
  <2>5. Phase' = Phase \/ (Phase = "open" /\ Phase' \in {"lost", "sealed"})
        \/ (Phase = "absent" /\ Phase' # "absent")
    BY <1>1 DEF Phase, Commits, Keeps, Settled
  <2>6. Phase = "absent" => Phase' \in {"absent", "open"}
    BY FirstStep DEF Phase, CInv
  <2> QED BY <2>1, <2>2, <2>3, <2>4, <2>5, <2>6
<1> QED BY <1>3, <1>4, GivenStep

(* Whatever commands are given to an attempt and however each of them      *)
(* ends, the adapter keeps the promise of AttemptCustody.                  *)
THEOREM CustodyImplemented == Spec => ImplementsAttemptCustody
<1>1. Init => AbsentInv
  BY DEF Init, AbsentInv, Outside, Procs
<1>2. CInv /\ AbsentInv /\ [Next]_vars => AbsentInv'
  BY AbsentInductive DEF CInv
<1>3. CInv /\ [Next]_vars => CInv'
  BY CInductive
<1> QED BY <1>1, <1>2, <1>3, PromiseInit, PromiseNext, CInitially, PTL
        DEF Spec, ImplementsAttemptCustody, Promise!Spec

----------------------------------------------------------------------------
(* The variables keep their ranges.                                        *)

StoreOK == row \in Row /\ draft \in Row /\ lock \in Keepers \cup {NoId}

ControlOK == pc \in [Procs -> Places] /\ job \in [Procs -> Job]

LinkOK == link \in [Procs -> Link]

ProviderOK == /\ turn \in [Starters -> {"none", "thread", "running", "completed"}]
              /\ answer \in [Starters -> Texts]
              /\ sent \in 0..MaxDeliveries

LEMMA TypeParts == StoreOK' /\ ControlOK' /\ LinkOK' /\ ProviderOK' => TypeOK'
BY DEF TypeOK, StoreOK, ControlOK, LinkOK, ProviderOK

(* What an unchanged part keeps.                                           *)
LEMMA PartsStay ==
    ASSUME TypeOK
    PROVE  /\ UNCHANGED store => StoreOK'
           /\ UNCHANGED <<pc, job>> => ControlOK'
           /\ UNCHANGED link => LinkOK'
           /\ UNCHANGED provider => ProviderOK'
BY DEF TypeOK, StoreOK, ControlOK, LinkOK, ProviderOK, store, provider

LEMMA GotoTypes ==
    ASSUME TypeOK, NEW p \in Procs, NEW place \in Places, Goto(p, place),
           job' \in [Procs -> Job]
    PROVE  ControlOK'
BY DEF TypeOK, ControlOK, Goto

(* The rows that updates write.                                            *)
LEMMA RowFields ==
    ASSUME NEW r \in Row, NEW status \in Statuses, NEW s \in Starters, NEW text \in Texts
    PROVE  /\ [r EXCEPT !.status = status] \in Row
           /\ [r EXCEPT !.status = status, !.receipt = r.final] \in Row
           /\ [r EXCEPT !.thread = s, !.status = status] \in Row
           /\ [r EXCEPT !.turn = s, !.status = status] \in Row
           /\ [r EXCEPT !.status = status, !.final = text] \in Row
BY DEF Row

LEMMA FirstRows == NoRow \in Row /\ FreshRow \in Row
BY DEF NoRow, FreshRow, Row, Statuses, Texts, Answers

LEMMA ObservedTypes ==
    ASSUME NEW r \in Row, NEW completed, NEW text \in Texts
    PROVE  Observed(r, completed, text) \in Row
BY DEF Observed, Row, Statuses, Settled

LEMMA RetainTypes ==
    ASSUME TypeOK, NEW p, NEW r \in Row, Retain(p, r)
    PROVE  StoreOK'
BY DEF TypeOK, Retain, StoreOK

LEMMA ViewTypes == ASSUME TypeOK, NEW p PROVE View(p) \in Row
BY DEF TypeOK, View

LEMMA RaiseTypes ==
    ASSUME TypeOK, NEW p \in Procs, Raise(p)
    PROVE  ControlOK'
<1>1. "finishing" \in Places /\ "cutting" \in Places
  BY DEF Places
<1>2. CASE Goto(p, "finishing") /\ UNCHANGED job
  BY <1>1, <1>2, GotoTypes DEF TypeOK
<1>3. CASE job' = [job EXCEPT ![p].closing = TRUE] /\ Goto(p, "cutting")
  <2>1. job' \in [Procs -> Job]
    BY <1>3 DEF TypeOK, Job
  <2> QED BY <1>1, <1>3, <2>1, GotoTypes
<1> QED BY <1>2, <1>3 DEF Raise

LEMMA MarkTypes ==
    ASSUME TypeOK, NEW p \in Procs, NEW next \in Places, MarkIndeterminate(p, next)
    PROVE  StoreOK' /\ ControlOK'
<1>1. CASE /\ Update(p, [View(p) EXCEPT !.status = "INDETERMINATE"])
           /\ Goto(p, next)
           /\ UNCHANGED job
  <2>1. [View(p) EXCEPT !.status = "INDETERMINATE"] \in Row
    BY ViewTypes DEF Row, Statuses, Settled
  <2>2. StoreOK'
    BY <1>1, <2>1, RetainTypes DEF Update
  <2> QED BY <1>1, <2>2, GotoTypes DEF TypeOK
<1>2. CASE Raise(p) /\ UNCHANGED store
  BY <1>2, RaiseTypes, PartsStay
<1> QED BY <1>1, <1>2 DEF MarkIndeterminate

LEMMA JobPlaces ==
    ASSUME TypeOK, NEW p \in Procs
    PROVE  /\ {AfterAct(p), AfterCut(p), job[p].back} \subseteq Places
           /\ \A place \in Places : [job EXCEPT ![p].back = place] \in [Procs -> Job]
           /\ [job EXCEPT ![p].closing = TRUE] \in [Procs -> Job]
           /\ \A c \in Commands : [job EXCEPT ![p].command = c] \in [Procs -> Job]
           /\ [job EXCEPT ![p] = NoJob] \in [Procs -> Job]
<1>1. job \in [Procs -> Job] /\ job[p].back \in Places
  BY DEF TypeOK, Job
<1>2. {AfterAct(p), AfterCut(p), job[p].back} \subseteq Places
  BY <1>1 DEF AfterAct, AfterCut, Places
<1>3. \A place \in Places : [job EXCEPT ![p].back = place] \in [Procs -> Job]
  BY <1>1 DEF Job
<1>4. /\ [job EXCEPT ![p].closing = TRUE] \in [Procs -> Job]
      /\ \A c \in Commands : [job EXCEPT ![p].command = c] \in [Procs -> Job]
  BY <1>1 DEF Job
<1>5. NoJob \in Job
  BY DEF NoJob, Job, Places, Commands
<1>6. [job EXCEPT ![p] = NoJob] \in [Procs -> Job]
  BY <1>1, <1>5
<1> QED BY <1>2, <1>3, <1>4, <1>6

LEMMA DrainRaisesTypes ==
    ASSUME TypeOK, NEW p \in Procs, DrainRaises(p)
    PROVE  StoreOK' /\ ControlOK'
BY JobPlaces, MarkTypes, RaiseTypes, PartsStay DEF DrainRaises

LEMMA LinkTypes ==
    ASSUME TypeOK, NEW p \in Procs, NEW l \in Link, SetLink(p, l)
    PROVE  LinkOK'
BY DEF TypeOK, SetLink, LinkOK

LEMMA NoLinkTypes == \A open, lost \in BOOLEAN :
                         [NoLink EXCEPT !.open = open] \in Link
                         /\ [NoLink EXCEPT !.loss = lost, !.diagnostics = lost] \in Link
                         /\ NoLink \in Link
<1>1. <<>> \in Seq(Ask) /\ <<>> \in Seq(Notice)
  OBVIOUS
<1> QED BY <1>1 DEF NoLink, Link

LEMMA ExitTypes ==
    ASSUME TypeOK, NEW p \in Procs, Exit(p)
    PROVE  ControlOK' /\ LinkOK'
<1>1. NoLink \in Link /\ "idle" \in Places
  BY NoLinkTypes DEF Places
<1> QED BY <1>1, JobPlaces, LinkTypes, GotoTypes DEF Exit

(* The steps of an occurrence.                                             *)
LEMMA KeeperTypes ==
    ASSUME TypeOK, NEW k \in Keepers, Preflight(k) \/ KeeperStep(k)
    PROVE  TypeOK'
<1>0. k \in Procs /\ {"opening", "connecting", "observing", "reading", "draining",
                      "judging", "cutting", "sealing"} \subseteq Places
  BY DEF Procs, Places
<1>1. CASE Preflight(k)
  BY <1>0, <1>1, GotoTypes, PartsStay, TypeParts DEF Preflight, TypeOK
<1>2. CASE Begin(k)
  <2>1. StoreOK'
    BY <1>2 DEF Begin, TypeOK, StoreOK
  <2>2. ControlOK'
    <3>1. PICK c \in Commands : job' = [job EXCEPT ![k].command = c]
      BY <1>2 DEF Begin
    <3>2. job' \in [Procs -> Job]
      BY <1>0, <3>1, JobPlaces
    <3> QED BY <1>0, <1>2, <3>2, GotoTypes DEF Begin
  <2> QED BY <1>2, <2>1, <2>2, PartsStay, TypeParts DEF Begin
<1>3. CASE GiveUp(k)
  BY <1>0, <1>3, ExitTypes, PartsStay, TypeParts DEF GiveUp
<1>4. CASE Resume(k)
  <2>1. StoreOK' /\ ControlOK'
    <3>1. CASE Goto(k, "observing") /\ UNCHANGED <<store, job>>
      BY <1>0, <3>1, GotoTypes, PartsStay DEF TypeOK
    <3>2. CASE Raise(k) /\ UNCHANGED store
      BY <1>0, <3>2, RaiseTypes, PartsStay
    <3>3. CASE MarkIndeterminate(k, "observing")
      BY <1>0, <3>3, MarkTypes
    <3>4. CASE /\ Goto(k, "reading") /\ job' = [job EXCEPT ![k].back = AfterAct(k)]
               /\ UNCHANGED store
      BY <1>0, <3>4, JobPlaces, GotoTypes, PartsStay
    <3> QED BY <1>4, <3>1, <3>2, <3>3, <3>4 DEF Resume
  <2> QED BY <1>4, <2>1, PartsStay, TypeParts DEF Resume
<1>5. CASE Status(k)
  <2>1. ControlOK'
    <3>1. CASE UNCHANGED job /\ \E place \in {"observing", AfterAct(k)} : Goto(k, place)
      BY <1>0, <3>1, JobPlaces, GotoTypes DEF TypeOK
    <3>2. CASE /\ Goto(k, IF View(k).thread = NoId THEN "draining" ELSE "reading")
               /\ job' = [job EXCEPT ![k].back = AfterAct(k)]
      BY <1>0, <3>2, JobPlaces, GotoTypes
    <3> QED BY <1>5, <3>1, <3>2 DEF Status
  <2> QED BY <1>5, <2>1, PartsStay, TypeParts DEF Status
<1>6. CASE ReadThread(k)
  <2>1. CASE Raise(k) /\ UNCHANGED store
    BY <1>0, <1>6, <2>1, RaiseTypes, PartsStay, TypeParts DEF ReadThread
  <2>2. CASE \E place \in {"observing", "draining"} : MarkIndeterminate(k, place)
    BY <1>0, <1>6, <2>2, MarkTypes, PartsStay, TypeParts DEF ReadThread
  <2>3. CASE \E turns \in SUBSET History(View(k).thread) : IngestThread(k, turns)
    <3>1. PICK turns \in SUBSET History(View(k).thread) : IngestThread(k, turns)
      BY <2>3
    <3>2. \A t \in turns : t.text \in Texts
      <4>1. \A t \in Begun : answer[t] \in Texts
        BY DEF Begun, TypeOK
      <4>2. \A t \in History(View(k).thread) : t.text \in Texts
        BY <4>1 DEF History, Texts, Answers
      <4> QED BY <3>1, <4>2
    <3>3. StoreOK' /\ ControlOK'
      <4>1. CASE Goto(k, "draining") /\ UNCHANGED <<store, job>>
        BY <1>0, <4>1, GotoTypes, PartsStay DEF TypeOK
      <4>2. CASE Raise(k) /\ UNCHANGED store
        BY <1>0, <4>2, RaiseTypes, PartsStay
      <4>3. ASSUME NEW t \in turns, Update(k, Observed(View(k), t.completed, t.text)),
                   Goto(k, "draining"), UNCHANGED job
            PROVE  StoreOK' /\ ControlOK'
        <5>1. Observed(View(k), t.completed, t.text) \in Row
          BY <3>2, ViewTypes, ObservedTypes
        <5>2. StoreOK'
          BY <4>3, <5>1, RetainTypes DEF Update
        <5> QED BY <1>0, <4>3, <5>2, GotoTypes DEF TypeOK
      <4> QED BY <3>1, <4>1, <4>2, <4>3 DEF IngestThread, Own
    <3> QED BY <1>6, <3>3, PartsStay, TypeParts DEF ReadThread
  <2> QED BY <1>6, <2>1, <2>2, <2>3 DEF ReadThread
<1>7. CASE Judge(k)
  BY <1>0, <1>7, GotoTypes, PartsStay, TypeParts DEF Judge, TypeOK
<1>8. CASE Seal(k)
  <2>1. StoreOK' /\ ControlOK'
    <3>1. CASE Goto(k, "observing") /\ UNCHANGED <<store, job>>
      BY <1>0, <3>1, GotoTypes, PartsStay DEF TypeOK
    <3>2. CASE MarkIndeterminate(k, "observing")
      BY <1>0, <3>2, MarkTypes
    <3>3. CASE /\ Update(k, [View(k) EXCEPT !.status = "TERMINAL",
                                            !.receipt = View(k).final])
               /\ Goto(k, "observing") /\ UNCHANGED job
      <4>1. [View(k) EXCEPT !.status = "TERMINAL", !.receipt = View(k).final] \in Row
        BY ViewTypes DEF Row, Statuses, Settled
      <4>2. StoreOK'
        BY <3>3, <4>1, RetainTypes DEF Update
      <4> QED BY <1>0, <3>3, <4>2, GotoTypes DEF TypeOK
    <3> QED BY <1>8, <3>1, <3>2, <3>3 DEF Seal
  <2> QED BY <1>8, <2>1, PartsStay, TypeParts DEF Seal
<1> QED BY <1>1, <1>2, <1>3, <1>4, <1>5, <1>6, <1>7, <1>8 DEF KeeperStep

(* The connection after a frame was taken or thrown away, or it was cut.   *)
LEMMA LinkFields ==
    ASSUME TypeOK, NEW p \in Procs
    PROVE  /\ [link[p] EXCEPT !.diagnostics = FALSE] \in Link
           /\ [link[p] EXCEPT !.diagnostics = FALSE, !.requests = <<>>, !.notes = <<>>] \in Link
           /\ [link[p] EXCEPT !.open = FALSE, !.clean = ~link[p].loss] \in Link
           /\ \A open \in BOOLEAN :
                 [link[p] EXCEPT !.open = open, !.clean = FALSE, !.loss = TRUE,
                                 !.diagnostics = TRUE] \in Link
           /\ [link[p] EXCEPT !.loss = TRUE, !.diagnostics = TRUE] \in Link
           /\ link[p].requests # <<>> =>
                 /\ [link[p] EXCEPT !.requests = Tail(@)] \in Link
                 /\ Head(link[p].requests) \in Ask
           /\ link[p].notes # <<>> =>
                 /\ [link[p] EXCEPT !.notes = Tail(@)] \in Link
                 /\ Head(link[p].notes) \in Notice
           /\ \A m \in Notice : [link[p] EXCEPT !.notes = Append(@, m)] \in Link
           /\ \A ask \in Ask : [link[p] EXCEPT !.requests = Append(@, ask)] \in Link
<1>1. link[p] \in Link /\ link[p].requests \in Seq(Ask) /\ link[p].notes \in Seq(Notice)
  BY DEF TypeOK, Link
<1>2. <<>> \in Seq(Ask) /\ <<>> \in Seq(Notice)
  OBVIOUS
<1>3. \A open, loss, diagnostics, clean \in BOOLEAN, requests \in Seq(Ask),
         notes \in Seq(Notice) :
         [link[p] EXCEPT !.open = open, !.clean = clean, !.loss = loss,
                         !.diagnostics = diagnostics, !.requests = requests,
                         !.notes = notes] \in Link
  BY <1>1 DEF Link
<1>4. link[p].requests # <<>> =>
         Tail(link[p].requests) \in Seq(Ask) /\ Head(link[p].requests) \in Ask
  BY <1>1, HeadTailProperties
<1>5. link[p].notes # <<>> =>
         Tail(link[p].notes) \in Seq(Notice) /\ Head(link[p].notes) \in Notice
  BY <1>1, HeadTailProperties
<1>6. /\ \A m \in Notice : Append(link[p].notes, m) \in Seq(Notice)
      /\ \A ask \in Ask : Append(link[p].requests, ask) \in Seq(Ask)
  BY <1>1, AppendProperties
<1>7. /\ [link[p] EXCEPT !.diagnostics = FALSE] \in Link
      /\ [link[p] EXCEPT !.diagnostics = FALSE, !.requests = <<>>, !.notes = <<>>] \in Link
  BY <1>1, <1>2 DEF Link
<1>8. /\ [link[p] EXCEPT !.open = FALSE, !.clean = ~link[p].loss] \in Link
      /\ \A open \in BOOLEAN :
            [link[p] EXCEPT !.open = open, !.clean = FALSE, !.loss = TRUE,
                            !.diagnostics = TRUE] \in Link
      /\ [link[p] EXCEPT !.loss = TRUE, !.diagnostics = TRUE] \in Link
  BY <1>1 DEF Link
<1>9. /\ \A requests \in Seq(Ask) : [link[p] EXCEPT !.requests = requests] \in Link
      /\ \A notes \in Seq(Notice) : [link[p] EXCEPT !.notes = notes] \in Link
  BY <1>1 DEF Link
<1> QED BY <1>4, <1>5, <1>6, <1>7, <1>8, <1>9

LEMMA QuiesceTypes == ASSUME TypeOK, NEW p \in Procs, Quiesce(p) PROVE LinkOK'
<1>1. CASE SetLink(p, [link[p] EXCEPT !.open = FALSE, !.clean = ~link[p].loss])
  BY <1>1, LinkFields, LinkTypes
<1>2. ASSUME NEW open \in BOOLEAN,
             SetLink(p, [link[p] EXCEPT !.open = open, !.clean = FALSE,
                                        !.loss = TRUE, !.diagnostics = TRUE])
      PROVE  LinkOK'
  BY <1>2, LinkFields, LinkTypes
<1> QED BY <1>1, <1>2 DEF Quiesce

LEMMA ConnectionTypes ==
    ASSUME TypeOK, NEW p \in Procs,
           \/ SetupFails(p) \/ Connect(p) \/ ConnectFails(p) \/ DrainQueues(p)
           \/ RequestsTaken(p) \/ NotesTaken(p) \/ Cut(p) \/ Weigh(p) \/ Look(p)
           \/ Deadline(p)
    PROVE  TypeOK'
<1>0. {"acting", "finishing", "requests", "notes", "draining", "cutting",
       "weighing", "observing"} \subseteq Places
  BY DEF Places
<1>1. CASE SetupFails(p)
  BY <1>0, <1>1, GotoTypes, PartsStay, TypeParts DEF SetupFails, TypeOK
<1>2. CASE Connect(p)
  <2>1. LinkOK'
    BY <1>2, NoLinkTypes, LinkTypes DEF Connect
  <2> QED BY <1>0, <1>2, <2>1, GotoTypes, PartsStay, TypeParts DEF Connect, TypeOK
<1>3. CASE ConnectFails(p)
  <2>1. LinkOK'
    <3>1. CASE SetLink(p, [NoLink EXCEPT !.loss = TRUE, !.diagnostics = TRUE])
      <4>1. [NoLink EXCEPT !.loss = TRUE, !.diagnostics = TRUE] \in Link
        BY NoLinkTypes
      <4> QED BY <3>1, <4>1, LinkTypes
    <3>2. CASE Quiesce(p)
      BY <3>2, QuiesceTypes
    <3> QED BY <1>3, <3>1, <3>2 DEF ConnectFails
  <2> QED BY <1>3, <2>1, RaiseTypes, PartsStay, TypeParts DEF ConnectFails
<1>4. CASE DrainQueues(p)
  <2>1. ControlOK'
    BY <1>0, <1>4, JobPlaces, GotoTypes DEF DrainQueues, TypeOK
  <2> QED BY <1>4, <2>1, PartsStay, TypeParts DEF DrainQueues
<1>5. CASE RequestsTaken(p)
  BY <1>0, <1>5, GotoTypes, PartsStay, TypeParts DEF RequestsTaken, TypeOK
<1>6. CASE NotesTaken(p)
  <2>1. ControlOK'
    BY <1>6, JobPlaces, GotoTypes DEF NotesTaken, TypeOK
  <2> QED BY <1>6, <2>1, PartsStay, TypeParts DEF NotesTaken
<1>7. CASE Cut(p)
  <2>1. LinkOK'
    BY <1>7, QuiesceTypes DEF Cut
  <2>2. ControlOK'
    BY <1>0, <1>7, JobPlaces, GotoTypes DEF Cut
  <2> QED BY <1>7, <2>1, <2>2, PartsStay, TypeParts DEF Cut
<1>8. CASE Weigh(p)
  <2>1. StoreOK' /\ ControlOK'
    <3>1. CASE Goto(p, AfterCut(p)) /\ UNCHANGED <<store, job>>
      BY <3>1, JobPlaces, GotoTypes, PartsStay DEF TypeOK
    <3>2. CASE MarkIndeterminate(p, AfterCut(p))
      BY <3>2, JobPlaces, MarkTypes
    <3> QED BY <1>8, <3>1, <3>2 DEF Weigh
  <2> QED BY <1>8, <2>1, PartsStay, TypeParts DEF Weigh
<1>9. CASE Look(p)
  <2>1. ControlOK'
    BY <1>0, <1>9, JobPlaces, GotoTypes DEF Look
  <2> QED BY <1>9, <2>1, PartsStay, TypeParts DEF Look
<1>10. CASE Deadline(p)
  <2>1. ControlOK'
    BY <1>0, <1>10, JobPlaces, GotoTypes DEF Deadline
  <2> QED BY <1>10, <2>1, PartsStay, TypeParts DEF Deadline
<1> QED BY <1>1, <1>2, <1>3, <1>4, <1>5, <1>6, <1>7, <1>8, <1>9, <1>10

(* What a drain writes.                                                    *)
LEMMA DrainTypes ==
    ASSUME TypeOK, NEW p \in Procs,
           DrainDiagnostics(p) \/ TakeRequest(p) \/ TakeNote(p)
    PROVE  TypeOK'
<1>0. job[p].back \in Places /\ UNCHANGED <<pc, job>> => ControlOK'
  BY JobPlaces, PartsStay
<1>1. CASE DrainDiagnostics(p)
  <2>1. StoreOK' /\ ControlOK' /\ LinkOK'
    <3>1. CASE /\ Update(p, [View(p) EXCEPT !.status = "INDETERMINATE"])
               /\ SetLink(p, [link[p] EXCEPT !.diagnostics = FALSE,
                                             !.requests = <<>>, !.notes = <<>>])
               /\ Goto(p, job[p].back)
               /\ UNCHANGED job
      <4>1. [View(p) EXCEPT !.status = "INDETERMINATE"] \in Row
        BY ViewTypes DEF Row, Statuses, Settled
      <4>2. StoreOK'
        BY <3>1, <4>1, RetainTypes DEF Update
      <4>3. LinkOK'
        BY <3>1, LinkFields, LinkTypes
      <4> QED BY <3>1, <4>2, <4>3, JobPlaces, GotoTypes DEF TypeOK
    <3>2. CASE /\ SetLink(p, [link[p] EXCEPT !.diagnostics = FALSE])
               /\ DrainRaises(p)
      BY <3>2, LinkFields, LinkTypes, DrainRaisesTypes
    <3> QED BY <1>1, <3>1, <3>2 DEF DrainDiagnostics
  <2> QED BY <1>1, <2>1, PartsStay, TypeParts DEF DrainDiagnostics
<1>2. CASE TakeRequest(p)
  <2>1. LinkOK'
    BY <1>2, LinkFields, LinkTypes DEF TakeRequest
  <2>2. StoreOK' /\ ControlOK'
    <3>1. CASE MarkIndeterminate(p, job[p].back)
      BY <3>1, JobPlaces, MarkTypes
    <3>2. CASE DrainRaises(p)
      BY <3>2, DrainRaisesTypes
    <3>3. CASE /\ Update(p, [View(p) EXCEPT !.status = "WAITING_APPROVAL"])
               /\ UNCHANGED <<pc, job>>
      <4>1. [View(p) EXCEPT !.status = "WAITING_APPROVAL"] \in Row
        BY ViewTypes DEF Row, Statuses
      <4> QED BY <3>3, <4>1, RetainTypes, PartsStay DEF Update
    <3> QED BY <1>2, <3>1, <3>2, <3>3 DEF TakeRequest
  <2> QED BY <1>2, <2>1, <2>2, PartsStay, TypeParts DEF TakeRequest
<1>3. CASE TakeNote(p)
  <2> DEFINE m == Head(link[p].notes)
             r == Noted(View(p), m)
  <2>1. LinkOK'
    BY <1>3, LinkFields, LinkTypes DEF TakeNote
  <2>2. m \in Notice
    BY <1>3, LinkFields DEF TakeNote
  <2>3. r \in Row
    <3>1. m.text \in Texts
      BY <2>2 DEF Notice
    <3>2. Observed(View(p), TRUE, m.text) \in Row
      BY <3>1, ViewTypes, ObservedTypes
    <3>3. [View(p) EXCEPT !.status = "RUNNING"] \in Row
      BY ViewTypes DEF Row, Statuses
    <3> QED BY <3>2, <3>3 DEF Noted
  <2>4. StoreOK' /\ ControlOK'
    <3>1. CASE MarkIndeterminate(p, job[p].back)
      BY <3>1, JobPlaces, MarkTypes
    <3>2. CASE UNCHANGED <<store, pc, job>>
      BY <3>2, PartsStay
    <3>3. CASE Update(p, r) /\ UNCHANGED <<pc, job>>
      BY <2>3, <3>3, RetainTypes, PartsStay DEF Update
    <3> QED BY <1>3, <3>1, <3>2, <3>3 DEF TakeNote
  <2> QED BY <1>3, <2>1, <2>4, PartsStay, TypeParts DEF TakeNote
<1> QED BY <1>1, <1>2, <1>3

(* The end of a command.                                                   *)
LEMMA EndTypes ==
    ASSUME TypeOK, NEW p \in Procs, Finish(p) \/ Interrupt(p) \/ Crash(p)
    PROVE  TypeOK'
<1>1. Exit(p) /\ UNCHANGED provider
  BY DEF Finish, Interrupt, End, Crash
<1>2. StoreOK'
  BY FirstRows DEF Finish, Interrupt, End, Crash, TypeOK, StoreOK, store
<1> QED BY <1>1, <1>2, ExitTypes, PartsStay, TypeParts

(* start, and the worker of its turn.                                      *)
LEMMA StartTypes ==
    ASSUME TypeOK, NEW s \in Starters, Enter(s) \/ StartStep(s) \/ Work(s)
    PROVE  TypeOK'
<1>0. s \in Procs /\ {"connecting", "threading", "keepThread", "turning", "keepTurn",
                      "recording", "losing", "observing"} \subseteq Places
  BY DEF Procs, Places
<1>1. CASE Enter(s)
  BY <1>0, <1>1, GotoTypes, PartsStay, TypeParts DEF Enter, TypeOK
<1>2. CASE Admit(s)
  <2>1. StoreOK' /\ ControlOK'
    <3>1. CASE Retain(s, FreshRow) /\ Goto(s, "threading") /\ UNCHANGED job
      BY <1>0, <3>1, FirstRows, RetainTypes, GotoTypes DEF TypeOK
    <3>2. CASE Raise(s) /\ UNCHANGED store
      BY <1>0, <3>2, RaiseTypes, PartsStay
    <3> QED BY <1>2, <3>1, <3>2 DEF Admit
  <2> QED BY <1>2, <2>1, PartsStay, TypeParts DEF Admit
<1>3. ASSUME StartThread(s) \/ StartTurn(s)
      PROVE  TypeOK'
  <2>1. ProviderOK'
    BY <1>3 DEF StartThread, StartTurn, TypeOK, ProviderOK
  <2>2. ControlOK'
    BY <1>0, <1>3, GotoTypes DEF StartThread, StartTurn, TypeOK
  <2> QED BY <1>3, <2>1, <2>2, PartsStay, TypeParts DEF StartThread, StartTurn
<1>4. ASSUME KeepThread(s) \/ KeepTurn(s)
      PROVE  TypeOK'
  <2>1. /\ [row EXCEPT !.thread = s, !.status = "STARTING"] \in Row
        /\ [row EXCEPT !.turn = s, !.status = "RUNNING"] \in Row
    BY DEF TypeOK, Row, Statuses
  <2>2. StoreOK'
    BY <1>4, <2>1, RetainTypes, PartsStay DEF KeepThread, KeepTurn, Update
  <2>3. ControlOK'
    BY <1>0, <1>4, GotoTypes DEF KeepThread, KeepTurn, TypeOK
  <2> QED BY <1>4, <2>2, <2>3, PartsStay, TypeParts DEF KeepThread, KeepTurn
<1>5. CASE RecordStart(s)
  BY <1>0, <1>5, GotoTypes, PartsStay, TypeParts DEF RecordStart, TypeOK
<1>6. CASE LoseStart(s)
  <2>1. StoreOK' /\ ControlOK'
    BY <1>0, <1>6, MarkTypes DEF LoseStart
  <2> QED BY <1>6, <2>1, PartsStay, TypeParts DEF LoseStart
<1>7. CASE Busy(s)
  <2>1. ControlOK' /\ LinkOK'
    <3>1. CASE Goto(s, "losing") /\ UNCHANGED <<job, link>>
      BY <1>0, <3>1, GotoTypes, PartsStay DEF TypeOK
    <3>2. CASE Exit(s)
      BY <1>0, <3>2, ExitTypes
    <3> QED BY <1>7, <3>1, <3>2 DEF Busy
  <2> QED BY <1>7, <2>1, PartsStay, TypeParts DEF Busy
<1>8. CASE Work(s)
  <2>1. ProviderOK'
    BY <1>8 DEF Work, TypeOK, ProviderOK, Texts
  <2> QED BY <1>8, <2>1, PartsStay, TypeParts DEF Work
<1> QED BY <1>1, <1>2, <1>3, <1>4, <1>5, <1>6, <1>7, <1>8 DEF StartStep

(* What an App Server sends is of the vocabulary.                          *)
LEMMA DeliverTypes ==
    ASSUME TypeOK, NEW p \in Procs, Deliver(p)
    PROVE  TypeOK'
<1>1. Notices \subseteq Notice
  <2>1. \A s \in Begun : s \in Starters /\ answer[s] \in Texts
    BY DEF Begun, TypeOK
  <2>2. {"none", "alien"} \subseteq Texts
    BY DEF Texts, Answers
  <2> QED BY <2>1, <2>2 DEF Notices, Notice
<1>2. Asks \subseteq Ask
  <2>1. TRUE \in BOOLEAN /\ FALSE \in BOOLEAN /\ Begun \subseteq Starters
    BY DEF Begun
  <2>2. [turn |-> Alien, huge |-> FALSE] \in Ask
    BY <2>1 DEF Ask
  <2>3. \A s \in Begun, h \in BOOLEAN : [turn |-> s, huge |-> h] \in Ask
    BY <2>1 DEF Ask
  <2>4. ASSUME NEW a \in Asks
        PROVE  a = [turn |-> Alien, huge |-> FALSE]
                  \/ \E s \in Begun, h \in BOOLEAN : a = [turn |-> s, huge |-> h]
    BY DEF Asks
  <2> QED BY <2>2, <2>3, <2>4
<1>3. LinkOK'
  <2>1. CASE \E m \in Notices : SetLink(p, [link[p] EXCEPT !.notes = Append(@, m)])
    BY <1>1, <2>1, LinkFields, LinkTypes
  <2>2. CASE \E ask \in Asks : SetLink(p, [link[p] EXCEPT !.requests = Append(@, ask)])
    BY <1>2, <2>2, LinkFields, LinkTypes
  <2>3. CASE SetLink(p, [link[p] EXCEPT !.loss = TRUE, !.diagnostics = TRUE])
    BY <2>3, LinkFields, LinkTypes
  <2> QED BY <2>1, <2>2, <2>3 DEF Deliver
<1>4. ProviderOK'
  BY DeliveriesAssumption DEF Deliver, TypeOK, ProviderOK
<1> QED BY <1>3, <1>4, PartsStay, TypeParts DEF Deliver

(* Every reachable state of the store, of the commands and of their        *)
(* connections is well typed: whatever an App Server lists, sends or       *)
(* repeats, the row that _ingest_thread, _notification and update retain   *)
(* has a status, identities and texts of its vocabulary, and a command is  *)
(* where one can be.                                                       *)
THEOREM AdapterTypes == Spec => []TypeOK
<1>1. Init => TypeOK
  <2> SUFFICES ASSUME Init PROVE TypeOK
    OBVIOUS
  <2>1. NoLink \in Link /\ NoJob \in Job /\ "idle" \in Places /\ "none" \in Texts
    BY NoLinkTypes DEF NoJob, Job, Places, Commands, Texts, Answers
  <2>2. 0 \in 0 .. MaxDeliveries
    BY DeliveriesAssumption
  <2> QED BY <2>1, <2>2, FirstRows DEF Init, TypeOK
<1>2. TypeOK /\ [Next]_vars => TypeOK'
  <2> SUFFICES ASSUME TypeOK, [Next]_vars PROVE TypeOK'
    OBVIOUS
  <2>1. CASE UNCHANGED vars
    BY <2>1 DEF vars, TypeOK
  <2>2. ASSUME NEW s \in Starters, Enter(s) \/ StartStep(s) \/ Work(s)
        PROVE  TypeOK'
    BY <2>2, StartTypes
  <2>3. ASSUME NEW k \in Keepers, Preflight(k) \/ KeeperStep(k)
        PROVE  TypeOK'
    BY <2>3, KeeperTypes
  <2>4. ASSUME NEW p \in Procs, CommonStep(p) \/ Deadline(p) \/ Crash(p) \/ Interrupt(p) \/ Deliver(p)
        PROVE  TypeOK'
    BY <2>4, ConnectionTypes, DrainTypes, EndTypes, DeliverTypes DEF CommonStep
  <2> QED BY <2>1, <2>2, <2>3, <2>4 DEF Next
<1> QED BY <1>1, <1>2, PTL DEF Spec

=============================================================================
