------------------------- MODULE NightshiftAdapter -------------------------
(***************************************************************************)
(* The Nightshift adapter (nightshift_adapter.py): commands start, resume, *)
(* status and collect over the store of one attempt.  start admits the     *)
(* attempt and asks an App Server for a thread and a turn, one transaction *)
(* per update.  Each of the other commands is one occurrence: it takes the *)
(* store's writer lock, works on an uncommitted row and commits whatever   *)
(* it left there: after its finalization, which an exception leads to as   *)
(* well, or without one, when it is interrupted.                           *)
(*                                                                         *)
(* A process gives one command after another, each with an App Server      *)
(* connection of its own.  The App Server and the worker behind it are     *)
(* external.  The event log is left out: it is only appended to.           *)
(***************************************************************************)
EXTENDS Naturals, Sequences, FiniteSets

CONSTANTS
    Starters,           \* start commands, all for the same attempt
    Keepers,            \* resume, status and collect commands
    NoId,               \* an identity that is not retained
    Alien,              \* a turn of the thread that is not the attempt's
    MaxDeliveries       \* bound on what all connections are sent

Procs == Starters \cup Keepers

ASSUME ProcessesAssumption == /\ Starters \cap Keepers = {}
                              /\ NoId \notin Procs
                              /\ Alien \notin Procs \cup {NoId}
ASSUME DeliveriesAssumption == MaxDeliveries \in Nat

VARIABLES
    row,                \* the committed row of the attempt
    draft,              \* the row as the running occurrence has left it
    lock,               \* the occurrence that holds the writer lock
    pc,                 \* where each command stands
    job,                \* its name, where a drain returns, how far it is
    link,               \* its App Server connection and queues
    turn,               \* the turn each start command asked for
    answer,             \* the final agent message of that turn
    sent                \* how much the App Servers have sent unasked

store == <<row, draft, lock>>
provider == <<turn, answer, sent>>
vars == <<row, draft, lock, pc, job, link, turn, answer, sent>>

----------------------------------------------------------------------------
(* The attempt's row.                                                      *)

Settled == {"INDETERMINATE", "TERMINAL"}
Statuses == Settled \cup {"NONE", "ADMITTED", "STARTING", "RUNNING",
                          "WAITING_APPROVAL", "PROVIDER_COMPLETED"}

(* Final messages: "valid" is a canonical worker outcome, "long" exceeds   *)
(* maximum_output_bytes, "alien" is the valid outcome of another turn.     *)
Answers == {"none", "valid", "invalid", "long"}
Texts == Answers \cup {"partial", "alien"}
IsOutcome(text) == text \in {"valid", "alien"}

Row == [status : Statuses, thread : Starters \cup {NoId},
        turn : Starters \cup {NoId}, final : Texts, receipt : Texts]

NoRow == [status |-> "NONE", thread |-> NoId, turn |-> NoId,
          final |-> "none", receipt |-> "none"]

(* Mutant: an attempt is admitted under a status of no kind.               *)
Mutant_FreshRow == [NoRow EXCEPT !.status = "QUEUED"]

FreshRow == [NoRow EXCEPT !.status = "ADMITTED"]

(* What a command reads: its own occurrence's row or the committed one.    *)
View(p) == IF lock = p THEN draft ELSE row

CanWrite(p) == lock \in {p, NoId}

Retain(p, r) ==
    /\ CanWrite(p)
    /\ IF lock = p THEN draft' = r /\ UNCHANGED row
                   ELSE row' = r /\ UNCHANGED draft
    /\ UNCHANGED lock

(* Mutant: only TERMINAL is kept from later updates.                       *)
Mutant_MayBecome(r, status) == r.status # "TERMINAL"

MayBecome(r, status) ==
    IF status = "INDETERMINATE" THEN r.status # "TERMINAL"
                                ELSE r.status \notin Settled

(* AdapterStore.update: conditional on the status already retained.        *)
Update(p, r) == MayBecome(View(p), r.status) /\ Retain(p, r)

Refused(p, status) == ~MayBecome(View(p), status)

----------------------------------------------------------------------------
(* Control.                                                                *)

Commands == {"start", "resume", "status", "collect"}

Places == {"idle", "opening", "connecting", "acting", "reading", "draining",
           "requests", "notes", "judging", "cutting", "weighing", "sealing",
           "observing", "finishing", "threading", "keepThread", "turning",
           "keepTurn", "recording", "losing"}

Job == [command : Commands, back : Places, closing : BOOLEAN]

Goto(p, place) == pc' = [pc EXCEPT ![p] = place]

(* An Exception leaves the command: main finalizes an existing occurrence  *)
(* and re-raises; start only quiesces.  One that leaves the finalization   *)
(* itself goes straight to the commit of the finally clause.  An interrupt *)
(* is no Exception: see Interrupt.                                         *)
Raise(p) ==
    IF p \in Starters \/ job[p].closing
      THEN Goto(p, "finishing") /\ UNCHANGED job
      ELSE /\ job' = [job EXCEPT ![p].closing = TRUE]
           /\ Goto(p, "cutting")

(* _mark_indeterminate: raises when the attempt is already TERMINAL.       *)
MarkIndeterminate(p, next) ==
    \/ /\ Update(p, [View(p) EXCEPT !.status = "INDETERMINATE"])
       /\ Goto(p, next)
       /\ UNCHANGED job
    \/ /\ Refused(p, "INDETERMINATE")
       /\ Raise(p)
       /\ UNCHANGED store

AfterAct(p) == IF job[p].command = "collect" THEN "judging" ELSE "observing"
AfterCut(p) == IF job[p].closing THEN "finishing" ELSE "sealing"

(* An AdapterProtocolError in _drain is INDETERMINATE during finalization  *)
(* and leaves the command anywhere else.                                   *)
DrainRaises(p) ==
    IF job[p].back = "weighing"
      THEN MarkIndeterminate(p, AfterCut(p))
      ELSE Raise(p) /\ UNCHANGED store

----------------------------------------------------------------------------
(* The App Server connection.                                              *)

Notice == [kind : {"echo", "completed", "huge"},
           turn : Starters \cup {Alien}, text : Texts]
Ask == [turn : Starters \cup {Alien}, huge : BOOLEAN]

Link == [open : BOOLEAN, loss : BOOLEAN, diagnostics : BOOLEAN, clean : BOOLEAN,
         requests : Seq(Ask), notes : Seq(Notice)]

NoLink == [open |-> FALSE, loss |-> FALSE, diagnostics |-> FALSE, clean |-> FALSE,
           requests |-> <<>>, notes |-> <<>>]

SetLink(p, l) == link' = [link EXCEPT ![p] = l]

NoJob == [command |-> "start", back |-> "observing", closing |-> FALSE]

(* The command ends, and its process with it; it may be given again.       *)
Exit(p) == /\ Goto(p, "idle")
           /\ job' = [job EXCEPT ![p] = NoJob]
           /\ SetLink(p, NoLink)

Begun == {s \in Starters : turn[s] \in {"running", "completed"}}

(* What thread/read may list of a thread: its turn, with or without its    *)
(* items, and one that is not the attempt's.                               *)
History(s) ==
    {[id |-> Alien, completed |-> TRUE, text |-> "alien"]}
    \cup UNION {{[id |-> t, completed |-> turn[t] = "completed", text |-> x] :
                   x \in {answer[t], "none"}} : t \in Begun \cap {s}}

(* What a connection may be told: completions of turns that are complete,  *)
(* with or without their items, and frames above the retained byte bound.  *)
Notices ==
    {[kind |-> "completed", turn |-> Alien, text |-> "alien"],
     [kind |-> "huge", turn |-> Alien, text |-> "none"]}
    \cup {[kind |-> "echo", turn |-> s, text |-> "none"] : s \in Begun}
    \cup UNION {{[kind |-> "completed", turn |-> s, text |-> t] : t \in {answer[s], "none"}} :
                  s \in {b \in Begun : turn[b] = "completed"}}

Asks == {[turn |-> Alien, huge |-> FALSE]}
        \cup {[turn |-> s, huge |-> h] : s \in Begun, h \in BOOLEAN}

----------------------------------------------------------------------------
(* The commands over an admitted attempt.                                  *)

(* _preflight_existing_store: an unknown attempt or another binding is     *)
(* refused before anything is opened for writing.                          *)
Preflight(k) ==
    /\ pc[k] = "idle"
    /\ row.status # "NONE"
    /\ Goto(k, "opening")
    /\ UNCHANGED <<store, job, link, provider>>

(* begin_existing_occurrence.  Which command it is matters from here on.   *)
Begin(k) ==
    /\ pc[k] = "opening"
    /\ lock = NoId
    /\ lock' = k
    /\ draft' = row
    /\ \E c \in Commands \ {"start"} : job' = [job EXCEPT ![k].command = c]
    /\ Goto(k, "connecting")
    /\ UNCHANGED <<row, link, provider>>

(* Another occurrence keeps the lock for longer than SQLite waits.         *)
GiveUp(k) ==
    /\ pc[k] = "opening"
    /\ lock # NoId
    /\ Exit(k)
    /\ UNCHANGED <<store, provider>>

(* The configuration or the backend is refused before the client exists.   *)
SetupFails(p) ==
    /\ pc[p] = "connecting"
    /\ Goto(p, "finishing")
    /\ UNCHANGED <<store, job, link, provider>>

(* quiesce_acquisition: the streams end and both readers are joined, or    *)
(* that fails, which is itself a loss and may leave a reader running.      *)
Quiesce(p) ==
    \/ SetLink(p, [link[p] EXCEPT !.open = FALSE, !.clean = ~link[p].loss])
    \/ /\ link[p].open
       /\ \E open \in BOOLEAN :
             SetLink(p, [link[p] EXCEPT !.open = open, !.clean = FALSE,
                                       !.loss = TRUE, !.diagnostics = TRUE])

(* appserver.start(): the process and its readers are there.               *)
Connect(p) ==
    /\ pc[p] = "connecting"
    /\ SetLink(p, [NoLink EXCEPT !.open = TRUE])
    /\ Goto(p, "acting")
    /\ UNCHANGED <<store, job, provider>>

(* No process, which the cut will call a loss; or initialize fails, and    *)
(* start quiesces what may have delivered something by then.               *)
ConnectFails(p) ==
    /\ \/ /\ pc[p] = "connecting"
          /\ SetLink(p, [NoLink EXCEPT !.loss = TRUE, !.diagnostics = TRUE])
       \/ pc[p] = "acting" /\ Quiesce(p)
    /\ Raise(p)
    /\ UNCHANGED <<store, provider>>

Resume(k) ==
    /\ pc[k] = "acting"
    /\ job[k].command = "resume"
    /\ \/ /\ View(k).status = "INDETERMINATE"
          /\ Goto(k, "observing")
          /\ UNCHANGED <<store, job>>
       \/ /\ View(k).status # "INDETERMINATE"
          /\ View(k).receipt # "none"
          /\ Raise(k)
          /\ UNCHANGED store
       \/ /\ View(k).status # "INDETERMINATE"
          /\ View(k).receipt = "none"
          /\ View(k).thread = NoId
          /\ MarkIndeterminate(k, "observing")
       \/ /\ View(k).status # "INDETERMINATE"
          /\ View(k).receipt = "none"
          /\ View(k).thread # NoId
          /\ Goto(k, "reading")
          /\ job' = [job EXCEPT ![k].back = AfterAct(k)]
          /\ UNCHANGED store
    /\ UNCHANGED <<link, provider>>

(* status, and collect which begins with it unless a receipt is retained.  *)
Status(k) ==
    /\ pc[k] = "acting"
    /\ job[k].command \in {"status", "collect"}
    /\ \/ /\ job[k].command = "collect"
          /\ View(k).receipt # "none"
          /\ Goto(k, "observing")
          /\ UNCHANGED job
       \/ /\ View(k).status = "INDETERMINATE"
          /\ Goto(k, AfterAct(k))
          /\ UNCHANGED job
       \/ /\ View(k).status # "INDETERMINATE"
          /\ job[k].command = "collect" => View(k).receipt = "none"
          /\ Goto(k, IF View(k).thread = NoId THEN "draining" ELSE "reading")
          /\ job' = [job EXCEPT ![k].back = AfterAct(k)]
    /\ UNCHANGED <<store, link, provider>>

(* What an observation of the attempt's own turn makes of the row.         *)
Observed(r, completed, text) ==
    [r EXCEPT !.status = IF text = "long" THEN "INDETERMINATE"
                         ELSE IF completed THEN "PROVIDER_COMPLETED" ELSE "RUNNING",
              !.final = text]

Own(turns, r) == {t \in turns : t.id = r.turn}

(* _ingest_thread: only the retained turn is looked at.                    *)
IngestThread(k, turns) ==
    LET own == Own(turns, View(k)) IN
    \/ /\ own = {}
       /\ Goto(k, "draining")
       /\ UNCHANGED <<store, job>>
    \/ \E t \in own :
          LET r == Observed(View(k), t.completed, t.text) IN
          \/ /\ Update(k, r)
             /\ Goto(k, "draining")
             /\ UNCHANGED job
          \/ /\ Refused(k, r.status)
             /\ Raise(k)
             /\ UNCHANGED store

(* thread/read, for resume with thread/resume when the thread is not       *)
(* loaded.  It fails, reports a status resume does not support, exceeds    *)
(* the byte bound, or lists turns.                                         *)
ReadThread(k) ==
    /\ pc[k] = "reading"
    /\ \/ Raise(k) /\ UNCHANGED store
       \/ /\ job[k].command = "resume"
          /\ MarkIndeterminate(k, "observing")
       \/ MarkIndeterminate(k, "draining")
       \/ \E turns \in SUBSET History(View(k).thread) : IngestThread(k, turns)
    /\ UNCHANGED <<link, provider>>

----------------------------------------------------------------------------
(* Draining, the acquisition cut and the receipt.                          *)

(* _drain begins: a lost frame makes the attempt INDETERMINATE and both    *)
(* queues are thrown away.                                                 *)
DrainDiagnostics(p) ==
    /\ pc[p] = "draining"
    /\ link[p].diagnostics
    /\ \/ /\ Update(p, [View(p) EXCEPT !.status = "INDETERMINATE"])
          /\ SetLink(p, [link[p] EXCEPT !.diagnostics = FALSE,
                                        !.requests = <<>>, !.notes = <<>>])
          /\ Goto(p, job[p].back)
          /\ UNCHANGED job
       \/ /\ Refused(p, "INDETERMINATE")
          /\ SetLink(p, [link[p] EXCEPT !.diagnostics = FALSE])
          /\ DrainRaises(p)
    /\ UNCHANGED provider

DrainQueues(p) ==
    /\ pc[p] = "draining"
    /\ ~link[p].diagnostics
    /\ Goto(p, IF View(p).status = "INDETERMINATE" THEN job[p].back ELSE "requests")
    /\ UNCHANGED <<store, job, link, provider>>

(* An approval request is surfaced, never answered.                        *)
TakeRequest(p) ==
    /\ pc[p] = "requests"
    /\ link[p].requests # <<>>
    /\ SetLink(p, [link[p] EXCEPT !.requests = Tail(@)])
    /\ LET ask == Head(link[p].requests)
          own == ask.turn = View(p).turn
          refused == ask.huge /\ ask.turn = View(p).thread
       IN  \/ refused /\ MarkIndeterminate(p, job[p].back)
           \/ ~refused /\ ~own /\ DrainRaises(p)
           \/ /\ ~ask.huge
              /\ own
              /\ Update(p, [View(p) EXCEPT !.status = "WAITING_APPROVAL"])
              /\ UNCHANGED <<pc, job>>
           \/ /\ ~ask.huge
              /\ own
              /\ Refused(p, "WAITING_APPROVAL")
              /\ DrainRaises(p)
    /\ UNCHANGED provider

RequestsTaken(p) ==
    /\ pc[p] = "requests"
    /\ link[p].requests = <<>>
    /\ Goto(p, "notes")
    /\ UNCHANGED <<store, job, link, provider>>

(* What a notification makes of the row: the echo of the attempt's own     *)
(* input, or the completion of its own turn; anything else is ignored.     *)
Noted(r, m) ==
    IF m.kind = "echo" THEN [r EXCEPT !.status = "RUNNING"]
                       ELSE Observed(r, TRUE, m.text)

(* Mutant: the turn of a notification is not compared.                     *)
Mutant_Concerns(m, r) == r.status # "INDETERMINATE"

Concerns(m, r) == r.status # "INDETERMINATE" /\ m.turn = r.turn

(* _notification                                                           *)
TakeNote(p) ==
    /\ pc[p] = "notes"
    /\ link[p].notes # <<>>
    /\ SetLink(p, [link[p] EXCEPT !.notes = Tail(@)])
    /\ LET m == Head(link[p].notes)
          r == Noted(View(p), m)
       IN  \/ m.kind = "huge" /\ MarkIndeterminate(p, job[p].back)
           \/ /\ m.kind # "huge"
              /\ ~Concerns(m, View(p))
              /\ UNCHANGED <<store, pc, job>>
           \/ /\ m.kind # "huge"
              /\ Concerns(m, View(p))
              /\ Update(p, r)
              /\ UNCHANGED <<pc, job>>
           \/ /\ m.kind # "huge"
              /\ Concerns(m, View(p))
              /\ Refused(p, r.status)
              /\ MarkIndeterminate(p, job[p].back)
    /\ UNCHANGED provider

NotesTaken(p) ==
    /\ pc[p] = "notes"
    /\ link[p].notes = <<>>
    /\ Goto(p, job[p].back)
    /\ UNCHANGED <<store, job, link, provider>>

(* Mutant: the receipt does not wait for the acquisition cut.              *)
Mutant_Judge(k) ==
    /\ pc[k] = "judging"
    /\ Goto(k, IF View(k).final = "none" THEN "observing" ELSE "sealing")
    /\ UNCHANGED <<store, job, link, provider>>

(* collect looks for a final message once status has returned.             *)
Judge(k) ==
    /\ pc[k] = "judging"
    /\ Goto(k, IF View(k).final = "none" THEN "observing" ELSE "cutting")
    /\ UNCHANGED <<store, job, link, provider>>

(* _finalize_acquisition cuts the connection, then drains it.              *)
Cut(p) ==
    /\ pc[p] = "cutting"
    /\ Quiesce(p)
    /\ job' = [job EXCEPT ![p].back = "weighing"]
    /\ Goto(p, "draining")
    /\ UNCHANGED <<store, provider>>

(* _finalize_acquisition after its drain: an unclean cut settles the       *)
(* attempt as INDETERMINATE.                                               *)
Weigh(p) ==
    /\ pc[p] = "weighing"
    /\ IF link[p].clean \/ View(p).status = "INDETERMINATE"
         THEN Goto(p, AfterCut(p)) /\ UNCHANGED <<store, job>>
         ELSE MarkIndeterminate(p, AfterCut(p))
    /\ UNCHANGED <<link, provider>>

(* The rest of collect.                                                    *)
Seal(k) ==
    /\ pc[k] = "sealing"
    /\ \/ /\ View(k).status # "PROVIDER_COMPLETED"
          /\ Goto(k, "observing")
          /\ UNCHANGED <<store, job>>
       \/ /\ View(k).status = "PROVIDER_COMPLETED"
          /\ ~IsOutcome(View(k).final)
          /\ MarkIndeterminate(k, "observing")
       \/ /\ View(k).status = "PROVIDER_COMPLETED"
          /\ IsOutcome(View(k).final)
          /\ Update(k, [View(k) EXCEPT !.status = "TERMINAL",
                                       !.receipt = View(k).final])
          /\ Goto(k, "observing")
          /\ UNCHANGED job
    /\ UNCHANGED <<link, provider>>

(* observe drains until its deadline.                                      *)
Look(p) ==
    /\ pc[p] = "observing"
    /\ job' = [job EXCEPT ![p].back = "observing"]
    /\ Goto(p, "draining")
    /\ UNCHANGED <<store, link, provider>>

(* Mutant: an occurrence that only looked is not finalized.                *)
Mutant_Deadline(p) ==
    /\ pc[p] = "observing"
    /\ Goto(p, "finishing")
    /\ UNCHANGED <<store, job, link, provider>>

(* The deadline has passed: main finalizes the occurrence.                 *)
Deadline(p) ==
    /\ pc[p] = "observing"
    /\ job' = [job EXCEPT ![p].closing = TRUE]
    /\ Goto(p, "cutting")
    /\ UNCHANGED <<store, link, provider>>

(* The finally clause of main: finish_existing_occurrence commits.         *)
End(p) ==
    /\ IF lock = p THEN row' = draft /\ draft' = NoRow /\ lock' = NoId
                   ELSE UNCHANGED store
    /\ Exit(p)
    /\ UNCHANGED provider

Finish(p) == pc[p] = "finishing" /\ End(p)

(* KeyboardInterrupt, for one in the sleep of observe: no handler catches  *)
(* it, so the finally clause commits what the occurrence has written up to *)
(* there, although nothing was cut, drained or weighed.                    *)
Interrupt(p) == pc[p] \notin {"idle", "finishing"} /\ End(p)

----------------------------------------------------------------------------
(* start.                                                                  *)

Enter(s) ==
    /\ pc[s] = "idle"
    /\ Goto(s, "connecting")
    /\ UNCHANGED <<store, job, link, provider>>

(* Mutant: an attempt that is there is replaced.                           *)
Mutant_Admit(s) ==
    /\ pc[s] = "acting"
    /\ lock = NoId
    /\ row' = FreshRow
    /\ Goto(s, "threading")
    /\ UNCHANGED <<draft, lock, job, link, provider>>

(* admit: the primary key refuses an attempt that is already there.        *)
Admit(s) ==
    /\ pc[s] = "acting"
    /\ \/ /\ row.status = "NONE"
          /\ Retain(s, FreshRow)
          /\ Goto(s, "threading")
          /\ UNCHANGED job
       \/ /\ row.status # "NONE"
          /\ Raise(s)
          /\ UNCHANGED store
    /\ UNCHANGED <<link, provider>>

(* thread/start: an exception may come before or after its effect.         *)
StartThread(s) ==
    /\ pc[s] = "threading"
    /\ \/ turn' = [turn EXCEPT ![s] = "thread"] /\ Goto(s, "keepThread")
       \/ turn' = [turn EXCEPT ![s] = "thread"] /\ Goto(s, "losing")
       \/ turn' = turn /\ Goto(s, "losing")
    /\ UNCHANGED <<store, job, link, answer, sent>>

KeepThread(s) ==
    /\ pc[s] = "keepThread"
    /\ \/ /\ Update(s, [row EXCEPT !.thread = s, !.status = "STARTING"])
          /\ Goto(s, "turning")
       \/ /\ Refused(s, "STARTING")
          /\ Goto(s, "losing")
          /\ UNCHANGED store
    /\ UNCHANGED <<job, link, provider>>

(* turn/start *)
StartTurn(s) ==
    /\ pc[s] = "turning"
    /\ \/ turn' = [turn EXCEPT ![s] = "running"] /\ Goto(s, "keepTurn")
       \/ turn' = [turn EXCEPT ![s] = "running"] /\ Goto(s, "losing")
       \/ turn' = turn /\ Goto(s, "losing")
    /\ UNCHANGED <<store, job, link, answer, sent>>

KeepTurn(s) ==
    /\ pc[s] = "keepTurn"
    /\ \/ /\ Update(s, [row EXCEPT !.turn = s, !.status = "RUNNING"])
          /\ Goto(s, "recording")
       \/ /\ Refused(s, "RUNNING")
          /\ Goto(s, "losing")
          /\ UNCHANGED store
    /\ UNCHANGED <<job, link, provider>>

(* The events provider_identity and worker_started.                        *)
RecordStart(s) ==
    /\ pc[s] = "recording"
    /\ CanWrite(s)
    /\ Goto(s, "observing")
    /\ UNCHANGED <<store, job, link, provider>>

(* The exception handler of start.                                         *)
LoseStart(s) ==
    /\ pc[s] = "losing"
    /\ MarkIndeterminate(s, "observing")
    /\ UNCHANGED <<link, provider>>

(* An occurrence keeps the lock for longer than SQLite waits.  Within the  *)
(* try of start that is handled, elsewhere it ends the command.            *)
Busy(s) ==
    /\ ~CanWrite(s)
    /\ \/ /\ pc[s] \in {"keepThread", "keepTurn", "recording"}
          /\ Goto(s, "losing")
          /\ UNCHANGED <<job, link>>
       \/ /\ pc[s] \in {"acting", "losing", "draining", "requests", "notes", "weighing"}
          /\ Exit(s)
    /\ UNCHANGED <<store, provider>>

----------------------------------------------------------------------------
(* Around the commands.                                                    *)

(* A command dies; SQLite rolls an uncommitted occurrence back.            *)
Crash(p) ==
    /\ pc[p] # "idle"
    /\ IF lock = p THEN draft' = NoRow /\ lock' = NoId /\ UNCHANGED row
                   ELSE UNCHANGED store
    /\ Exit(p)
    /\ UNCHANGED provider

(* The worker speaks, and ends its turn with or without an outcome.        *)
Work(s) ==
    /\ turn[s] = "running"
    /\ \/ /\ answer[s] = "none"
          /\ answer' = [answer EXCEPT ![s] = "partial"]
          /\ UNCHANGED turn
       \/ /\ turn' = [turn EXCEPT ![s] = "completed"]
          /\ \E text \in Answers : answer' = [answer EXCEPT ![s] = text]
    /\ UNCHANGED <<store, pc, job, link, sent>>

(* The readers of a connection enqueue what arrives, or lose it.           *)
Deliver(p) ==
    /\ link[p].open
    /\ sent < MaxDeliveries
    /\ sent' = sent + 1
    /\ \/ \E m \in Notices : SetLink(p, [link[p] EXCEPT !.notes = Append(@, m)])
       \/ \E ask \in Asks : SetLink(p, [link[p] EXCEPT !.requests = Append(@, ask)])
       \/ SetLink(p, [link[p] EXCEPT !.loss = TRUE, !.diagnostics = TRUE])
    /\ UNCHANGED <<store, pc, job, turn, answer>>

----------------------------------------------------------------------------

Init ==
    /\ row = NoRow
    /\ draft = NoRow
    /\ lock = NoId
    /\ pc = [p \in Procs |-> "idle"]
    /\ job = [p \in Procs |-> NoJob]
    /\ link = [p \in Procs |-> NoLink]
    /\ turn = [s \in Starters |-> "none"]
    /\ answer = [s \in Starters |-> "none"]
    /\ sent = 0

StartStep(s) ==
    \/ Admit(s) \/ StartThread(s) \/ KeepThread(s) \/ StartTurn(s)
    \/ KeepTurn(s) \/ RecordStart(s) \/ LoseStart(s) \/ Busy(s)

KeeperStep(k) ==
    \/ Begin(k) \/ GiveUp(k) \/ Resume(k) \/ Status(k) \/ ReadThread(k)
    \/ Judge(k) \/ Seal(k)

CommonStep(p) ==
    \/ SetupFails(p) \/ Connect(p) \/ ConnectFails(p)
    \/ DrainDiagnostics(p) \/ DrainQueues(p) \/ TakeRequest(p) \/ RequestsTaken(p)
    \/ TakeNote(p) \/ NotesTaken(p) \/ Cut(p) \/ Weigh(p) \/ Look(p) \/ Finish(p)

Next ==
    \/ \E s \in Starters : Enter(s) \/ StartStep(s) \/ Work(s)
    \/ \E k \in Keepers : Preflight(k) \/ KeeperStep(k)
    \/ \E p \in Procs : CommonStep(p) \/ Deadline(p) \/ Crash(p) \/ Interrupt(p) \/ Deliver(p)

Spec == Init /\ [][Next]_vars

----------------------------------------------------------------------------
(* Properties.                                                             *)

(* Every variable stays within its range.                                  *)
TypeOK ==
    /\ row \in Row /\ draft \in Row
    /\ lock \in Keepers \cup {NoId}
    /\ pc \in [Procs -> Places]
    /\ job \in [Procs -> Job]
    /\ link \in [Procs -> Link]
    /\ turn \in [Starters -> {"none", "thread", "running", "completed"}]
    /\ answer \in [Starters -> Texts]
    /\ sent \in 0..MaxDeliveries

(* Whatever is sent twice, late, or about another turn, a receipt is the   *)
(* final message of the attempt's own turn, and that turn is over.         *)
ReceiptIsTheAnswer ==
    row.receipt # "none" =>
        \E s \in Starters : /\ row.turn = s
                            /\ turn[s] = "completed"
                            /\ answer[s] = row.receipt

(* However often start is given and wherever it dies, a thread, and so a   *)
(* turn, is only ever asked for when no start has asked for one before.    *)
OneThreadPerAttempt ==
    [][\A s \in Starters : pc[s] = "threading" /\ pc'[s] = "keepThread"
                           => \A t \in Starters : turn[t] = "none"]_vars

(* No step of any command leaves INDETERMINATE or TERMINAL or changes a    *)
(* receipt: not a later read, a queued notification, a second start or an  *)
(* occurrence that began before the attempt was settled.                   *)
SettledStays ==
    [][row.status \in Settled =>
         row'.status = row.status /\ row'.receipt = row.receipt]_vars

(* A receipt is only written after a cut with no loss, when everything the *)
(* connection delivered before that cut has been taken into account, and   *)
(* left the turn completed: not when an approval request or an echo came   *)
(* after the completion whose final message is still retained.             *)
SealsOnCleanCut ==
    [][\A k \in Keepers :
         /\ draft.status # "TERMINAL"
         /\ draft'.status = "TERMINAL"
         /\ pc[k] = "sealing" /\ pc'[k] # "sealing"
         => /\ draft.status = "PROVIDER_COMPLETED"
            /\ link[k].clean /\ ~link[k].open
            /\ link[k].requests = <<>> /\ link[k].notes = <<>>]_vars

(* No finalization overlooks a loss: when an occurrence that lost a frame  *)
(* comes to its commit through finalize_occurrence, at its deadline or     *)
(* after an exception of the command or of the finalization itself, the    *)
(* attempt is settled.  An interrupt commits without a finalization, and   *)
(* may leave an attempt open behind a loss: nothing is claimed of it.      *)
FinalizationSettlesLoss ==
    \A k \in Keepers : pc[k] = "finishing" /\ link[k].loss => View(k).status \in Settled

----------------------------------------------------------------------------
(* Refinement.                                                             *)

Promise == INSTANCE AttemptCustody WITH
    Answers <- Answers,
    Receivable <- {"valid"},
    NoAnswer <- "none",
    phase <- CASE row.status = "NONE" -> "absent"
               [] row.status = "INDETERMINATE" -> "lost"
               [] row.status = "TERMINAL" -> "sealed"
               [] OTHER -> "open",
    answer <- IF \E s \in Starters : turn[s] = "completed"
                THEN <<answer[CHOOSE s \in Starters : turn[s] = "completed"]>>
                ELSE <<>>,
    receipt <- row.receipt

(* The adapter keeps the promise of AttemptCustody.                        *)
ImplementsAttemptCustody == Promise!Spec

=============================================================================
