# Switchyard runtime: specification and proofs

TLA+ models of the Switchyard runtime (`src/src/switchyard`), the TLC runs that
check them on small instances, and theorems about them that TLAPS proves for
every instance.  Paths below are relative to `src/`; `direct_api.py` stands for
`src/switchyard/direct_api.py`, and so on.

Switchyard runs one *dispatch occurrence* for an enrolled caller: one bounded
piece of work sent at most once to a provider, with a durable record of what is
known of its outcome.  Three bridges do this: the direct API bridge (one HTTP
request), the bounded provider runner (one turn of a Codex App Server) and the
Nightshift adapter (one attempt on an App Server, looked at by several
commands).  All are commands that run to completion and may be given again, so
concurrency is between *invocations* sharing one SQLite store, between an
invocation and the child process it started, and between the threads of the App
Server client.

## Inventory

| Component | State it keeps | Operations | Interacts with |
|---|---|---|---|
| Direct API bridge, `direct_api.py` | SQLite: runs, reservations, pinned budget terms; the record in memory; a transport child | claim, contact mark, isolated transport, classification, final record, release of the slot, inspect | provider (HTTP), caller's cancellation, other invocations through the store |
| Bounded provider runner, `provider_runner.py` | SQLite: `provider_runs`; record, mapper and client in memory | run, close-prelaunch, inspect, inspect-prelaunch, reconcile, preflight-request | App Server client, admission mapper, owner, other invocations |
| Provider admission mapper, `provider_admission.py` | pending request, open response, client requests, disposition, mechanism state, ordinals, evidence records, cut | consume an envelope, mark a loss, consume the cut, snapshot, replay | fed by the runner in order |
| App Server client, `appserver.py` | pending requests, bounded queues, ordinals, loss generation, two reader threads, a writer lock | start, request, notify, respond, drain, quiesce, close | App Server process over pipes; runner and adapter |
| Nightshift adapter, `nightshift_adapter.py` | SQLite: the attempt's row and event log; the uncommitted row of an occurrence | start, resume, status, collect, and the finalization behind each | App Server client, other commands through the store |
| Review verifier, `review_verifier.py` | none; reads two stores | verify one review | provider store, Foreman journal |
| Submission protocol, `submission_protocol.py` | none | validate a packet, check the dependency graph | caller |
| Descriptor custody, `fd_custody.py` | held descriptors | strict reads, exclusive writes, held SQLite file | any actor that can write below the root |
| Configuration, RFC 8785 (vendored), JSON schemas, export tools | none | | |

What makes each one correct, and what is hard about it:

* **Direct API bridge.** A dispatch is contacted at most once over all
  invocations, crashes and restarts; NOT_CONTACTED is never said of a contacted
  dispatch; a request that may be in flight holds a slot; slots and retained
  reservations never exceed the scope's terms; an ended record is final.
  Hard: crashes between the mark, the spawn and the request; children that
  survive their parent; two commits at the end; races of claims.
* **Provider runner.** One turn per dispatch and none for a closed one; the
  thread is durable before the turn; a known outcome is what really happened,
  however frames were lost or delayed; every command ends that gets its
  turn/start written.  Hard: run racing close-prelaunch, events after the loop,
  lost frames, failing updates.
* **Admission mapper.** Evidence admits an execution only for one exact,
  ordered request/response exchange; an indeterminate dispatch never becomes
  admitted again; a snapshot replays to itself.
* **App Server client.** Every frame read is queued with the next ordinal or
  accounted as a loss; a clean cut means nothing is missing; a response is
  retained after its request; every cut ends.  Hard: two readers, a writer and a drainer; full queues.
* **Nightshift adapter.** An attempt asks for one thread, however often start is
  given; TERMINAL and INDETERMINATE absorb; a receipt is the final message of
  the attempt's own completed turn, sealed behind a cut with no loss; a
  finalization never overlooks a loss.  Hard: an occurrence works on an
  uncommitted row and commits it after exceptions and interrupts too; queued messages are older or newer than what a read
  shows; start runs outside any occurrence.
* **Review verifier.** A review is accepted only on matching, unchanged custody.
* **Submission protocol.** Accepts exactly the acyclic dependency graphs.
* **Descriptor custody.** A read returns one version of one file.

`PROJECT.json` lists the hazards with their lines and the properties aimed at
each.

## Modules

| Module | Models |
|---|---|
| `DispatchCustody` | the abstract promise of both bridges about one dispatch |
| `DirectApi` | `direct_api.py`: store, run, isolated transport |
| `MCDirectApi` | its instances |
| `DirectApiProofs` | its theorems |
| `ProviderRunner` | `provider_runner.py`: store, run, close-prelaunch, and the App Server client and mapper as coarse as run reads them |
| `MCProviderRunner` | its instances |
| `ProviderRunnerProofs` | its theorems |
| `Admission` | `provider_admission.py`: the mapper, the cut and replay, fed as the client and the runner do |
| `MCAdmission` | its instances |
| `AdmissionProofs` | its theorems about one step: types, settlement, replay |
| `AdmissionHistoryProofs` | its theorems about whole histories: what a discrepancy, a disposition and a clean cut prove |
| `AppServer` | `appserver.py`: requests, reader threads, queues, ordinals, losses, the cut |
| `MCAppServer` | its instance |
| `AppServerProofs` | its theorems |
| `AttemptCustody` | the abstract promise of the adapter about one attempt |
| `NightshiftAdapter` | `nightshift_adapter.py`: store, start, resume, status, collect, finalization |
| `MCNightshiftAdapter` | its instance |
| `NightshiftAdapterProofs` | custody of the row, the occurrence and the connection, truth of the row, types, and the refinement |
| `Submission` | `submission_protocol.py`: the work items of a packet and the search for a cycle |
| `MCSubmission` | its instance |
| `SubmissionProofs` | the search is right |
| `DataLemmas` | lemmas on induction, recursion and sums, for the proofs |

`DispatchCustody` has one custody value per dispatch (ABSENT, CLAIMED, CLOSED,
UNCONTACTED, ANSWERED) and the count of contacts.  It allows one claim or one
closure, one contact under a claim, and one settlement; the last three values
are final.  `DirectApi` and `ProviderRunner` both implement it, as `INSTANCE
DispatchCustody WITH custody <- ...`.  `AttemptCustody` is the like for the
adapter, whose worker goes on when no command is there to see it: the worker
answers at most once, and the attempt is lost or sealed with that answer.

### DirectApi

Each process is one call of `run()` (567-703); a restart after a crash is
another process with the same request.  `pc[p]` follows the code from commit to
commit: a SQLite transaction is one action (`Claim` is the whole of
`RunStore.claim`, 390-478, with its validation, its duplicate path and its
ledger), and everything between two of them that no other actor sees is
joined to one of them.  `runs`, `reservations` and `config` are the three tables.  The
transport child is an actor of its own (`child[p]`): it may send its request
(`ChildSend`), be stopped, or live on after its parent (`OrphanExit`).
`contacts` is the ghost count of requests that went out.  The answer the
provider gave is chosen from a set of classes, and `AnswerRecord` classifies it
in the order of 613-697.  Token and money arithmetic of the admission
conditions is kept, since the ledger properties depend on it; texts, digests and JSON
layout are not.

### ProviderRunner

Each process is one command, `run`, `close-prelaunch` or `close-prelaunch
--failure-code REQUEST_PREFLIGHT_FAILED` (the only one that may create the
store, exclusively).  `file` distinguishes an absent store, a bare file without
table and a ready one.  `rows` is `provider_runs`.  The App Server of `p` is
external: it may emit any events in any order while a turn is at work, and may
exit at any time.  `wire[p]` is the ghost history of what it really did, with
what became of each frame: a MESSAGE, a reported LOSS, or MISSING (its ordinal
was drawn but it never reached the queue, `_next_ordered_locked`).  `Receive`
compares ordinals as the mapper does and `Observe` is the mapper's mechanism
state.  ADMITTED stands for one whole provider request and response.

### Admission

The mapper of one acquisition is a record with the fields of
`ProviderAdmissionMapper`; each handler is an operator from mapper and message
to the next mapper and the kind of record it retains, and `Atomic` is `_atomic`:
an operation that raises, or whose record is over the evidence bound, leaves
the mapper as it was, but for the registers of the bounded-turn-echo contract
(`echo`), which the checkpoint (358-402) leaves out.  These are the input selected
by turn/start, its item, the agent item under way, the items completed, their
bytes and the last of them.  A message carries the fields the handlers compare
with the mapper's state; `exact` stands for all the checks against the
binding and against constants.  `RawBound` is the 16 KiB of `_raw_custody`, `Selected`
the frames for which the contract grants more; a record takes the size of its
message, and `retained` is their sum.
`Acquire`, `AcquireLoss` and `MissFrame` are what the client can do with
a frame (retain it, report it lost, or draw its ordinal and lose it);
`Admits` is the client's own filter (`appserver.py:780`), which grants more than 16 KiB
once turn/start is `sent`.  `OperationFails` and `TakeCut` are what the runner does.
`replayed` is the mapper that `replay()` builds from the records retained so
far, one record behind another, so that `SnapshotReplays` speaks of a snapshot
taken after any step; it compares all that a snapshot holds, which the registers of
the echo are not part of.

`Legal` is the reference: it says of a history of messages, without a register,
which message may stand where.  `DiscrepancyIsExact` compares the two in both
directions.  A client request or response after a gap is left out, since the
runner first drains the queue when the last response is there; the byte bound of
the ordered queue, which a flood of large echoes could reach before that, is
therefore left aside.

### AppServer

The caller's requests (`Register`, `Custody`, `Write`, `Answered`, `Leave`) are
split where the code leaves a lock or waits.  `Custody` is `_write` up to the
pipe: the envelope of the request is queued before a byte is written.  An
ordinal is drawn under the acquisition lock, so `Draw`, `Retain` and `Lost` are
parts of one step.  `ReadFrame` is one turn of the stdout loop up to the
acquisition lock; a response found pending is handed over in a second step,
`HandOver`, between which the caller may give up.  `quiesce_acquisition` is one
step per stage, `CloseInput`, `AwaitExit` three times, two joins and `TakeCut`,
each of which may fail or time out with a loss.  The child is external: `wire`
is the ghost history of what it wrote, `Emit` allows any frame of the vocabulary
and answers to what it has received, any number of times.

Abstractions: the envelope of a loss takes an ordinal and room in the queue and
has no content; an error response is an answer; a retained stderr line
changes nothing and is left out, a refused one is a loss; terminate or kill
raising is the one loss of its stage; a large echo of user input is not in the
vocabulary of the instance; `respond`, `close` and queue bounds in bytes are left out.

### NightshiftAdapter

`row` is the committed row of the attempt, `draft` the uncommitted row of the
occurrence that holds `lock`, the store's writer lock (`BEGIN IMMEDIATE`,
673-689).  `Update` is `AdapterStore.update`, with its condition on the status
that is there.  A start command is not an occurrence: its updates are
transactions of their own, which wait for the lock and may give up (`Busy`).
`job[p].back` is where a call of `_drain` returns to, `closing` whether the
command is in the finalization of `main` (1371-1386), so that `Raise` can say where
an exception leads.  A KeyboardInterrupt is no `Exception`: `Interrupt` goes from any
place straight to the commit of the finally clause (1382-1386), which keeps what the
occurrence has written up to there although nothing was cut, drained or weighed.  An
attempt may then stay open behind a loss; `FinalizationSettlesLoss` speaks of the
other ways to the commit only.  A crash rolls back instead.  `_drain` is five kinds of step, since a message may arrive
and another command may act between any two of them.  `link[p]` is the client as the
adapter sees it: two queues, whether a frame was lost, the cut.  What an App
Server may say is bounded by the truth: it may call complete only
turns that are, with the answer they gave or without it (`Notices`,
`History`).

Contents are classes: a final message is a canonical outcome, is not one,
exceeds the bound, or belongs to another turn.  The event log is only
appended to and is left out.

### Submission

The recursive `visit` (`submission_protocol.py`) is a stack of visits with
what each has still to look at; the order in which Python goes through items
and dependencies is any order.  `SafeDepth` calls nest whatever the depth of the caller's own
stack; above it the interpreter may raise, which refuses nothing and accepts nothing.

## Runs

| Run | Instance | Shows |
|---|---|---|
| `direct_faults` | 3 invocations; 3 dispatches of one scope with two slots, under terms whose budget covers two or three of them; crashes, failing transactions, interrupts, orphans | one contact, truthful NOT_CONTACTED, slots, budget, ledger agreement, monotone store, refinement |
| `direct_orderly` | 2 invocations, reuse, refused and legacy requests, every class of answer, no faults, fairness | known outcomes give their slot back; every invocation ends |
| `direct_slot_leak` | 2 invocations, faults | a divergence from the documentation, below |
| `runner_faults` | 3 commands on one dispatch (run, run with another brief, two closures), crashes, failing updates, interrupts, lost frames | one turn, durable thread, answers, monotone store, refinement |
| `runner_evidence` | 2 runs of one dispatch, three events of six kinds, each heard, lost, or lost without trace | a known outcome is true |
| `runner_orderly` | 2 commands over two dispatches and a broken request, no faults, fairness | every command and its server end, unless held in the write of turn/start |
| `admission_turn` | up to 7 frames out of 27, room for 7 records | the mapper judges a history as the reference does, dispositions are proved and settled, a clean cut is complete |
| `admission_items` | up to 6 frames out of 15 under the bounded-turn-echo contract, room for 6 records or fewer large ones | the registers of the echo judge as the reference does; snapshots replay whatever a refused record leaves in them |
| `admission_echo` | the echo of a large input | a divergence from the documentation, below |
| `nightshift_attempt` | a start that may be given again, two later commands of any kind, crashes and interrupts at every step, one message or loss on any connection | one thread, settled attempts stay, receipts are true and sealed of a completed turn on a clean cut, no finalization overlooks a loss, refinement |
| `appserver_acquisition` | initialize and turn/start, 3 frames out of 7, queues of one and three places, one cut | evidence is whole or a loss is counted, a clean cut is complete, requests precede answers, output of the turn is kept, every cut ends |
| `submission_packets` | every packet of up to 3 items | the verdict is the existence of an order |

*Bounds.* Two invocations of one dispatch are enough for every race of a store
transaction with another; the third lets a claim meet a limit of two, of slots
under one pinning of the scope's terms and of budget under the other, and a
run, a restart and an owner's closure meet. Every dispatch has one claimant, so
one wire per claimant is enough, and three events are enough for an admission,
an end and something after it, or a refusal, a hidden retry and an end.
`MaxEvents` bounds the events of a turn, and the runs about custody, whose
properties do not read the events, use one. `MicrosCap` stands for the 10^12 of
`direct_api.py:168`, which TLC's 32-bit integers do not hold; no amount of the
instances comes near it. `ConstructFails`, `Crash` and the other failures are
guarded by `Faults`, so the runs without it show what holds when nothing fails.

For `Admission`, two exchanges are enough: the mapper treats every exchange
after the first alike, and a third would only count higher: seven frames hold two
exchanges and the end of the turn, or one with its client request, its response and
the cut. The records of seven frames and a cut or a failed operation exceed
the evidence bound, so that it is met; two instants would
not tell a time that is late for one boundary from one late for the other, so
there are three. The messages of the instances are honest ones, and ones that
differ from an honest one in what a single check looks at. Under the bounded-turn-echo
contract a large frame takes two units of room, so that the bound is met earlier and an operation
is refused after it has changed the registers of the echo; of the outputs, with one
and two units of text, those within the bound of two and those beyond it both occur.
turn/start and the large echo take the same room there: were turn/start the larger, it
could be refused for lack of room and a smaller echo be retained, which `replay()` would
judge without the input; the instance leaves this corner out.

For `NightshiftAdapter`, one start command suffices for a start given again,
since a process that ended or died starts over, and two later commands let one
begin before the other has settled the attempt; the commands are
interchangeable, so the run uses symmetry. One delivery is a foreign, early,
late, repeated or oversized message beside what `thread/read` shows, or one loss;
the proofs below hold for any number. For `AppServer`, two requests are the one
whose failure closes the client and the one that selects the turn; three frames
fill the message queue (one place) and, with the requests, the ordered queue
(three places), so that every offer meets both a free and a full queue. Three work
items with three identities give every graph with a cycle through one, two or three
items, and the proof covers the rest.

*Fairness.*  `DirectApi!FairSpec` and `ProviderRunner!FairSpec` ask only that an
invocation takes the steps that wait for nobody: it runs its own code, and the
waits it has (a transport deadline, a request timeout, the deadline of the
turn, the bounded waits of `quiesce_acquisition` with terminate and kill) end.
Nothing is assumed of the provider, the App Server or the child.

One wait of the runner has no end of its own: the write of a request to a pipe
(`appserver.py:452-457`).  initialize and thread/start are at most 16 KiB each by
`client_request_byte_bound`, so that the two fit an empty pipe of 64 KiB whether the
App Server reads or not, and their writes return.  turn/start carries the input
and may be as large as 256 KiB.  No step that leaves the place `writing`, where
turn/start is being written, is therefore assumed to happen: neither the end of
the write nor its failure, not even once the App Server has exited, since a
process it started may hold the pipe.  `EveryCommandEnds` says that this is the
only way for a command not to end: each command ends with its App Server, or stays in that
write for ever.

`AppServer!Spec` is weakly fair to the steps of the cut only: each wait in
`quiesce_acquisition` has a timeout. Requests are not claimed to end there, for the
same reason. The other specifications state no fairness.

*Divergences.*  `run()` of the direct bridge writes the final record
(`direct_api.py:700`) and gives the concurrency slot back (703) in two
transactions.  A crash or a failure between them leaves a known outcome with
its slot taken, for good, since a later call returns the retained record at
once.  `docs/DIRECT_API_OPENROUTER.md:59` says known outcomes release their
slot.  The run `direct_slot_leak` shows it.

With the bounded-turn-echo capture contract the client lets a user input echo
above 16 KiB through without comparing its turn (`appserver.py:785`), while the
mapper grants the larger bound only to its own turn.  It then records the
refusal with an ordinal and without the bytes (`provider_admission.py:693`),
which `replay()` reads as an envelope without message and records differently,
so the snapshot is refused as a substitution and `inspect` cannot answer.
`docs/BOUNDED_PROVIDER_CUSTODY_V1.md:86` says exact raw bytes and the snapshot
remain fully retained and replayed.  The run `admission_echo` shows it.

## Proofs

`DirectApiProofs` proves, for every set of invocations, requests and answers and
with faults on or off:

* `TypeCorrect`: `TypeOK`.
* `OneContact`, `UncontactedIsTrue`, `InFlightIsCounted`, from one inductive
  invariant `IInv`.  None of the three is inductive: that a second contact is
  impossible rests on who claimed a row, on the record in memory agreeing with
  the row until the invocation ends, on the durable mark preceding the child and
  on the child's state; `IInv` states these per process and per dispatch.
* `StoreIsMonotone`: the action property follows from `IInv` since only the
  claimant of a dispatch updates its row and only before it ended.
* `DirectApiImplementsCustody`: initial states map to initial states, and every
  step to a step or a stutter of `DispatchCustody`.
* `LimitIsKept`, `LedgerIsOne`: the ledger invariant `LedgerInv` adds that the
  reservations are finite in number (a claim adds one), that a reservation's
  scope has pinned terms and that they agree with the record's.
* `SpendIsBounded`: `SpendWithinBudget`, from `SpendInv`: a completed record's usage is
  within the limits of its request (`UsageInv`), a reservation covers the price of
  those limits (`AdmitInv`), and the reservations of a scope sum up to no more than its
  budget (`ReservedInBudget`).  Only the last is about a sum: a claim adds one
  reservation to it after comparing with the budget.
* `KnownOutcomeIsReleased`: `KnownOutcomeReleasesSlot` assuming `~Faults`.  `ReleaseInv` says
  that a slot still taken by a known outcome belongs to an invocation about to
  give it back.  The assumption cannot be dropped: with faults the run
  `direct_slot_leak` refutes the property.

The assumptions are those `DirectApi` names on its constants; TLC evaluates
them in each run.

`DataLemmas` is what the proofs need of data.  The library's induction theorems have
an operator parameter, which no installed prover instantiates; the lemmas take a set
of numbers (or of subsets) instead, so that a proof defines the set of those
for which its claim holds.  From them follow that a recursion over the subsets
of a finite set has one solution, what `FoldFunctionOnSet` and the folds over
`1 .. n` compute, and that a sum takes its summands in any order and grows
with them.

`NightshiftAdapterProofs` proves, for any number of start commands, occurrences
and messages:

* `OneThread` and `SettledForever` from `IInv`, which says that the rows are rows,
  that a draft exists exactly while its occurrence holds the lock and is settled
  when the committed row is, and how far the one start that found no row
  has come; that a second start asks for nothing rests on the last part.
* `FinalizationSettles` and `SealedOnCleanCut` from `OInv`, which adds what each place of a
  command implies for its connection: what a command has taken into account
  when it comes to weigh the cut is all there was, and a loss seen before then
  has either settled the attempt or left the cut unclean. The first is about
  commits behind a finalization; an interrupt commits without one, and the code
  does not settle what it leaves.

* `AdapterTypes`: `TypeOK`, which is inductive as it stands.

On top of them it proves, from `TruthInv`, that every text in a row, a draft or a
queue that is attributed to the attempt's turn is that turn's answer if the turn is
complete:

* `ReceiptIsOwn`: a receipt is the answer of the attempt's own completed turn.
* `CustodyImplemented`: initial states map to initial states and every step to a
  step or a stutter of `AttemptCustody`.

`SubmissionProofs` proves, for packets of any size, `SearchIsRight`: `VerdictIsRight`.
The invariant says that visited items are closed under dependencies,
that every visit on the stack depends on the next, and that the visited items are
ordered; a cycle found is then a group of items without a first one, and a group
without a first one cannot have been visited.

`ProviderRunnerProofs` proves, for any number of commands, dispatches and events,
with faults on or off:

* `OneTurn`, `ThreadIsRetainedFirst`, `AnswersAreKept`, `RowsAreMonotone` from
  `IInv`.  That a second turn is impossible rests on who claimed a row; that an
  answer is what the store retains, on the record in memory being behind the row only between
  two updates of the claimant.  `IInv` says per command where it may stand, given its
  store, its row and its App Server.
* `RunnerTypes`: `TypeOK`; what `drain` makes of a queue is a fold over its envelopes, whose
  value is a mapper by `DataLemmas`.
* `KnownOutcomesAreTrue`: `KnownOutcomeIsTrue`.  `EvidenceInv` says per command that the mapper has
  seen a prefix of the ghost history `wire`, and that what it holds is true of that
  history unless a loss is on record or a discrepancy stands; `TruthInv`, that a known
  outcome in the store has a witness: a command that returned, whose App Server has
  exited and whose history shows that outcome.  The second is kept since a command that
  returned, and the history of an App Server that exited, change no more.
* `RunnerImplementsCustody`: initial states map to initial states, and every step
  to a step or a stutter of `DispatchCustody`.

`AppServerProofs` proves, for queues of any size and any number of requests, frames
and cuts, the theorems `ClientTypes`, `EvidenceStaysWhole`,
`CleanCutStaysComplete`, `AnswersFollowRequests` and `TurnOutputStaysKept`.  Its
invariant `IInv` has a part per actor:
`ReaderInv`, where the reader is and what it holds; `FrameInv`, how retained envelopes point
into what the child wrote; `WholeInv`, that without a loss the retained frames are the
frames read, in order, which needs that a frame being handed over is the last one; `AskInv`, that
a request the child has received was retained before; `SelectInv`, that a retained response to turn/start
has selected the turn; and `CutInv`, what each stage of the cut has
established.  A clean cut stays complete because after it the child is gone, the reader at the end
of its stream and the acquisition closed.

`AdmissionProofs` proves, for every vocabulary of messages, capture contract and
bound:

* `MapperTypes` and `DispositionStaysSettled` from `Coherent`, which ties disposition,
  mechanism and identity together (admitted is the same as having an identity, an
  indeterminate mechanism as an indeterminate disposition): every handler
  `Moves` from a coherent mapper to a coherent one that settles what it had settled.
* `SnapshotsReplay`, that every snapshot replays, from `ReplayInv`, for every message
  an App Server may send. It leaves out one case: the bounded-turn-echo contract
  once turn/start is sent.  There the claim is false, as `admission_echo` shows. The
  live and the replayed mapper are not equal, since an operation that raises leaves its echo
  behind; they are equal but for the echo, and their echoes differ only when the mapper
  is disturbed or behind the ordinals (and will judge every frame of the
  App Server a discrepancy). In the case left out, that replay holds when every large
  echo names the turn is checked by `admission_items`.

`AdmissionHistoryProofs` proves, for histories of any length, any vocabulary of
messages, with the contract of bounded echoes or without:

* `DiscrepanciesAreExact`: until the cut the mapper counts a discrepancy exactly when
  what it consumed is not `Legal`, in both directions: nothing illegal passes and
  nothing legal is refused.
* `DispositionsAreProved`: disposition and identity are what the legal part of the
  history proves.
* `CleanCutsAreComplete`: a clean cut is only taken of a complete, legal and finished
  acquisition without loss.

The three rest on one invariant, `HistoryInv`.  While the mapper is undisturbed, `Tells` gives
each register its meaning in the history: the pending request is the one not yet
answered, the open response the one not yet complete, the completed and the seen
identities are those of the history, the mechanism says what has ended and the
client table holds the requests without a response.  `EchoTold` does the same for
the registers of the echo, but only while the mapper is level with the ordinals
drawn: an operation that raises leaves its echo behind, and then the next frame is
a gap whatever the echo says.  Once the mapper is disturbed, the history is
illegal and disposition and identity no longer change.  For each kind of message
there are two lemmas: the handler's condition holds exactly if the message is legal
after the history (`...IsLegal`), and if so the registers it leaves tell the longer
history (`...Tells`); `Follows` joins the two, and `EnvelopeChronicle`, `LossChronicle` and
`CutChronicle` lift it to what an operation retains.  TLC checked `HistoryInv` on the
instances of `admission_turn` and `admission_items` before it was proved.

Every safety property that a passing run checks is a theorem, but for `SnapshotReplays` under the
bounded-turn-echo contract once turn/start is sent, which is checked on the vocabulary of
`admission_items`.  Only model-checked are also the
liveness properties `EveryRunEnds`, `EveryCommandEnds` and `QuiesceEnds`: fairness and ENABLED
are out of the prover's reach.  What a module proves about one component says nothing
of its coarse stand-in in another (the App Server and the mapper within
`ProviderRunner`, see below).

## Not modelled

* The reading of files and the JSON field checks of the bridges (a request is
  valid or not; the conditions that relate amounts are kept), the in-process
  transport used by tests, `inspect` and `reconcile` (they only read; nothing in
  the store can change by them), wording of diagnostics.
* `consume()` without ordinals and the legacy local facts of the mapper: nothing in the
  package calls them but the replay of old records.
* `review_verifier.py`: one pass of comparisons over two stores read once, with no
  state and no step of another actor between two reads that it could miss
  beyond what the stores' own rows guarantee; that those rows are never changed after
  they ended is `RowsNeverLostOrReopened`.
* `fd_custody.py`: its promises are about what another process with the same rights does to
  directories and inodes while a descriptor is held; a model would be one of
  the kernel rather than of this code.
* Configuration, RFC 8785 canonicalization (vendored), JSON schemas, and the
  export and qualification tools: pure functions of files.
* The pipe to the App Server: a write returns or it does not (see Fairness), whatever
  its size is.

## Next

The composition of `AppServer` with `Admission` in place of the coarse App
Server of `ProviderRunner`, so that the runner's knowledge rests on the queues
and the cut as they are.
