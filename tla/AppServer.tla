----------------------------- MODULE AppServer -----------------------------
(***************************************************************************)
(* The App Server client (appserver.py): a caller sends requests and takes *)
(* what was acquired, two reader threads read the streams of the child     *)
(* process, and quiesce_acquisition ends with a cut that says whether      *)
(* everything the child wrote was retained.                                *)
(*                                                                         *)
(* Every envelope draws an ordinal under the acquisition lock, so drawing  *)
(* one is a single step; what is done outside that lock is a step of its   *)
(* own.  The child is external: it answers what it was sent, says what it  *)
(* likes, and may end, or leave a descendant holding its streams, at any   *)
(* moment.  A client has one caller, as its users have.                    *)
(***************************************************************************)
EXTENDS Naturals, Sequences, FiniteSets

CONSTANTS
    MaxRequests,        \* requests the caller sends; the last is turn/start
    MaxFrames,          \* bound on the frames the child writes
    PipeFrames,         \* how many of them its pipe holds unread
    MaxCuts,            \* bound on the calls of quiesce_acquisition
    OrderedItems,       \* capacity of the ordered queue
    MessageItems,       \* capacity of the queue of each kind of message
    Vocabulary          \* the frames the child may write

Id == 1..MaxRequests
TurnStart == MaxRequests

(* A large frame is above the retained-event bound: a notification of that *)
(* size is admitted only as output of the turn that was started.  A bad    *)
(* frame is oversized, unterminated, not JSON or of no known shape.  An    *)
(* answer is a response with a result, to a request or to none (0).        *)
Frame == [kind : {"notification", "server request", "bad"}, id : {0}, large : BOOLEAN]
         \cup [kind : {"answer"}, id : Id \cup {0}, large : BOOLEAN]

ASSUME BoundsAssumption ==
    /\ {MaxRequests, MaxFrames} \subseteq Nat
    /\ {PipeFrames, OrderedItems, MessageItems, MaxCuts} \subseteq Nat \ {0}
    /\ MaxRequests > 1
ASSUME VocabularyAssumption == Vocabulary \subseteq Frame

VARIABLES
    acq,                \* ordinals, retained envelopes, losses
    queues,             \* how full the queue of each kind of message is
    pending,            \* requests whose response is waited for
    reply,              \* responses put before their caller
    caller,             \* where the caller stands
    reader,             \* the stdout reader
    errReader,          \* the stderr reader
    child,              \* the process and its ends of the pipes
    wire,               \* the frames it wrote to stdout, in order
    cut                 \* what quiesce_acquisition returned last

vars == <<acq, queues, pending, reply, caller, reader, errReader, child, wire, cut>>

----------------------------------------------------------------------------
(* Acquisition.                                                            *)

(* An envelope of a request or of a frame of the wire.  Those of a loss    *)
(* have no content: they take an ordinal and room in the ordered queue.    *)
Envelope == [kind : {"request", "frame"}, of : Nat]

NoAcquisition == [next |-> 0, retained |-> <<>>, queued |-> 0, losses |-> 0]

HasRoom(a) == a.queued < OrderedItems

(* _next_ordered_locked: a refused envelope has drawn its ordinal.         *)
Draw(a, envelopes) ==
    IF HasRoom(a)
      THEN [a EXCEPT !.next = @ + 1, !.queued = @ + 1, !.retained = @ \o envelopes]
      ELSE [a EXCEPT !.next = @ + 1]

(* _record_loss_locked *)
Lost(a) == Draw([a EXCEPT !.losses = @ + 1], <<>>)

(* Mutant: an envelope the queue refuses is not counted as a loss.         *)
Mutant_Retain(a, e) == Draw(a, <<e>>)

Retain(a, e) == IF HasRoom(a) THEN Draw(a, <<e>>) ELSE Lost(Draw(a, <<e>>))

RequestOf(id) == [kind |-> "request", of |-> id]
FrameAt(n) == [kind |-> "frame", of |-> n]

----------------------------------------------------------------------------
(* The caller's requests.                                                  *)

Places == {"new", "idle", "registered", "writing", "waiting", "leaving", "initialized",
           "closing", "exiting", "terminating", "killing", "joining", "joiningErr",
           "cutting"}

Goto(place) == caller' = [caller EXCEPT !.pc = place]
Fail(place) == caller' = [caller EXCEPT !.pc = place, !.ok = FALSE]

(* start: the process and the reader threads, then initialize.             *)
Start ==
    /\ caller.pc = "new"
    /\ \/ /\ child' = [child EXCEPT !.state = "running", !.stdin = TRUE,
                                   !.stdout = TRUE]
          /\ reader' = [reader EXCEPT !.state = "running"]
          /\ errReader' = [errReader EXCEPT !.state = "running"]
          /\ caller' = [caller EXCEPT !.pc = "registered", !.id = 1]
          /\ pending' = {1}
       \/ Fail("idle") /\ UNCHANGED <<child, reader, errReader, pending>>
    /\ UNCHANGED <<acq, queues, reply, wire, cut>>

Register ==
    /\ caller.pc = "idle"
    /\ caller.cuts = 0
    /\ child.state # "absent"
    /\ caller.id < MaxRequests
    /\ caller' = [caller EXCEPT !.pc = "registered", !.id = @ + 1, !.ok = TRUE]
    /\ pending' = pending \cup {caller.id + 1}
    /\ UNCHANGED <<acq, queues, reply, reader, errReader, child, wire, cut>>

(* Mutant: the request is written first and retained when it was.          *)
Mutant_Custody ==
    /\ caller.pc = "registered"
    /\ \/ Fail("leaving") /\ UNCHANGED <<acq, child>>
       \/ /\ child' = [child EXCEPT !.received = @ \cup {caller.id}]
          /\ acq' = Retain(acq, RequestOf(caller.id))
          /\ IF HasRoom(acq) THEN Goto("waiting") ELSE Fail("leaving")
    /\ UNCHANGED <<queues, pending, reply, reader, errReader, wire, cut>>

(* _write before it writes: a request outside its bounds is refused, one   *)
(* the ordered queue has no room for is a loss.                            *)
Custody ==
    /\ caller.pc = "registered"
    /\ \/ Fail("leaving") /\ UNCHANGED acq
       \/ /\ acq' = Retain(acq, RequestOf(caller.id))
          /\ IF HasRoom(acq) THEN Goto("writing") ELSE Fail("leaving")
    /\ UNCHANGED <<queues, pending, reply, reader, errReader, child, wire, cut>>

(* The write itself, which ends when the child has room for it or is gone. *)
Write ==
    /\ caller.pc = "writing"
    /\ \/ /\ child.state = "running"
          /\ child' = [child EXCEPT !.received = @ \cup {caller.id}]
          /\ Goto("waiting")
       \/ Fail("leaving") /\ UNCHANGED child
    /\ UNCHANGED <<acq, queues, pending, reply, reader, errReader, wire, cut>>

(* response_queue.get *)
Answered ==
    /\ caller.pc = "waiting"
    /\ \/ /\ caller.id \in reply
          /\ reply' = reply \ {caller.id}
          /\ Goto("leaving")
       \/ /\ caller.id \notin reply
          /\ Fail("leaving")
          /\ UNCHANGED reply
    /\ UNCHANGED <<acq, queues, pending, reader, errReader, child, wire, cut>>

(* The end of request: the caller too learns which turn was started.       *)
(* start quiesces when initialize fails.                                   *)
Leave ==
    /\ caller.pc = "leaving"
    /\ pending' = pending \ {caller.id}
    /\ reader' = [reader EXCEPT !.selected = @ \/ (caller.ok /\ caller.id = TurnStart)]
    /\ Goto(IF caller.id > 1 THEN "idle"
            ELSE IF caller.ok THEN "initialized" ELSE "closing")
    /\ UNCHANGED <<acq, queues, reply, errReader, child, wire, cut>>

(* The notification "initialized" is written without an envelope.          *)
Initialized ==
    /\ caller.pc = "initialized"
    /\ Goto("idle") \/ Fail("closing")
    /\ UNCHANGED <<acq, queues, pending, reply, reader, errReader, child, wire, cut>>

(* drain_ordered_acquisition *)
Drain ==
    /\ caller.pc = "idle"
    /\ acq.queued > 0
    /\ acq' = [acq EXCEPT !.queued = 0]
    /\ UNCHANGED <<queues, pending, reply, caller, reader, errReader, child, wire, cut>>

----------------------------------------------------------------------------
(* The reader threads.                                                     *)

Admissible(f) == f.large => f.kind = "notification" /\ reader.selected

(* Mutant: a message is put in its queue before the queue is looked at.    *)
Mutant_Offer(f) ==
    /\ queues' = [queues EXCEPT ![f.kind] = @ + 1]
    /\ acq' = IF queues[f.kind] < MessageItems
                THEN Retain(acq, FrameAt(reader.seen + 1)) ELSE Lost(acq)

(* _offer_message: a message takes a place in the queue of its kind, which *)
(* nobody empties during an ordered acquisition, and one in the ordered    *)
(* queue.                                                                  *)
Offer(f) ==
    IF queues[f.kind] < MessageItems
      THEN /\ queues' = [queues EXCEPT ![f.kind] = @ + 1]
           /\ acq' = Retain(acq, FrameAt(reader.seen + 1))
      ELSE acq' = Lost(acq) /\ UNCHANGED queues

(* Mutant: the turn is only known when the caller has returned.            *)
Mutant_Selects(f) == FALSE

(* The response to turn/start names the turn whose output may be large.    *)
Selects(f) == f.id = TurnStart

(* One turn of _read_stdout_loop up to the acquisition lock.  A response   *)
(* is looked up among the pending requests and handed over later.          *)
ReadFrame ==
    /\ reader.state = "running"
    /\ reader.held = 0
    /\ reader.seen < Len(wire)
    /\ LET f == wire[reader.seen + 1]
           found == f.kind = "answer" /\ f.id \in pending
       IN  /\ reader' = [reader EXCEPT !.seen = @ + 1,
                                       !.held = IF found THEN reader.seen + 1 ELSE 0,
                                       !.selected = @ \/ (found /\ Selects(f))]
           /\ \/ found /\ UNCHANGED <<acq, queues>>
              \/ f.kind \in DOMAIN queues /\ Admissible(f) /\ Offer(f)
              \/ /\ ~found
                 /\ f.kind \in DOMAIN queues => ~Admissible(f)
                 /\ acq' = Lost(acq)
                 /\ UNCHANGED queues
    /\ UNCHANGED <<pending, reply, caller, errReader, child, wire, cut>>

(* The rest of it: the caller gets a response whether it was retained or   *)
(* not; a second one finds its queue full.                                 *)
HandOver ==
    /\ reader.held # 0
    /\ LET f == wire[reader.held]
           kept == IF f.large THEN Lost(acq) ELSE Retain(acq, FrameAt(reader.held))
       IN  /\ acq' = IF f.id \in reply THEN Lost(kept) ELSE kept
           /\ reply' = reply \cup {f.id}
    /\ reader' = [reader EXCEPT !.held = 0]
    /\ UNCHANGED <<queues, pending, caller, errReader, child, wire, cut>>

EndOfFile ==
    /\ reader.state = "running"
    /\ reader.held = 0
    /\ reader.seen = Len(wire)
    /\ ~child.stdout
    /\ reader' = [reader EXCEPT !.state = "CLEAN_EOF"]
    /\ UNCHANGED <<acq, queues, pending, reply, caller, errReader, child, wire, cut>>

(* A frame the parser raises on in no way the loop expects: the thread     *)
(* notes its disposition, and the loss in a step of its own.               *)
ReaderFails ==
    /\ reader.state = "running"
    /\ reader.held = 0
    /\ reader.seen < Len(wire)
    /\ wire[reader.seen + 1].kind = "bad"
    /\ reader' = [reader EXCEPT !.state = "failing", !.seen = @ + 1]
    /\ UNCHANGED <<acq, queues, pending, reply, caller, errReader, child, wire, cut>>

ReaderEnds ==
    /\ reader.state = "failing"
    /\ reader' = [reader EXCEPT !.state = "FAILURE"]
    /\ acq' = Lost(acq)
    /\ UNCHANGED <<queues, pending, reply, caller, errReader, child, wire, cut>>

(* _read_stderr_loop: a line, whenever it was written, is refused for its  *)
(* size or by a queue that nobody empties.  Other lines change nothing.    *)
RefuseLine ==
    /\ errReader.state = "running"
    /\ Len(wire) + errReader.refused < MaxFrames
    /\ errReader' = [errReader EXCEPT !.refused = @ + 1]
    /\ acq' = Lost(acq)
    /\ UNCHANGED <<queues, pending, reply, caller, reader, child, wire, cut>>

(* The last process that holds stderr closes it.                           *)
EndOfErrors ==
    /\ errReader.state = "running"
    /\ errReader' = [errReader EXCEPT !.state = "CLEAN_EOF"]
    /\ UNCHANGED <<acq, queues, pending, reply, caller, reader, child, wire, cut>>

----------------------------------------------------------------------------
(* quiesce_acquisition.  ok turns FALSE when the cut is not quiesced.      *)

NoCut == [quiesced |-> FALSE, losses |-> 0, disposition |-> "UNKNOWN", highWater |-> 0]

Quiesce ==
    /\ caller.pc = "idle"
    /\ caller.cuts < MaxCuts
    /\ \/ /\ child.state = "absent"
          /\ acq' = Lost(acq)
          /\ cut' = [quiesced |-> FALSE, losses |-> acq'.losses,
                     disposition |-> "ABSENT", highWater |-> acq'.next]
          /\ caller' = [caller EXCEPT !.cuts = @ + 1]
       \/ /\ child.state # "absent"
          /\ caller' = [caller EXCEPT !.pc = "closing", !.ok = TRUE]
          /\ UNCHANGED <<acq, cut>>
    /\ UNCHANGED <<queues, pending, reply, reader, errReader, child, wire>>

(* A failing stage of the cut is a loss, and the next stage follows.       *)
LoseStage(place) == Fail(place) /\ acq' = Lost(acq)

CloseInput ==
    /\ caller.pc = "closing"
    /\ \/ /\ child' = [child EXCEPT !.stdin = FALSE]
          /\ caller' = [caller EXCEPT !.pc = "exiting", !.ok = TRUE]
          /\ UNCHANGED acq
       \/ child.stdin /\ LoseStage("exiting") /\ UNCHANGED child
    /\ UNCHANGED <<queues, pending, reply, reader, errReader, wire, cut>>

Stages == {"exiting", "terminating", "killing"}
AfterStage == [exiting |-> "terminating", terminating |-> "killing", killing |-> "joining"]
Disposition == [exiting |-> "EXITED", terminating |-> "EXITED_AFTER_TERMINATE",
                killing |-> "EXITED_AFTER_KILL"]

(* Mutant: the first wait has no timeout.                                  *)
Mutant_AwaitExit ==
    /\ caller.pc \in Stages
    /\ child.state = "exited"
    /\ caller' = [caller EXCEPT !.pc = "joining", !.exit = Disposition[caller.pc]]
    /\ UNCHANGED <<acq, queues, pending, reply, reader, errReader, child, wire, cut>>

(* proc.wait: for the end of input, after terminate and after kill.        *)
AwaitExit ==
    /\ caller.pc \in Stages
    /\ \/ /\ child.state = "exited"
          /\ caller' = [caller EXCEPT !.pc = "joining", !.exit = Disposition[caller.pc]]
          /\ UNCHANGED acq
       \/ /\ child.state = "running"
          /\ caller' = [caller EXCEPT !.pc = AfterStage[caller.pc], !.ok = FALSE,
                                      !.exit = "EXIT_UNCONFIRMED"]
          /\ acq' = Lost(acq)
    /\ UNCHANGED <<queues, pending, reply, reader, errReader, child, wire, cut>>

(* Mutant: a reader that is still running when the join times out is taken *)
(* for one that has ended.                                                 *)
Mutant_Joined(thread) == thread.state \in {"running", "CLEAN_EOF"}

Joined(thread) == thread.state = "CLEAN_EOF"

(* reader.join, which may time out, and what the reader's end says.        *)
Join(place, thread, next) ==
    /\ caller.pc = place
    /\ \/ Joined(thread) /\ Goto(next) /\ UNCHANGED acq
       \/ ~Joined(thread) /\ LoseStage(next)
    /\ UNCHANGED <<queues, pending, reply, reader, errReader, child, wire, cut>>

JoinReader == Join("joining", reader, "joiningErr")
JoinErrReader == Join("joiningErr", errReader, "cutting")

TakeCut ==
    /\ caller.pc = "cutting"
    /\ cut' = [quiesced |-> caller.ok, losses |-> acq.losses,
               disposition |-> caller.exit, highWater |-> acq.next]
    /\ caller' = [caller EXCEPT !.pc = "idle", !.exit = "UNKNOWN", !.cuts = @ + 1]
    /\ UNCHANGED <<acq, queues, pending, reply, reader, errReader, child, wire>>

----------------------------------------------------------------------------
(* The child process.                                                      *)

(* It, or a descendant that holds its stdout, writes a frame.  It answers  *)
(* requests it has received, as often as it likes.                         *)
Emit ==
    /\ child.stdout
    /\ Len(wire) + errReader.refused < MaxFrames
    /\ Len(wire) - reader.seen < PipeFrames
    /\ \E f \in Vocabulary :
          /\ f.id \in child.received \cup {0}
          /\ wire' = Append(wire, f)
    /\ UNCHANGED <<acq, queues, pending, reply, caller, reader, errReader, child, cut>>

ChildExits ==
    /\ child.state = "running"
    /\ child' = [child EXCEPT !.state = "exited"]
    /\ UNCHANGED <<acq, queues, pending, reply, caller, reader, errReader, wire, cut>>

(* The last process that holds stdout closes it.                           *)
CloseStdout ==
    /\ child.stdout
    /\ child' = [child EXCEPT !.stdout = FALSE]
    /\ UNCHANGED <<acq, queues, pending, reply, caller, reader, errReader, wire, cut>>

----------------------------------------------------------------------------

Init ==
    /\ acq = NoAcquisition
    /\ queues = [k \in {"notification", "server request"} |-> 0]
    /\ pending = {}
    /\ reply = {}
    /\ caller = [pc |-> "new", id |-> 0, ok |-> TRUE, exit |-> "UNKNOWN", cuts |-> 0]
    /\ reader = [state |-> "NOT_STARTED", seen |-> 0, held |-> 0, selected |-> FALSE]
    /\ errReader = [state |-> "NOT_STARTED", refused |-> 0]
    /\ child = [state |-> "absent", stdin |-> FALSE, stdout |-> FALSE,
                received |-> {}]
    /\ wire = <<>>
    /\ cut = NoCut

QuiesceStep == CloseInput \/ AwaitExit \/ JoinReader \/ JoinErrReader \/ TakeCut

CallerStep == \/ Start \/ Register \/ Custody \/ Write \/ Answered \/ Leave
              \/ Initialized \/ Drain \/ Quiesce \/ QuiesceStep

ReaderStep == \/ ReadFrame \/ HandOver \/ EndOfFile \/ ReaderFails \/ ReaderEnds
              \/ RefuseLine \/ EndOfErrors

ChildStep == Emit \/ ChildExits \/ CloseStdout

Next == CallerStep \/ ReaderStep \/ ChildStep

(* A caller that has begun the cut is not held up: every wait in it has a  *)
(* timeout.  Nothing is assumed of the readers or of the child.            *)
Spec == Init /\ [][Next]_vars /\ WF_vars(QuiesceStep)

----------------------------------------------------------------------------
(* Properties.                                                             *)

ReaderStates == {"NOT_STARTED", "running", "failing", "CLEAN_EOF", "FAILURE"}
ExitDispositions == {"UNKNOWN", "ABSENT", "EXITED", "EXITED_AFTER_TERMINATE",
                     "EXITED_AFTER_KILL", "EXIT_UNCONFIRMED"}

(* Every variable stays within its range, and no reader is ahead of what   *)
(* was written.                                                            *)
TypeOK ==
    /\ acq \in [next : Nat, retained : Seq(Envelope), queued : 0..OrderedItems,
                losses : Nat]
    /\ acq.next >= Len(acq.retained) /\ acq.next >= acq.losses
    /\ queues \in [{"notification", "server request"} -> 0..MessageItems]
    /\ pending \subseteq Id /\ reply \subseteq Id
    /\ caller \in [pc : Places, id : 0..MaxRequests, ok : BOOLEAN,
                   exit : ExitDispositions, cuts : 0..MaxCuts]
    /\ reader \in [state : ReaderStates, seen : Nat, held : Nat, selected : BOOLEAN]
    /\ reader.held <= reader.seen /\ reader.seen <= Len(wire)
    /\ errReader \in [state : {"NOT_STARTED", "running", "CLEAN_EOF"},
                      refused : 0..MaxFrames]
    /\ child \in [state : {"absent", "running", "exited"}, stdin : BOOLEAN,
                  stdout : BOOLEAN, received : SUBSET (1..caller.id)]
    /\ wire \in Seq(Vocabulary)
    /\ cut \in [quiesced : BOOLEAN, losses : Nat, disposition : ExitDispositions,
                highWater : Nat]

(* The first n frames of the wire are retained in its order, and no        *)
(* ordinal was drawn for anything that was not.                            *)
Whole(n) ==
    LET frames == {i \in DOMAIN acq.retained : acq.retained[i].kind = "frame"}
    IN  /\ acq.next = Len(acq.retained)
        /\ {acq.retained[i].of : i \in frames} = 1..n
        /\ \A i, j \in frames : i < j => acq.retained[i].of < acq.retained[j].of

(* Whoever refuses what and when, as long as no loss is counted the        *)
(* evidence is whole: every frame read so far and every request the child  *)
(* received has an envelope, in the order of the wire and without a gap in *)
(* the ordinals.                                                           *)
EvidenceIsWhole ==
    acq.losses = 0 =>
        /\ reader.state # "failing" =>
              Whole(IF reader.held = 0 THEN reader.seen ELSE reader.seen - 1)
        /\ \A id \in child.received :
              \E i \in DOMAIN acq.retained : acq.retained[i] = RequestOf(id)

(* A quiesced cut with no loss says that the child is gone, that all it    *)
(* ever wrote is retained, and it stays true: nothing is acquired later.   *)
CleanCutIsComplete ==
    cut.quiesced /\ cut.losses = 0 =>
        /\ child.state = "exited" /\ ~child.stdout
        /\ cut.highWater = acq.next
        /\ acq.losses = 0
        /\ Whole(Len(wire))

(* Custody comes before contact: a response is retained only after the     *)
(* request it answers, however fast the child answers.                     *)
AnswerFollowsRequest ==
    \A i \in DOMAIN acq.retained :
        LET e == acq.retained[i] IN
        e.kind = "frame" /\ wire[e.of].kind = "answer" =>
            \E j \in 1..(i - 1) : acq.retained[j] = RequestOf(wire[e.of].id)

(* Once the response to turn/start has reached the evidence, the output of *)
(* that turn is not refused for its size, even before the caller knows of  *)
(* the response.                                                           *)
TurnOutputIsKept ==
    [][\A i \in DOMAIN acq.retained :
         LET f == wire[reader.seen + 1] IN
         /\ acq.retained[i].kind = "frame"
         /\ wire[acq.retained[i].of].kind = "answer"
         /\ wire[acq.retained[i].of].id = TurnStart
         /\ reader'.seen = reader.seen + 1
         /\ f.kind = "notification" /\ f.large
         /\ queues["notification"] < MessageItems
         /\ HasRoom(acq)
         => acq'.losses = acq.losses]_vars

(* Whatever the child and the readers do or do not do, a cut is taken.     *)
QuiesceEnds == caller.pc = "closing" ~> caller.pc = "idle"
=============================================================================
