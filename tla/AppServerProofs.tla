--------------------------- MODULE AppServerProofs ---------------------------
(***************************************************************************)
(* Theorems about AppServer, for any number of requests and frames, queues *)
(* of any size and any vocabulary of the child.                            *)
(***************************************************************************)
EXTENDS AppServer, TLAPS

----------------------------------------------------------------------------
(* Acquisition.                                                            *)

Acquisition == [next : Nat, retained : Seq(Envelope), queued : 0..OrderedItems,
                losses : Nat]

Sound(a) == /\ a \in Acquisition
            /\ a.next >= Len(a.retained)
            /\ a.next >= a.losses

(* A loss draws an ordinal and retains nothing.                            *)
LEMMA LostAcquisition ==
    ASSUME NEW a, Sound(a)
    PROVE  /\ Sound(Lost(a))
           /\ Lost(a).retained = a.retained
           /\ Lost(a).losses = a.losses + 1
<1>1. /\ a.next \in Nat /\ a.losses \in Nat /\ a.retained \in Seq(Envelope)
      /\ a.queued \in 0..OrderedItems /\ OrderedItems \in Nat
  BY BoundsAssumption DEF Sound, Acquisition
<1>2. a.retained \o <<>> = a.retained
  BY <1>1
<1>3. CASE HasRoom(a)
  <2>1. Lost(a) = [next |-> a.next + 1, retained |-> a.retained,
                   queued |-> a.queued + 1, losses |-> a.losses + 1]
    BY <1>2, <1>3 DEF Lost, Draw, HasRoom, Sound, Acquisition
  <2>2. a.queued + 1 \in 0..OrderedItems
    BY <1>1, <1>3 DEF HasRoom
  <2>3. QED
    BY <1>1, <1>2, <2>1, <2>2 DEF Sound, Acquisition
<1>4. CASE ~HasRoom(a)
  <2>1. Lost(a) = [next |-> a.next + 1, retained |-> a.retained,
                   queued |-> a.queued, losses |-> a.losses + 1]
    BY <1>4 DEF Lost, Draw, HasRoom, Sound, Acquisition
  <2>2. QED
    BY <1>1, <2>1 DEF Sound, Acquisition
<1>5. QED
  BY <1>3, <1>4

(* An envelope is retained behind the others, or a loss is counted.        *)
LEMMA RetainAcquisition ==
    ASSUME NEW a, Sound(a), NEW e \in Envelope
    PROVE  /\ Sound(Retain(a, e))
           /\ HasRoom(a) => /\ Retain(a, e).retained = Append(a.retained, e)
                            /\ Retain(a, e).losses = a.losses
                            /\ Retain(a, e).next = a.next + 1
           /\ ~HasRoom(a) => /\ Retain(a, e).retained = a.retained
                             /\ Retain(a, e).losses = a.losses + 1
<1>1. /\ a.next \in Nat /\ a.losses \in Nat /\ a.retained \in Seq(Envelope)
      /\ a.queued \in 0..OrderedItems /\ OrderedItems \in Nat
  BY BoundsAssumption DEF Sound, Acquisition
<1>2. CASE HasRoom(a)
  <2>1. Retain(a, e) = [next |-> a.next + 1, retained |-> a.retained \o <<e>>,
                        queued |-> a.queued + 1, losses |-> a.losses]
    BY <1>2 DEF Retain, Draw, Sound, Acquisition
  <2>2. a.queued + 1 \in 0..OrderedItems
    BY <1>1, <1>2 DEF HasRoom
  <2>3. /\ a.retained \o <<e>> = Append(a.retained, e)
        /\ Append(a.retained, e) \in Seq(Envelope)
        /\ Len(Append(a.retained, e)) = Len(a.retained) + 1
    BY <1>1
  <2>4. QED
    BY <1>1, <1>2, <2>1, <2>2, <2>3 DEF Sound, Acquisition
<1>3. CASE ~HasRoom(a)
  <2>1. Draw(a, <<e>>) = [a EXCEPT !.next = @ + 1]
    BY <1>3 DEF Draw
  <2>2. Sound([a EXCEPT !.next = @ + 1])
    BY <1>1 DEF Sound, Acquisition
  <2>3. Retain(a, e) = Lost([a EXCEPT !.next = @ + 1])
    BY <1>3, <2>1 DEF Retain
  <2>4. QED
    BY <1>1, <1>3, <2>2, <2>3, LostAcquisition DEF Sound, Acquisition
<1>4. QED
  BY <1>2, <1>3

----------------------------------------------------------------------------
(* The caller.                                                             *)

Caller == [pc : Places, id : 0..MaxRequests, ok : BOOLEAN,
           exit : ExitDispositions, cuts : 0..MaxCuts]

Requesting == {"registered", "writing", "waiting", "leaving", "initialized"}
Joining == {"joining", "joiningErr", "cutting"}
Closing == {"closing"} \cup Stages \cup Joining

(* A request has an identity and belongs to no cut; a cut that is taken is *)
(* one of those that may be.                                               *)
PlaceInv ==
    /\ caller.pc = "new" => /\ child.state = "absent" /\ caller.id = 0
                            /\ caller.cuts = 0 /\ ~cut.quiesced
                            /\ reader.state = "NOT_STARTED"
    /\ caller.pc \in Requesting => caller.id \in Id /\ caller.cuts = 0
    /\ caller.pc \in Closing => caller.cuts < MaxCuts

TypeInv == TypeOK /\ PlaceInv

(* Moving on changes nothing but the place.                                *)
LEMMA CallerMoves ==
    ASSUME caller \in Caller, NEW place \in Places
    PROVE  /\ Goto(place) =>
                /\ caller' \in Caller /\ caller'.pc = place /\ caller'.ok = caller.ok
                /\ caller'.id = caller.id /\ caller'.exit = caller.exit
                /\ caller'.cuts = caller.cuts
           /\ Fail(place) =>
                /\ caller' \in Caller /\ caller'.pc = place /\ ~caller'.ok
                /\ caller'.id = caller.id /\ caller'.exit = caller.exit
                /\ caller'.cuts = caller.cuts
BY DEF Goto, Fail, Caller

(* The steps of the caller outside a cut.                                  *)
LEMMA CallerTypes ==
    ASSUME TypeInv
    PROVE  /\ caller \in Caller /\ Sound(acq)
           /\ caller.pc \in Places /\ caller.id \in 0..MaxRequests
           /\ caller.cuts \in 0..MaxCuts /\ caller.ok \in BOOLEAN
           /\ caller.exit \in ExitDispositions
           /\ MaxCuts \in Nat \ {0} /\ MaxRequests \in Nat /\ MaxRequests > 1
           /\ OrderedItems \in Nat /\ TurnStart \in Id /\ 1 \in Id
           /\ Closing \subseteq Places /\ Requesting \subseteq Places
           /\ Closing \cap (Requesting \cup {"idle", "new"}) = {}
<1>1. /\ caller \in Caller /\ Sound(acq)
      /\ caller.pc \in Places /\ caller.id \in 0..MaxRequests
      /\ caller.cuts \in 0..MaxCuts /\ caller.ok \in BOOLEAN
      /\ caller.exit \in ExitDispositions
  BY DEF TypeInv, TypeOK, Caller, Sound, Acquisition
<1>2. /\ MaxCuts \in Nat \ {0} /\ MaxRequests \in Nat /\ MaxRequests > 1
      /\ OrderedItems \in Nat /\ TurnStart \in Id /\ 1 \in Id
  BY BoundsAssumption DEF TurnStart, Id
<1>3. /\ Closing \subseteq Places /\ Requesting \subseteq Places
      /\ Closing \cap (Requesting \cup {"idle", "new"}) = {}
  BY DEF Closing, Joining, Stages, Places, Requesting
<1>4. QED
  BY <1>1, <1>2, <1>3

LEMMA StartTypes ==
    ASSUME TypeInv, Start
    PROVE  TypeInv'
<1>1. CASE Fail("idle") /\ UNCHANGED <<child, reader, errReader, pending>>
  <2>1. "idle" \in Places
    BY DEF Places
  <2>2. /\ caller' \in Caller /\ caller'.pc = "idle" /\ caller'.id = caller.id
        /\ caller'.cuts = caller.cuts
    BY <1>1, <2>1, CallerTypes, CallerMoves
  <2>3. QED
    BY <1>1, <2>2, CallerTypes
       DEF Start, TypeInv, TypeOK, PlaceInv, Caller, Requesting, Closing, Stages, Joining
<1>2. CASE /\ child' = [child EXCEPT !.state = "running", !.stdin = TRUE,
                                     !.stdout = TRUE]
           /\ reader' = [reader EXCEPT !.state = "running"]
           /\ errReader' = [errReader EXCEPT !.state = "running"]
           /\ caller' = [caller EXCEPT !.pc = "registered", !.id = 1]
           /\ pending' = {1}
  <2>1. /\ caller' \in Caller /\ caller'.id = 1 /\ caller'.pc = "registered"
        /\ caller'.cuts = caller.cuts
    <3>1. "registered" \in Places /\ 1 \in 0..MaxRequests
      BY CallerTypes DEF Places
    <3>2. QED
      BY <1>2, <3>1, CallerTypes DEF Caller
  <2>2. child' \in [state : {"absent", "running", "exited"}, stdin : BOOLEAN,
                    stdout : BOOLEAN, received : SUBSET (1..caller'.id)]
    <3>1. child.received \in SUBSET (1..caller.id) /\ caller.id = 0
      BY DEF TypeInv, TypeOK, PlaceInv, Start
    <3>2. child.received \in SUBSET (1..1)
      BY <3>1
    <3>3. QED
      BY <1>2, <2>1, <3>2 DEF TypeInv, TypeOK
  <2>3. /\ reader' \in [state : ReaderStates, seen : Nat, held : Nat, selected : BOOLEAN]
        /\ reader'.held = reader.held /\ reader'.seen = reader.seen
        /\ errReader' \in [state : {"NOT_STARTED", "running", "CLEAN_EOF"},
                           refused : 0..MaxFrames]
    BY <1>2 DEF TypeInv, TypeOK, ReaderStates
  <2>4. pending' \subseteq Id /\ caller'.cuts = 0
    BY <1>2, <2>1, CallerTypes DEF Start, TypeInv, PlaceInv
  <2>5. TypeOK'
    BY <2>1, <2>2, <2>3, <2>4 DEF Start, TypeInv, TypeOK, Caller
  <2>6. PlaceInv'
    BY <2>1, <2>4, CallerTypes DEF PlaceInv, Requesting, Closing, Stages, Joining
  <2>7. QED
    BY <2>5, <2>6 DEF TypeInv
<1>3. QED
  BY <1>1, <1>2 DEF Start

LEMMA RegisterTypes ==
    ASSUME TypeInv, Register
    PROVE  TypeInv'
<1>1. /\ caller.id + 1 \in 0..MaxRequests /\ caller.id + 1 \in Id
      /\ "registered" \in Places /\ caller.cuts = 0
  BY CallerTypes DEF Register, Places, Id
<1>2. /\ caller' \in Caller /\ caller'.id = caller.id + 1
      /\ caller'.pc = "registered" /\ caller'.cuts = 0
  BY <1>1, CallerTypes DEF Register, Caller
<1>3. child' \in [state : {"absent", "running", "exited"}, stdin : BOOLEAN,
                  stdout : BOOLEAN, received : SUBSET (1..caller'.id)]
  <2>1. 1..caller.id \subseteq 1..caller'.id
    BY <1>2, CallerTypes
  <2>2. QED
    BY <2>1 DEF Register, TypeInv, TypeOK
<1>4. pending' \subseteq Id
  BY <1>1 DEF Register, TypeInv, TypeOK
<1>5. TypeOK'
  BY <1>2, <1>3, <1>4 DEF Register, TypeInv, TypeOK, Caller
<1>6. PlaceInv'
  BY <1>1, <1>2, CallerTypes DEF PlaceInv, Requesting, Closing, Stages, Joining
<1>7. QED
  BY <1>5, <1>6 DEF TypeInv

(* A step that moves the caller, and perhaps takes an ordinal, and leaves  *)
(* the rest alone.                                                         *)
LEMMA MoveTypes ==
    ASSUME TypeInv, caller' \in Caller, caller'.id = caller.id,
           Sound(acq'), PlaceInv',
           UNCHANGED <<queues, pending, reply, reader, errReader, child, wire, cut>>
    PROVE  TypeInv'
BY DEF TypeInv, TypeOK, Sound, Acquisition, Caller

LEMMA CustodyTypes ==
    ASSUME TypeInv, Custody
    PROVE  TypeInv'
<1>1. caller.pc = "registered" /\ caller.id \in Id /\ caller.cuts = 0
  BY DEF Custody, TypeInv, PlaceInv, Requesting
<1>2. \A place \in {"leaving", "writing"} :
        Goto(place) \/ Fail(place) =>
           /\ caller' \in Caller /\ caller'.pc = place
           /\ caller'.id = caller.id /\ caller'.cuts = 0
  BY <1>1, CallerTypes, CallerMoves DEF Places
<1>3. RequestOf(caller.id) \in Envelope
  BY CallerTypes DEF RequestOf, Envelope
<1>4. Sound(Retain(acq, RequestOf(caller.id)))
  BY <1>3, CallerTypes, RetainAcquisition
<1>5. /\ caller' \in Caller /\ caller'.pc \in {"leaving", "writing"}
      /\ caller'.id = caller.id /\ caller'.cuts = 0 /\ Sound(acq')
  BY <1>2, <1>4, CallerTypes DEF Custody
<1>6. PlaceInv'
  BY <1>1, <1>5, CallerTypes DEF PlaceInv, Requesting, Closing, Stages, Joining
<1>7. QED
  BY <1>5, <1>6, MoveTypes DEF Custody

LEMMA WriteTypes ==
    ASSUME TypeInv, Write
    PROVE  TypeInv'
<1>1. caller.pc = "writing" /\ caller.id \in Id /\ caller.cuts = 0
  BY DEF Write, TypeInv, PlaceInv, Requesting
<1>2. \A place \in {"leaving", "waiting"} :
        Goto(place) \/ Fail(place) =>
           /\ caller' \in Caller /\ caller'.pc = place
           /\ caller'.id = caller.id /\ caller'.cuts = 0
  BY <1>1, CallerTypes, CallerMoves DEF Places
<1>3. /\ caller' \in Caller /\ caller'.pc \in {"leaving", "waiting"}
      /\ caller'.id = caller.id /\ caller'.cuts = 0
  BY <1>2 DEF Write
<1>4. child' \in [state : {"absent", "running", "exited"}, stdin : BOOLEAN,
                  stdout : BOOLEAN, received : SUBSET (1..caller'.id)]
  <2>1. child.received \cup {caller.id} \in SUBSET (1..caller'.id)
    <3>1. child.received \in SUBSET (1..caller.id)
      BY DEF TypeInv, TypeOK
    <3>2. caller.id \in 1..caller.id
      BY <1>1, CallerTypes DEF Id
    <3>3. QED
      BY <1>3, <3>1, <3>2
  <2>2. QED
    BY <1>3, <2>1 DEF Write, TypeInv, TypeOK
<1>5. TypeOK'
  BY <1>3, <1>4 DEF Write, TypeInv, TypeOK, Caller
<1>6. PlaceInv'
  BY <1>1, <1>3, CallerTypes DEF PlaceInv, Requesting, Closing, Stages, Joining
<1>7. QED
  BY <1>5, <1>6 DEF TypeInv

LEMMA AnsweredTypes ==
    ASSUME TypeInv, Answered
    PROVE  TypeInv'
<1>1. caller.pc = "waiting" /\ caller.id \in Id /\ caller.cuts = 0
  BY DEF Answered, TypeInv, PlaceInv, Requesting
<1>2. /\ caller' \in Caller /\ caller'.pc = "leaving"
      /\ caller'.id = caller.id /\ caller'.cuts = 0
  BY <1>1, CallerTypes, CallerMoves DEF Places, Answered
<1>3. PlaceInv'
  BY <1>1, <1>2, CallerTypes DEF PlaceInv, Requesting, Closing, Stages, Joining
<1>4. TypeOK'
  BY <1>2 DEF Answered, TypeInv, TypeOK, Caller
<1>5. QED
  BY <1>3, <1>4 DEF TypeInv

LEMMA LeaveTypes ==
    ASSUME TypeInv, Leave
    PROVE  TypeInv'
<1>1. caller.pc = "leaving" /\ caller.id \in Id /\ caller.cuts = 0
  BY DEF Leave, TypeInv, PlaceInv, Requesting
<1>2. \A place \in {"idle", "initialized", "closing"} :
        Goto(place) =>
           /\ caller' \in Caller /\ caller'.pc = place
           /\ caller'.id = caller.id /\ caller'.cuts = 0
  BY <1>1, CallerTypes, CallerMoves DEF Places
<1>3. /\ caller' \in Caller /\ caller'.pc \in {"idle", "initialized", "closing"}
      /\ caller'.id = caller.id /\ caller'.cuts = 0
  BY <1>2 DEF Leave
<1>4. PlaceInv'
  BY <1>1, <1>3, CallerTypes DEF PlaceInv, Requesting, Closing, Stages, Joining
<1>5. /\ reader' \in [state : ReaderStates, seen : Nat, held : Nat, selected : BOOLEAN]
      /\ reader'.held = reader.held /\ reader'.seen = reader.seen
  BY CallerTypes DEF Leave, TypeInv, TypeOK
<1>6. TypeOK'
  BY <1>3, <1>5 DEF Leave, TypeInv, TypeOK, Caller
<1>7. QED
  BY <1>4, <1>6 DEF TypeInv

LEMMA InitializedTypes ==
    ASSUME TypeInv, Initialized
    PROVE  TypeInv'
<1>1. caller.pc = "initialized" /\ caller.id \in Id /\ caller.cuts = 0
  BY DEF Initialized, TypeInv, PlaceInv, Requesting
<1>2. /\ caller' \in Caller /\ caller'.pc \in {"idle", "closing"}
      /\ caller'.id = caller.id /\ caller'.cuts = 0
  BY <1>1, CallerTypes, CallerMoves DEF Places, Initialized
<1>3. PlaceInv'
  BY <1>1, <1>2, CallerTypes DEF PlaceInv, Requesting, Closing, Stages, Joining
<1>4. Sound(acq')
  BY CallerTypes DEF Initialized
<1>5. QED
  BY <1>2, <1>3, <1>4, MoveTypes DEF Initialized

LEMMA DrainTypes ==
    ASSUME TypeInv, Drain
    PROVE  TypeInv'
<1>1. Sound(acq')
  <2>1. /\ acq \in Acquisition /\ acq.next >= Len(acq.retained)
        /\ acq.next >= acq.losses
    BY CallerTypes, Zenon DEF Sound
  <2>2. acq' = [acq EXCEPT !.queued = 0] /\ 0 \in 0..OrderedItems
    BY CallerTypes DEF Drain
  <2>3. QED
    BY <2>1, <2>2 DEF Sound, Acquisition
<1>2. caller' \in Caller /\ caller'.id = caller.id /\ PlaceInv'
  BY CallerTypes DEF Drain, TypeInv, PlaceInv
<1>3. QED
  BY <1>1, <1>2, MoveTypes DEF Drain

LEMMA QuiesceTypes ==
    ASSUME TypeInv, Quiesce
    PROVE  TypeInv'
<1>1. caller.pc = "idle" /\ caller.cuts < MaxCuts
  BY DEF Quiesce
<1>2. CASE /\ child.state = "absent"
           /\ acq' = Lost(acq)
           /\ cut' = [quiesced |-> FALSE, losses |-> acq'.losses,
                      disposition |-> "ABSENT", highWater |-> acq'.next]
           /\ caller' = [caller EXCEPT !.cuts = @ + 1]
  <2>1. caller.cuts + 1 \in 0..MaxCuts
    BY <1>1, CallerTypes
  <2>2. caller' \in Caller /\ caller'.pc = "idle" /\ caller'.id = caller.id
    BY <1>1, <1>2, <2>1, CallerTypes DEF Caller
  <2>3. Sound(acq')
    BY <1>2, CallerTypes, LostAcquisition
  <2>4. cut' \in [quiesced : BOOLEAN, losses : Nat, disposition : ExitDispositions,
                  highWater : Nat]
    BY <1>2, <2>3 DEF Sound, Acquisition, ExitDispositions
  <2>5. PlaceInv'
    BY <2>2, CallerTypes DEF PlaceInv, Requesting
  <2>6. TypeOK'
    BY <2>2, <2>3, <2>4 DEF Quiesce, TypeInv, TypeOK, Sound, Acquisition, Caller
  <2>7. QED
    BY <2>5, <2>6 DEF TypeInv
<1>3. CASE /\ child.state # "absent"
           /\ caller' = [caller EXCEPT !.pc = "closing", !.ok = TRUE]
           /\ UNCHANGED <<acq, cut>>
  <2>1. "closing" \in Places
    BY DEF Places
  <2>2. /\ caller' \in Caller /\ caller'.pc = "closing" /\ caller'.id = caller.id
        /\ caller'.cuts = caller.cuts
    BY <1>3, <2>1, CallerTypes DEF Caller
  <2>3. PlaceInv'
    BY <1>1, <2>2 DEF PlaceInv, Requesting
  <2>4. Sound(acq')
    BY <1>3, CallerTypes
  <2>5. QED
    BY <1>3, <2>2, <2>3, <2>4, MoveTypes DEF Quiesce
<1>4. QED
  BY <1>2, <1>3 DEF Quiesce

(* The steps of a cut.                                                     *)
LEMMA QuiesceStepTypes ==
    ASSUME TypeInv, QuiesceStep
    PROVE  TypeInv'
<1>1. CloseInput => TypeInv'
  <2> SUFFICES ASSUME CloseInput PROVE TypeInv'
    OBVIOUS
  <2>1. caller.pc = "closing" /\ caller.cuts < MaxCuts /\ "exiting" \in Places
    BY DEF CloseInput, TypeInv, PlaceInv, Closing, Places
  <2>2. /\ caller' \in Caller /\ caller'.pc = "exiting" /\ caller'.id = caller.id
        /\ caller'.cuts = caller.cuts
    BY <2>1, CallerTypes DEF CloseInput, LoseStage, Fail, Caller
  <2>3. Sound(acq')
    BY CallerTypes, LostAcquisition DEF CloseInput, LoseStage
  <2>4. PlaceInv'
    BY <2>1, <2>2, CallerTypes DEF PlaceInv, Requesting
  <2>5. child' \in [state : {"absent", "running", "exited"}, stdin : BOOLEAN,
                    stdout : BOOLEAN, received : SUBSET (1..caller'.id)]
    BY <2>2 DEF CloseInput, TypeInv, TypeOK
  <2>6. TypeOK'
    BY <2>2, <2>3, <2>5 DEF CloseInput, TypeInv, TypeOK, Sound, Acquisition, Caller
  <2>7. QED
    BY <2>4, <2>6 DEF TypeInv
<1>2. AwaitExit => TypeInv'
  <2> SUFFICES ASSUME AwaitExit PROVE TypeInv'
    OBVIOUS
  <2>1. caller.pc \in Stages /\ caller.cuts < MaxCuts
    BY DEF AwaitExit, TypeInv, PlaceInv, Closing
  <2>2. /\ AfterStage[caller.pc] \in {"terminating", "killing", "joining"}
        /\ Disposition[caller.pc] \in ExitDispositions
    BY <2>1 DEF AfterStage, Disposition, Stages, ExitDispositions
  <2>3. /\ caller' \in Caller /\ caller'.id = caller.id
        /\ caller'.cuts = caller.cuts
        /\ caller'.pc \in {"terminating", "killing", "joining"}
    BY <2>1, <2>2, CallerTypes DEF AwaitExit, Caller, Places, ExitDispositions
  <2>4. Sound(acq')
    BY CallerTypes, LostAcquisition DEF AwaitExit
  <2>5. PlaceInv'
    BY <2>1, <2>3, CallerTypes DEF PlaceInv, Requesting
  <2>6. QED
    BY <2>3, <2>4, <2>5, MoveTypes DEF AwaitExit
<1>3. ASSUME NEW place \in {"joining", "joiningErr"}, NEW thread,
             NEW next \in {"joiningErr", "cutting"}, Join(place, thread, next)
      PROVE  TypeInv'
  <2>1. caller.pc = place /\ caller.cuts < MaxCuts /\ next \in Places
    BY <1>3 DEF Join, TypeInv, PlaceInv, Closing, Joining, Places
  <2>2. /\ caller' \in Caller /\ caller'.pc = next /\ caller'.id = caller.id
        /\ caller'.cuts = caller.cuts
    BY <1>3, <2>1, CallerTypes, CallerMoves DEF Join, LoseStage
  <2>3. Sound(acq')
    BY <1>3, CallerTypes, LostAcquisition DEF Join, LoseStage
  <2>4. PlaceInv'
    BY <2>1, <2>2, CallerTypes DEF PlaceInv, Requesting
  <2>5. QED
    BY <1>3, <2>2, <2>3, <2>4, MoveTypes DEF Join
<1>4. TakeCut => TypeInv'
  <2> SUFFICES ASSUME TakeCut PROVE TypeInv'
    OBVIOUS
  <2>1. caller.pc = "cutting" /\ caller.cuts < MaxCuts
    BY DEF TakeCut, TypeInv, PlaceInv, Closing, Joining
  <2>2. /\ "idle" \in Places /\ "UNKNOWN" \in ExitDispositions
        /\ caller.cuts + 1 \in 0..MaxCuts
    BY <2>1, CallerTypes DEF Places, ExitDispositions
  <2>3. caller' \in Caller /\ caller'.pc = "idle" /\ caller'.id = caller.id
    BY <2>2, CallerTypes DEF TakeCut, Caller
  <2>4. cut' \in [quiesced : BOOLEAN, losses : Nat, disposition : ExitDispositions,
                  highWater : Nat]
    BY CallerTypes DEF TakeCut, Sound, Acquisition
  <2>5. PlaceInv'
    BY <2>3, CallerTypes DEF PlaceInv, Requesting
  <2>6. TypeOK'
    BY <2>3, <2>4 DEF TakeCut, TypeInv, TypeOK, Caller
  <2>7. QED
    BY <2>5, <2>6 DEF TypeInv
<1>5. QED
  BY <1>1, <1>2, <1>3, <1>4 DEF QuiesceStep, JoinReader, JoinErrReader

----------------------------------------------------------------------------
(* The readers.                                                            *)

(* A response that is held is the last frame read; an end of file is seen  *)
(* at the end of the wire, after which nothing is written.                 *)
ReaderInv ==
    /\ reader.held # 0 =>
          /\ reader.held = reader.seen
          /\ reader.state = "running"
          /\ wire[reader.held].kind = "answer" /\ wire[reader.held].id \in Id
          /\ wire[reader.held].id = TurnStart => reader.selected
    /\ reader.state = "CLEAN_EOF" =>
          /\ reader.seen = Len(wire)
          /\ ~child.stdout
    /\ reader.state = "failing" => reader.seen > 0
    /\ reader.state = "NOT_STARTED" => reader.seen = 0

(* The frames the reader is done with.                                     *)
Past == IF reader.held # 0 \/ reader.state = "failing" THEN reader.seen - 1
        ELSE reader.seen

Retained(e) == \E i \in DOMAIN acq.retained : acq.retained[i] = e

(* Frames are retained in the order of the wire, none ahead of the reader. *)
FrameInv ==
    /\ \A i \in DOMAIN acq.retained :
          acq.retained[i].kind = "frame" => acq.retained[i].of \in 1..Past
    /\ \A i, j \in DOMAIN acq.retained :
          i < j /\ acq.retained[i].kind = "frame" /\ acq.retained[j].kind = "frame"
          => acq.retained[i].of < acq.retained[j].of

(* While no loss is counted, nothing the reader is done with is missing.   *)
WholeInv ==
    acq.losses = 0 =>
        /\ acq.next = Len(acq.retained)
        /\ \A n \in 1..Past : Retained(FrameAt(n))

(* What the child has received, or is about to, is retained as a request;  *)
(* and it answers nothing else.                                            *)
AskInv ==
    /\ \A id \in child.received : Retained(RequestOf(id))
    /\ caller.pc = "writing" => Retained(RequestOf(caller.id))
    /\ \A n \in 1..Len(wire) : wire[n].id \in child.received \cup {0}

(* A retained response to turn/start has made the reader know of the turn. *)
SelectInv ==
    \A i \in DOMAIN acq.retained :
        LET e == acq.retained[i] IN
        e.kind = "frame" /\ wire[e.of].kind = "answer" /\ wire[e.of].id = TurnStart
        => reader.selected

(* What a cut that is still good has seen, and what a quiesced cut leaves  *)
(* unchanged for good.                                                     *)
CutInv ==
    /\ caller.pc \in Closing \ {"closing"} /\ caller.ok => ~child.stdin
    /\ caller.pc \in Joining /\ caller.ok => child.state = "exited"
    /\ caller.pc \in {"joiningErr", "cutting"} /\ caller.ok => reader.state = "CLEAN_EOF"
    /\ caller.pc = "cutting" /\ caller.ok => errReader.state = "CLEAN_EOF"
    /\ cut.quiesced =>
          /\ caller.cuts > 0 /\ ~child.stdin /\ child.state = "exited"
          /\ reader.state = "CLEAN_EOF" /\ errReader.state = "CLEAN_EOF"
          /\ cut.highWater = acq.next /\ cut.losses = acq.losses

IInv == /\ TypeInv /\ ReaderInv
        /\ FrameInv /\ WholeInv /\ AskInv
        /\ AnswerFollowsRequest /\ SelectInv
        /\ CutInv

----------------------------------------------------------------------------
(* The types, continued: the steps of the readers.                         *)

LEMMA ReaderTypes ==
    ASSUME TypeInv
    PROVE  /\ reader \in [state : ReaderStates, seen : Nat, held : Nat, selected : BOOLEAN]
           /\ reader.seen \in Nat /\ reader.held \in Nat /\ reader.selected \in BOOLEAN
           /\ reader.state \in ReaderStates
           /\ reader.held <= reader.seen /\ reader.seen <= Len(wire) /\ Len(wire) \in Nat
           /\ wire \in Seq(Vocabulary)
           /\ \A n \in 1..Len(wire) :
                 /\ wire[n] \in Vocabulary /\ wire[n] \in Frame
                 /\ wire[n].id \in Id \cup {0} /\ wire[n].large \in BOOLEAN
                 /\ wire[n].kind \in {"notification", "server request", "bad", "answer"}
                 /\ wire[n].kind # "answer" => wire[n].id = 0
<1>1. /\ reader \in [state : ReaderStates, seen : Nat, held : Nat, selected : BOOLEAN]
      /\ reader.held <= reader.seen /\ reader.seen <= Len(wire)
      /\ wire \in Seq(Vocabulary)
  BY DEF TypeInv, TypeOK
<1>2. ASSUME NEW n \in 1..Len(wire)
      PROVE  /\ wire[n] \in Vocabulary /\ wire[n] \in Frame
             /\ wire[n].id \in Id \cup {0} /\ wire[n].large \in BOOLEAN
             /\ wire[n].kind \in {"notification", "server request", "bad", "answer"}
             /\ wire[n].kind # "answer" => wire[n].id = 0
  <2>1. wire[n] \in Vocabulary /\ wire[n] \in Frame
    BY <1>1, <1>2, VocabularyAssumption
  <2>2. QED
    BY <2>1 DEF Frame
<1>3. /\ reader.seen \in Nat /\ reader.held \in Nat /\ reader.selected \in BOOLEAN
      /\ reader.state \in ReaderStates /\ Len(wire) \in Nat
  BY <1>1
<1>4. QED
  BY <1>1, <1>2, <1>3

(* A step of a reader is not one of the caller.                            *)
LEMMA ReaderMoves ==
    ASSUME TypeInv, UNCHANGED <<caller, child, wire, cut>>, Sound(acq'),
           queues' \in [{"notification", "server request"} -> 0..MessageItems],
           UNCHANGED pending, reply' \subseteq Id,
           reader' \in [state : ReaderStates, seen : Nat, held : Nat, selected : BOOLEAN],
           reader'.held <= reader'.seen, reader'.seen <= Len(wire),
           errReader' \in [state : {"NOT_STARTED", "running", "CLEAN_EOF"},
                           refused : 0..MaxFrames],
           caller.pc # "new" \/ reader'.state = "NOT_STARTED"
    PROVE  TypeInv'
<1>1. TypeOK'
  BY DEF TypeInv, TypeOK, Sound, Acquisition
<1>2. PlaceInv'
  BY DEF TypeInv, PlaceInv
<1>3. QED
  BY <1>1, <1>2 DEF TypeInv

LEMMA Successor ==
    \A m \in Nat : \A q \in 0..m : q < m => q + 1 \in 0..m
OBVIOUS

LEMMA RoomTypes ==
    ASSUME TypeInv
    PROVE  /\ FrameAt(reader.seen + 1) \in Envelope
           /\ queues \in [{"notification", "server request"} -> 0..MessageItems]
           /\ DOMAIN queues = {"notification", "server request"}
           /\ \A k \in {"notification", "server request"} :
                 queues[k] < MessageItems =>
                    [queues EXCEPT ![k] = @ + 1]
                       \in [{"notification", "server request"} -> 0..MessageItems]
<1>1. FrameAt(reader.seen + 1) \in Envelope
  <2>1. reader.seen + 1 \in Nat
    <3>1. reader.seen \in Nat
      BY ReaderTypes
    <3>2. QED
      BY <3>1
  <2>2. QED
    BY <2>1 DEF FrameAt, Envelope
<1>2. queues \in [{"notification", "server request"} -> 0..MessageItems]
  BY DEF TypeInv, TypeOK
<1>3. ASSUME NEW k \in {"notification", "server request"}, queues[k] < MessageItems
      PROVE  [queues EXCEPT ![k] = @ + 1]
                \in [{"notification", "server request"} -> 0..MessageItems]
  <2>1. queues[k] \in 0..MessageItems
    BY <1>2, <1>3
  <2>2. MessageItems \in Nat
    BY BoundsAssumption
  <2>3. queues[k] + 1 \in 0..MessageItems
    BY <1>3, <2>1, <2>2, Successor, Zenon
  <2>4. QED
    BY <1>2, <1>3, <2>3
<1>4. QED
  BY <1>1, <1>2, <1>3

(* What a frame leaves behind when it is read: the reader is past it, or   *)
(* holds it because its request is waited for.                             *)
LEMMA ReadFrameTypes ==
    ASSUME TypeInv, ReaderInv, ReadFrame
    PROVE  /\ TypeInv' /\ ReaderInv'
           /\ reader.held = 0 /\ reader.state = "running" /\ reader'.state = "running"
           /\ reader'.seen = reader.seen + 1 /\ reader.seen < Len(wire)
           /\ reader'.held \in {0, reader'.seen}
           /\ reader.selected => reader'.selected
           /\ \/ /\ acq' = acq
                 /\ reader'.held # 0
              \/ /\ acq'.retained = acq.retained
                 /\ acq'.losses = acq.losses + 1
                 /\ reader'.held = 0
              \/ /\ acq'.retained = Append(acq.retained, FrameAt(reader.seen + 1))
                 /\ acq'.losses = acq.losses
                 /\ acq'.next = acq.next + 1
                 /\ reader'.held = 0
                 /\ wire[reader.seen + 1].kind # "answer"
           /\ LET f == wire[reader.seen + 1] IN
              /\ f.kind = "notification" /\ f.large /\ reader.selected
              /\ queues["notification"] < MessageItems /\ HasRoom(acq)
              => acq'.losses = acq.losses
<1> DEFINE n == reader.seen + 1
           f == wire[n]
           found == f.kind = "answer" /\ f.id \in pending
<1>1. /\ reader.state = "running" /\ reader.held = 0 /\ reader.seen < Len(wire)
      /\ reader' = [reader EXCEPT !.seen = @ + 1,
                                  !.held = IF found THEN reader.seen + 1 ELSE 0,
                                  !.selected = @ \/ (found /\ Selects(f))]
      /\ UNCHANGED <<pending, reply, caller, errReader, child, wire, cut>>
  BY DEF ReadFrame
<1>2. \/ found /\ UNCHANGED <<acq, queues>>
      \/ f.kind \in DOMAIN queues /\ Admissible(f) /\ Offer(f)
      \/ /\ ~found
         /\ f.kind \in DOMAIN queues => ~Admissible(f)
         /\ acq' = Lost(acq)
         /\ UNCHANGED queues
  BY DEF ReadFrame
<1>3. /\ n \in 1..Len(wire) /\ n \in Nat /\ n # 0
      /\ reader.seen \in Nat /\ Len(wire) \in Nat
  <2>1. reader.seen \in Nat /\ Len(wire) \in Nat
    BY ReaderTypes, Zenon
  <2>2. QED
    BY <1>1, <2>1
<1>4. /\ f.kind \in {"notification", "server request", "bad", "answer"}
      /\ f.id \in Id \cup {0} /\ f.large \in BOOLEAN
  BY <1>3, ReaderTypes, Zenon
<1>5. /\ pending \subseteq Id
      /\ DOMAIN queues = {"notification", "server request"}
      /\ queues \in [{"notification", "server request"} -> 0..MessageItems]
      /\ errReader \in [state : {"NOT_STARTED", "running", "CLEAN_EOF"},
                        refused : 0..MaxFrames]
      /\ reply \subseteq Id
  BY RoomTypes, Zenon DEF TypeInv, TypeOK
<1>6. found => f.kind = "answer" /\ f.id \in Id
  BY <1>5, Zenon
<1> HIDE DEF f, found
<1>7. /\ reader' \in [state : ReaderStates, seen : Nat, held : Nat, selected : BOOLEAN]
      /\ reader'.state = "running" /\ reader'.seen = n
      /\ reader'.held = (IF found THEN n ELSE 0)
      /\ reader'.selected = (reader.selected \/ (found /\ Selects(f)))
  <2>1. reader \in [state : ReaderStates, seen : Nat, held : Nat, selected : BOOLEAN]
    BY ReaderTypes, Zenon
  <2>2. (reader.selected \/ (found /\ Selects(f))) \in BOOLEAN
    BY Zenon DEF Selects
  <2>3. QED
    BY <1>1, <1>3, <2>1, <2>2
<1>8. /\ Sound(acq')
      /\ queues' \in [{"notification", "server request"} -> 0..MessageItems]
      /\ \/ /\ acq' = acq
            /\ found
         \/ /\ acq'.retained = acq.retained
            /\ acq'.losses = acq.losses + 1
            /\ ~found
         \/ /\ acq'.retained = Append(acq.retained, FrameAt(n))
            /\ acq'.losses = acq.losses
            /\ acq'.next = acq.next + 1
            /\ ~found
            /\ f.kind # "answer"
      /\ /\ f.kind = "notification" /\ f.large /\ reader.selected
         /\ queues["notification"] < MessageItems /\ HasRoom(acq)
         => acq'.losses = acq.losses
  <2>1. CASE found /\ UNCHANGED <<acq, queues>>
    BY <1>5, <2>1, CallerTypes, Zenon
  <2>2. CASE f.kind \in DOMAIN queues /\ Admissible(f) /\ Offer(f)
    <3>1. f.kind \in {"notification", "server request"}
      BY <1>5, <2>2, Zenon
    <3>2. f.kind # "answer"
      BY <3>1
    <3>3. ~found
      BY <1>6, <3>2, Zenon
    <3>4. CASE queues[f.kind] < MessageItems
      <4>1. /\ queues' = [queues EXCEPT ![f.kind] = @ + 1]
            /\ acq' = Retain(acq, FrameAt(n))
        BY <2>2, <3>4, Zenon DEF Offer
      <4>2. queues' \in [{"notification", "server request"} -> 0..MessageItems]
        BY <3>1, <3>4, <4>1, RoomTypes, Zenon
      <4>3. FrameAt(n) \in Envelope /\ Sound(acq)
        BY RoomTypes, CallerTypes, Zenon
      <4>4. /\ Sound(acq')
            /\ \/ /\ acq'.retained = acq.retained
                  /\ acq'.losses = acq.losses + 1
               \/ /\ acq'.retained = Append(acq.retained, FrameAt(n))
                  /\ acq'.losses = acq.losses
                  /\ acq'.next = acq.next + 1
            /\ HasRoom(acq) => acq'.losses = acq.losses
        BY <4>1, <4>3, RetainAcquisition, Zenon
      <4>5. QED
        BY <3>2, <3>3, <4>2, <4>4, Zenon
    <3>5. CASE ~(queues[f.kind] < MessageItems)
      <4>1. acq' = Lost(acq) /\ UNCHANGED queues
        BY <2>2, <3>5, Zenon DEF Offer
      <4>2. /\ Sound(acq') /\ acq'.retained = acq.retained
            /\ acq'.losses = acq.losses + 1
        BY <4>1, CallerTypes, LostAcquisition, Zenon
      <4>3. f.kind = "notification" /\ queues["notification"] < MessageItems => FALSE
        BY <3>5, Zenon
      <4>4. QED
        BY <3>3, <4>1, <4>2, <4>3, RoomTypes, Zenon
    <3>6. QED
      BY <3>4, <3>5, Zenon
  <2>3. CASE /\ ~found
             /\ f.kind \in DOMAIN queues => ~Admissible(f)
             /\ acq' = Lost(acq)
             /\ UNCHANGED queues
    <3>1. /\ Sound(acq') /\ acq'.retained = acq.retained
          /\ acq'.losses = acq.losses + 1
      BY <2>3, CallerTypes, LostAcquisition, Zenon
    <3>2. f.kind = "notification" /\ reader.selected => Admissible(f)
      BY Zenon DEF Admissible
    <3>3. f.kind = "notification" => f.kind \in DOMAIN queues
      BY <1>5, Zenon
    <3>4. QED
      BY <1>5, <2>3, <3>1, <3>2, <3>3, Zenon
  <2>4. QED
    BY <1>2, <2>1, <2>2, <2>3, Zenon DEF f, found
<1>9. TypeInv'
  <2>1. reader'.held <= reader'.seen /\ reader'.seen <= Len(wire)
    BY <1>3, <1>7
  <2>2. caller.pc # "new"
    BY <1>1 DEF TypeInv, PlaceInv
  <2>3. reply' \subseteq Id
    BY <1>1, <1>5, Zenon
  <2>4. errReader' \in [state : {"NOT_STARTED", "running", "CLEAN_EOF"},
                        refused : 0..MaxFrames]
    BY <1>1, <1>5, Zenon
  <2>5. UNCHANGED <<caller, child, wire, cut>> /\ UNCHANGED pending
    BY <1>1, Zenon
  <2>6. QED
    BY <1>7, <1>8, <2>1, <2>2, <2>3, <2>4, <2>5, ReaderMoves, Zenon
<1>10. ReaderInv'
  <2>1. wire' = wire
    BY <1>1, Zenon
  <2>2. reader'.held # 0 => found /\ reader'.held = n /\ wire'[n] = f
    BY <1>7, <2>1 DEF f
  <2>3. found /\ f.id = TurnStart => reader'.selected
    BY <1>7, Zenon DEF Selects
  <2>4. reader'.held # 0 =>
          /\ wire'[reader'.held].kind = "answer" /\ wire'[reader'.held].id \in Id
          /\ wire'[reader'.held].id = TurnStart => reader'.selected
    BY <1>6, <2>2, <2>3, Zenon DEF f, found
  <2>5. QED
    BY <1>7, <2>2, <2>4 DEF ReaderInv
<1>11. QED
  BY <1>1, <1>3, <1>7, <1>8, <1>9, <1>10 DEF f

(* The response that is held joins the evidence or is a loss.              *)
LEMMA HandOverTypes ==
    ASSUME TypeInv, ReaderInv, HandOver
    PROVE  /\ TypeInv' /\ ReaderInv'
           /\ reader.held # 0 /\ reader.state = "running" /\ reader.held = reader.seen
           /\ reader' = [reader EXCEPT !.held = 0]
           /\ wire[reader.held].id \in Id
           /\ wire[reader.held].id = TurnStart => reader.selected
           /\ \/ /\ acq'.retained = acq.retained
                 /\ acq'.losses > acq.losses
              \/ /\ acq'.retained = Append(acq.retained, FrameAt(reader.held))
                 /\ \/ acq'.losses = acq.losses /\ acq'.next = acq.next + 1
                    \/ acq'.losses > acq.losses
<1> DEFINE n == reader.held
           f == wire[n]
           kept == IF f.large THEN Lost(acq) ELSE Retain(acq, FrameAt(n))
<1>1. /\ n # 0 /\ reader' = [reader EXCEPT !.held = 0]
      /\ acq' = IF f.id \in reply THEN Lost(kept) ELSE kept
      /\ reply' = reply \cup {f.id}
      /\ UNCHANGED <<queues, pending, caller, errReader, child, wire, cut>>
  BY DEF HandOver
<1>2. /\ n = reader.seen /\ reader.state = "running"
      /\ f.kind = "answer" /\ f.id \in Id /\ (f.id = TurnStart => reader.selected)
  BY <1>1 DEF ReaderInv
<1>3. FrameAt(n) \in Envelope /\ Sound(acq)
  <2>1. n \in Nat
    BY ReaderTypes, Zenon
  <2>2. QED
    BY <2>1, CallerTypes DEF FrameAt, Envelope
<1> HIDE DEF f
<1>4. /\ Sound(kept)
      /\ \/ kept.retained = acq.retained /\ kept.losses = acq.losses + 1
         \/ /\ kept.retained = Append(acq.retained, FrameAt(n))
            /\ kept.losses = acq.losses /\ kept.next = acq.next + 1
  <2>1. CASE f.large
    BY <1>3, <2>1, LostAcquisition, Zenon
  <2>2. CASE ~f.large
    BY <1>3, <2>2, RetainAcquisition, Zenon
  <2>3. QED
    BY <2>1, <2>2, Zenon
<1> HIDE DEF kept
<1>5. /\ Sound(acq')
      /\ \/ acq' = kept
         \/ acq'.retained = kept.retained /\ acq'.losses = kept.losses + 1
  BY <1>1, <1>4, LostAcquisition, Zenon DEF f
<1>6. acq.losses \in Nat /\ kept.losses \in Nat /\ acq'.losses \in Nat
  BY <1>3, <1>4, <1>5 DEF Sound, Acquisition
<1>7. \/ /\ acq'.retained = acq.retained
         /\ acq'.losses > acq.losses
      \/ /\ acq'.retained = Append(acq.retained, FrameAt(n))
         /\ \/ acq'.losses = acq.losses /\ acq'.next = acq.next + 1
            \/ acq'.losses > acq.losses
  <2>1. CASE acq' = kept
    <3>1. kept.losses = acq.losses + 1 => kept.losses > acq.losses
      BY <1>6
    <3>2. QED
      BY <1>4, <2>1, <3>1, Zenon
  <2>2. CASE acq'.retained = kept.retained /\ acq'.losses = kept.losses + 1
    <3>1. kept.losses = acq.losses + 1 \/ kept.losses = acq.losses
      BY <1>4, Zenon
    <3>2. acq'.losses > acq.losses
      BY <1>6, <2>2, <3>1
    <3>3. QED
      BY <1>4, <2>2, <3>2, Zenon
  <2>3. QED
    BY <1>5, <2>1, <2>2, Zenon
<1>8. /\ reader' \in [state : ReaderStates, seen : Nat, held : Nat, selected : BOOLEAN]
      /\ reader'.held = 0 /\ reader'.seen = reader.seen /\ reader'.state = "running"
      /\ reader'.held <= reader'.seen /\ reader'.seen <= Len(wire)
  <2>1. /\ reader \in [state : ReaderStates, seen : Nat, held : Nat, selected : BOOLEAN]
        /\ reader.seen <= Len(wire) /\ reader.seen \in Nat
    BY ReaderTypes, Zenon
  <2>2. QED
    BY <1>1, <1>2, <2>1
<1>9. TypeInv'
  <2>1. caller.pc # "new"
    BY <1>2 DEF TypeInv, PlaceInv
  <2>2. /\ queues' \in [{"notification", "server request"} -> 0..MessageItems]
        /\ errReader' \in [state : {"NOT_STARTED", "running", "CLEAN_EOF"},
                           refused : 0..MaxFrames]
        /\ reply' \subseteq Id
    BY <1>1, <1>2, Zenon DEF TypeInv, TypeOK
  <2>3. UNCHANGED <<caller, child, wire, cut>> /\ UNCHANGED pending
    BY <1>1, Zenon
  <2>4. QED
    BY <1>5, <1>8, <2>1, <2>2, <2>3, ReaderMoves, Zenon
<1>10. ReaderInv'
  BY <1>8 DEF ReaderInv
<1>11. QED
  BY <1>1, <1>2, <1>7, <1>9, <1>10, Zenon DEF f

(* A reader's ends, which retain nothing.                                  *)
LEMMA ReaderEndTypes ==
    ASSUME TypeInv, ReaderInv,
           EndOfFile \/ ReaderFails \/ ReaderEnds \/ RefuseLine \/ EndOfErrors
    PROVE  /\ TypeInv' /\ ReaderInv'
           /\ acq'.retained = acq.retained
           /\ \/ UNCHANGED acq /\ Past' = Past
              \/ acq'.losses = acq.losses + 1 /\ Past' >= Past
           /\ reader'.selected = reader.selected
<1>1. /\ reader \in [state : ReaderStates, seen : Nat, held : Nat, selected : BOOLEAN]
      /\ reader.seen \in Nat /\ reader.held \in Nat /\ Len(wire) \in Nat
      /\ reader.held <= reader.seen /\ reader.seen <= Len(wire)
      /\ {"CLEAN_EOF", "failing", "FAILURE"} \subseteq ReaderStates
  <2>1. {"CLEAN_EOF", "failing", "FAILURE"} \subseteq ReaderStates
    BY DEF ReaderStates
  <2>2. QED
    BY <2>1, ReaderTypes, Zenon
<1>2. /\ Sound(acq)
      /\ queues \in [{"notification", "server request"} -> 0..MessageItems]
      /\ errReader \in [state : {"NOT_STARTED", "running", "CLEAN_EOF"},
                        refused : 0..MaxFrames]
      /\ reply \subseteq Id
  BY CallerTypes, Zenon DEF TypeInv, TypeOK
<1>3. caller.pc = "new" => reader.state = "NOT_STARTED"
  BY DEF TypeInv, PlaceInv
<1>4. /\ Sound(Lost(acq)) /\ Lost(acq).retained = acq.retained
      /\ Lost(acq).losses = acq.losses + 1
  BY <1>2, LostAcquisition, Zenon
<1>5. CASE EndOfFile
  <2>1. /\ reader.state = "running" /\ reader.held = 0 /\ reader.seen = Len(wire)
        /\ ~child.stdout
        /\ reader' = [reader EXCEPT !.state = "CLEAN_EOF"]
        /\ UNCHANGED <<acq, queues, pending, reply, caller, errReader, child, wire, cut>>
    BY <1>5 DEF EndOfFile
  <2>2. /\ reader' \in [state : ReaderStates, seen : Nat, held : Nat, selected : BOOLEAN]
        /\ reader'.held = 0 /\ reader'.seen = reader.seen
        /\ reader'.state = "CLEAN_EOF" /\ reader'.selected = reader.selected
    BY <1>1, <2>1
  <2>3. Past' = Past
    BY <2>1, <2>2 DEF Past
  <2>4. ReaderInv'
    BY <2>1, <2>2 DEF ReaderInv
  <2>5. TypeInv'
    BY <1>1, <1>2, <1>3, <2>1, <2>2, ReaderMoves
  <2>6. QED
    BY <2>1, <2>2, <2>3, <2>4, <2>5
<1>6. CASE ReaderFails
  <2>1. /\ reader.state = "running" /\ reader.held = 0 /\ reader.seen < Len(wire)
        /\ reader' = [reader EXCEPT !.state = "failing", !.seen = @ + 1]
        /\ UNCHANGED <<acq, queues, pending, reply, caller, errReader, child, wire, cut>>
    BY <1>6 DEF ReaderFails
  <2>2. /\ reader' \in [state : ReaderStates, seen : Nat, held : Nat, selected : BOOLEAN]
        /\ reader'.held = 0 /\ reader'.seen = reader.seen + 1
        /\ reader'.state = "failing" /\ reader'.selected = reader.selected
    <3>1. "failing" \in ReaderStates /\ reader.seen + 1 \in Nat
      BY <1>1
    <3>2. QED
      BY <1>1, <2>1, <3>1
  <2>3. Past' = Past
    BY <1>1, <2>1, <2>2 DEF Past
  <2>4. ReaderInv'
    BY <1>1, <2>1, <2>2 DEF ReaderInv
  <2>5. reader'.held <= reader'.seen /\ reader'.seen <= Len(wire)
    BY <1>1, <2>1, <2>2
  <2>6. TypeInv'
    BY <1>2, <1>3, <2>1, <2>2, <2>5, ReaderMoves
  <2>7. QED
    BY <2>1, <2>2, <2>3, <2>4, <2>6
<1>7. CASE ReaderEnds
  <2>1. /\ reader.state = "failing"
        /\ reader' = [reader EXCEPT !.state = "FAILURE"]
        /\ acq' = Lost(acq)
        /\ UNCHANGED <<queues, pending, reply, caller, errReader, child, wire, cut>>
    BY <1>7 DEF ReaderEnds
  <2>2. /\ reader' \in [state : ReaderStates, seen : Nat, held : Nat, selected : BOOLEAN]
        /\ reader'.held = reader.held /\ reader'.seen = reader.seen
        /\ reader'.state = "FAILURE" /\ reader'.selected = reader.selected
    BY <1>1, <2>1
  <2>3. reader.held = 0
    BY <2>1 DEF ReaderInv
  <2>4. Past' >= Past
    BY <1>1, <2>1, <2>2, <2>3 DEF Past
  <2>5. ReaderInv'
    BY <2>2, <2>3 DEF ReaderInv
  <2>6. TypeInv'
    BY <1>1, <1>2, <1>3, <1>4, <2>1, <2>2, ReaderMoves
  <2>7. QED
    BY <1>4, <2>1, <2>2, <2>4, <2>5, <2>6
<1>8. CASE RefuseLine
  <2>1. /\ Len(wire) + errReader.refused < MaxFrames
        /\ errReader' = [errReader EXCEPT !.refused = @ + 1]
        /\ acq' = Lost(acq)
        /\ UNCHANGED <<queues, pending, reply, caller, reader, child, wire, cut>>
    BY <1>8 DEF RefuseLine
  <2>2. errReader.refused + 1 \in 0..MaxFrames
    <3>1. MaxFrames \in Nat
      BY BoundsAssumption
    <3>2. errReader.refused \in 0..MaxFrames
      BY <1>2
    <3>3. errReader.refused < MaxFrames
      BY <1>1, <2>1, <3>1, <3>2
    <3>4. QED
      BY <3>1, <3>2, <3>3, Successor
  <2>3. errReader' \in [state : {"NOT_STARTED", "running", "CLEAN_EOF"},
                        refused : 0..MaxFrames]
    BY <1>2, <2>1, <2>2
  <2>4. Past' = Past /\ Past \in Nat /\ ReaderInv'
    BY <1>1, <2>1 DEF Past, ReaderInv
  <2>5. TypeInv'
    BY <1>1, <1>2, <1>3, <1>4, <2>1, <2>3, ReaderMoves
  <2>6. QED
    BY <1>4, <2>1, <2>4, <2>5
<1>9. CASE EndOfErrors
  <2>1. /\ errReader' = [errReader EXCEPT !.state = "CLEAN_EOF"]
        /\ UNCHANGED <<acq, queues, pending, reply, caller, reader, child, wire, cut>>
    BY <1>9 DEF EndOfErrors
  <2>2. errReader' \in [state : {"NOT_STARTED", "running", "CLEAN_EOF"},
                        refused : 0..MaxFrames]
    BY <1>2, <2>1
  <2>3. Past' = Past /\ ReaderInv'
    BY <2>1 DEF Past, ReaderInv
  <2>4. TypeInv'
    BY <1>1, <1>2, <1>3, <2>1, <2>2, ReaderMoves
  <2>5. QED
    BY <2>1, <2>3, <2>4
<1>10. QED
  BY <1>5, <1>6, <1>7, <1>8, <1>9

----------------------------------------------------------------------------
(* The types, concluded: the steps of the child.                           *)

(* What the child writes is added at the end of the wire; a process that   *)
(* is gone does not come back, and a stream that is closed stays closed.   *)
LEMMA ChildTypes ==
    ASSUME TypeInv, ReaderInv, ChildStep
    PROVE  /\ TypeInv' /\ ReaderInv'
           /\ UNCHANGED <<acq, queues, pending, reply, caller, reader, errReader, cut>>
           /\ Len(wire') >= Len(wire)
           /\ \A n \in 1..Len(wire) : wire'[n] = wire[n]
           /\ child'.received = child.received /\ child'.stdin = child.stdin
           /\ child'.state = child.state \/ child'.state = "exited"
           /\ \A n \in 1..Len(wire') :
                 n > Len(wire) => wire'[n].id \in child.received \cup {0}
           /\ reader.state = "CLEAN_EOF" => wire' = wire
<1>1. /\ child \in [state : {"absent", "running", "exited"}, stdin : BOOLEAN,
                    stdout : BOOLEAN, received : SUBSET (1..caller.id)]
      /\ wire \in Seq(Vocabulary) /\ Len(wire) \in Nat
      /\ reader.seen \in Nat /\ reader.held \in Nat
      /\ reader.held <= reader.seen /\ reader.seen <= Len(wire)
  <2>1. child \in [state : {"absent", "running", "exited"}, stdin : BOOLEAN,
                   stdout : BOOLEAN, received : SUBSET (1..caller.id)]
    BY DEF TypeInv, TypeOK
  <2>2. QED
    BY <2>1, ReaderTypes, Zenon
<1>2. CASE Emit
  <2>1. PICK f \in Vocabulary :
           /\ child.stdout /\ f.id \in child.received \cup {0}
           /\ wire' = Append(wire, f)
           /\ UNCHANGED <<acq, queues, pending, reply, caller, reader, errReader,
                          child, cut>>
    BY <1>2 DEF Emit
  <2>2. /\ wire' \in Seq(Vocabulary) /\ Len(wire') = Len(wire) + 1
        /\ \A n \in 1..Len(wire) : wire'[n] = wire[n]
        /\ wire'[Len(wire) + 1] = f
    BY <1>1, <2>1
  <2>3. reader.state # "CLEAN_EOF"
    BY <2>1 DEF ReaderInv
  <2>4. ReaderInv'
    <3>1. reader.held # 0 => reader.held \in 1..Len(wire)
      BY <1>1
    <3>2. reader.held # 0 => wire'[reader.held] = wire[reader.held]
      BY <2>2, <3>1
    <3>3. QED
      BY <2>1, <2>3, <3>2 DEF ReaderInv
  <2>5. TypeInv'
    <3>1. reader.seen <= Len(wire')
      BY <1>1, <2>2
    <3>2. TypeOK'
      BY <2>1, <2>2, <3>1 DEF TypeInv, TypeOK
    <3>3. PlaceInv'
      BY <2>1 DEF TypeInv, PlaceInv
    <3>4. QED
      BY <3>2, <3>3 DEF TypeInv
  <2>6. \A n \in 1..Len(wire') :
           n > Len(wire) => wire'[n].id \in child.received \cup {0}
    <3>1. ASSUME NEW n \in 1..Len(wire'), n > Len(wire)
          PROVE  n = Len(wire) + 1
      BY <1>1, <2>2, <3>1
    <3>2. QED
      BY <2>1, <2>2, <3>1
  <2>7. Len(wire') >= Len(wire)
    BY <1>1, <2>2
  <2>8. QED
    BY <2>1, <2>2, <2>3, <2>4, <2>5, <2>6, <2>7
<1>3. ASSUME NEW status \in {child.state, "exited"}, NEW out \in BOOLEAN,
             child' = [child EXCEPT !.state = status, !.stdout = out],
             child.state # "absent" \/ status = child.state,
             out => child.stdout,
             UNCHANGED <<acq, queues, pending, reply, caller, reader, errReader,
                         wire, cut>>
      PROVE  /\ TypeInv' /\ ReaderInv'
             /\ child'.received = child.received /\ child'.stdin = child.stdin
             /\ child'.state = child.state \/ child'.state = "exited"
  <2>1. /\ child' \in [state : {"absent", "running", "exited"}, stdin : BOOLEAN,
                       stdout : BOOLEAN, received : SUBSET (1..caller.id)]
        /\ child'.received = child.received /\ child'.stdin = child.stdin
        /\ child'.state = status /\ child'.stdout = out
    BY <1>1, <1>3
  <2>2. TypeOK'
    BY <1>3, <2>1 DEF TypeInv, TypeOK
  <2>3. PlaceInv'
    BY <1>3, <2>1 DEF TypeInv, PlaceInv
  <2>4. ReaderInv'
    BY <1>3, <2>1 DEF ReaderInv
  <2>5. QED
    BY <2>1, <2>2, <2>3, <2>4 DEF TypeInv
<1>4. CASE ChildExits
  <2>1. /\ child.state = "running" /\ child' = [child EXCEPT !.state = "exited"]
        /\ UNCHANGED <<acq, queues, pending, reply, caller, reader, errReader, wire, cut>>
    BY <1>4 DEF ChildExits
  <2>2. child' = [child EXCEPT !.state = "exited", !.stdout = child.stdout]
    BY <1>1, <2>1
  <2>3. child.stdout \in BOOLEAN /\ child.state # "absent"
    BY <1>1, <2>1
  <2>4. /\ TypeInv' /\ ReaderInv'
        /\ child'.received = child.received /\ child'.stdin = child.stdin
        /\ child'.state = child.state \/ child'.state = "exited"
    BY <1>3, <2>1, <2>2, <2>3, Zenon
  <2>5. QED
    BY <1>1, <2>1, <2>4
<1>5. CASE CloseStdout
  <2>1. /\ child' = [child EXCEPT !.stdout = FALSE]
        /\ UNCHANGED <<acq, queues, pending, reply, caller, reader, errReader, wire, cut>>
    BY <1>5 DEF CloseStdout
  <2>2. child' = [child EXCEPT !.state = child.state, !.stdout = FALSE]
    BY <1>1, <2>1
  <2>3. FALSE \in BOOLEAN
    OBVIOUS
  <2>4. /\ TypeInv' /\ ReaderInv'
        /\ child'.received = child.received /\ child'.stdin = child.stdin
        /\ child'.state = child.state \/ child'.state = "exited"
    BY <1>3, <2>1, <2>2, <2>3, Zenon
  <2>5. QED
    BY <1>1, <2>1, <2>4
<1>6. QED
  BY <1>2, <1>4, <1>5 DEF ChildStep

----------------------------------------------------------------------------
(* What a step does to the evidence.                                       *)

Quiet == /\ acq'.retained = acq.retained
         /\ Past' >= Past
         /\ acq'.losses = 0 =>
               acq.losses = 0 /\ acq'.next = acq.next /\ Past' = Past

Retains(e) == /\ acq'.retained = Append(acq.retained, e)
              /\ acq'.losses = 0 => acq.losses = 0 /\ acq'.next = acq.next + 1

RetainsRequest == Custody /\ Past' = Past /\ Retains(RequestOf(caller.id))

RetainsFrame ==
    /\ Past' = Past + 1 /\ Past + 1 \in 1..Len(wire) /\ Retains(FrameAt(Past + 1))
    /\ wire' = wire
    /\ wire[Past + 1].kind = "answer" =>
          /\ wire[Past + 1].id \in Id
          /\ wire[Past + 1].id = TurnStart => reader.selected

LEMMA PastTypes ==
    ASSUME TypeInv, ReaderInv
    PROVE  Past \in Nat /\ Past <= Len(wire) /\ Past <= reader.seen
<1>1. /\ reader.seen \in Nat /\ reader.held \in Nat /\ Len(wire) \in Nat
      /\ reader.held <= reader.seen /\ reader.seen <= Len(wire)
  BY ReaderTypes, Zenon
<1>2. QED
  BY <1>1 DEF Past, ReaderInv

(* The caller's steps retain a request or nothing, and leave the readers   *)
(* where they are.                                                         *)
LEMMA CallerSteps ==
    ASSUME TypeInv, ReaderInv, CallerStep
    PROVE  /\ TypeInv' /\ ReaderInv' /\ Past' = Past
           /\ Quiet \/ RetainsRequest
           /\ wire' = wire
           /\ reader.selected => reader'.selected
<1>1. TypeInv'
  BY StartTypes, RegisterTypes, CustodyTypes, WriteTypes, AnsweredTypes, LeaveTypes,
     InitializedTypes, DrainTypes, QuiesceTypes, QuiesceStepTypes, Zenon DEF CallerStep
<1>2. /\ reader \in [state : ReaderStates, seen : Nat, held : Nat, selected : BOOLEAN]
      /\ child \in [state : {"absent", "running", "exited"}, stdin : BOOLEAN,
                    stdout : BOOLEAN, received : SUBSET (1..caller.id)]
      /\ Past \in Nat /\ acq.losses \in Nat /\ acq \in Acquisition
  BY PastTypes, CallerTypes DEF TypeInv, TypeOK, Sound, Acquisition
<1>3. /\ Lost(acq).retained = acq.retained /\ Lost(acq).losses # 0
      /\ Lost(acq) \in Acquisition
  BY <1>2, CallerTypes, LostAcquisition DEF Sound
<1>4. /\ wire' = wire
      /\ reader.selected => reader'.selected
      /\ ReaderInv' /\ Past' = Past
  <2>1. CASE Start
    <3>1. /\ reader.state = "NOT_STARTED" /\ wire' = wire
          /\ \/ reader' = [reader EXCEPT !.state = "running"]
             \/ reader' = reader /\ child' = child
      BY <2>1 DEF Start, TypeInv, PlaceInv
    <3>2. QED
      BY <1>2, <3>1 DEF ReaderInv, Past
  <2>2. CASE Leave
    <3>1. /\ reader' = [reader EXCEPT !.selected =
                                 @ \/ (caller.ok /\ caller.id = TurnStart)]
          /\ wire' = wire /\ child' = child
      BY <2>2 DEF Leave
    <3>2. /\ reader'.state = reader.state /\ reader'.held = reader.held
          /\ reader'.seen = reader.seen /\ (reader.selected => reader'.selected)
      BY <1>2, <3>1
    <3>3. QED
      BY <3>1, <3>2 DEF ReaderInv, Past
  <2>3. CASE CallerStep /\ ~Start /\ ~Leave
    <3>1. /\ wire' = wire /\ reader' = reader
          /\ child'.stdout = child.stdout
      BY <1>2, <2>3 DEF CallerStep, Register, Custody, Write, Answered, Initialized, Drain,
         Quiesce, QuiesceStep, CloseInput, AwaitExit, JoinReader, JoinErrReader, Join,
         TakeCut
    <3>2. QED
      BY <3>1 DEF ReaderInv, Past
  <2>4. QED
    BY <2>1, <2>2, <2>3
<1>5. Quiet \/ RetainsRequest
  <2>1. CASE Custody
    <3>1. CASE UNCHANGED acq
      BY <1>2, <1>4, <3>1 DEF Quiet
    <3>2. CASE acq' = Retain(acq, RequestOf(caller.id))
      <4>1. RequestOf(caller.id) \in Envelope /\ Sound(acq)
        BY CallerTypes DEF RequestOf, Envelope
      <4>2. \/ /\ acq'.retained = Append(acq.retained, RequestOf(caller.id))
               /\ acq'.losses = acq.losses /\ acq'.next = acq.next + 1
            \/ /\ acq'.retained = acq.retained
               /\ acq'.losses = acq.losses + 1
        BY <3>2, <4>1, RetainAcquisition, Zenon
      <4>3. QED
        BY <1>2, <1>4, <2>1, <4>2 DEF Quiet, RetainsRequest, Retains
    <3>3. QED
      BY <2>1, <3>1, <3>2 DEF Custody
  <2>2. CASE CallerStep /\ ~Custody
    <3>1. \/ UNCHANGED acq
          \/ acq' = [acq EXCEPT !.queued = 0]
          \/ acq' = Lost(acq)
      BY <2>2 DEF CallerStep, Start, Register, Write, Answered, Leave, Initialized, Drain,
         Quiesce, QuiesceStep, CloseInput, AwaitExit, JoinReader, JoinErrReader, Join,
         LoseStage, TakeCut
    <3>2. QED
      BY <1>2, <1>3, <1>4, <3>1 DEF Quiet, Acquisition
  <2>3. QED
    BY <2>1, <2>2
<1>6. QED
  BY <1>1, <1>4, <1>5

(* The readers' steps retain the next frame of the wire or nothing.        *)
LEMMA ReaderSteps ==
    ASSUME TypeInv, ReaderInv, ReaderStep
    PROVE  /\ TypeInv' /\ ReaderInv'
           /\ Quiet \/ RetainsFrame
           /\ UNCHANGED <<caller, child, wire, cut>>
           /\ reader.selected => reader'.selected
<1>1. /\ reader.seen \in Nat /\ reader.held \in Nat /\ Len(wire) \in Nat
      /\ reader.held <= reader.seen /\ reader.seen <= Len(wire)
      /\ reader \in [state : ReaderStates, seen : Nat, held : Nat, selected : BOOLEAN]
  BY ReaderTypes, Zenon
<1>2. Past \in Nat /\ acq.losses \in Nat
  BY PastTypes, CallerTypes DEF Sound, Acquisition
<1>3. CASE ReadFrame
  <2>1. UNCHANGED <<caller, child, wire, cut>>
    BY <1>3 DEF ReadFrame
  <2>2. /\ reader.held = 0 /\ reader.state = "running" /\ reader'.state = "running"
        /\ reader'.seen = reader.seen + 1 /\ reader.seen < Len(wire)
        /\ reader'.held \in {0, reader'.seen}
    BY <1>3, ReadFrameTypes, Zenon
  <2>3. Past = reader.seen
    BY <2>2 DEF Past
  <2>4. CASE acq' = acq /\ reader'.held # 0
    <3>1. Past' = Past
      BY <1>1, <2>2, <2>3, <2>4 DEF Past
    <3>2. QED
      BY <1>2, <1>3, <2>1, <2>4, <3>1, ReadFrameTypes DEF Quiet
  <2>5. CASE /\ acq'.retained = acq.retained
             /\ acq'.losses = acq.losses + 1
             /\ reader'.held = 0
    <3>1. Past' >= Past
      BY <1>1, <2>2, <2>3, <2>5 DEF Past
    <3>2. QED
      BY <1>2, <1>3, <2>1, <2>5, <3>1, ReadFrameTypes DEF Quiet
  <2>6. CASE /\ acq'.retained = Append(acq.retained, FrameAt(reader.seen + 1))
             /\ acq'.losses = acq.losses
             /\ acq'.next = acq.next + 1
             /\ reader'.held = 0
             /\ wire[reader.seen + 1].kind # "answer"
    <3>1. Past' = Past + 1 /\ Past + 1 \in 1..Len(wire)
      BY <1>1, <2>2, <2>3, <2>6 DEF Past
    <3>2. RetainsFrame
      BY <2>1, <2>3, <2>6, <3>1 DEF RetainsFrame, Retains
    <3>3. QED
      BY <1>3, <2>1, <3>2, ReadFrameTypes
  <2>7. \/ acq' = acq /\ reader'.held # 0
        \/ /\ acq'.retained = acq.retained
           /\ acq'.losses = acq.losses + 1
           /\ reader'.held = 0
        \/ /\ acq'.retained = Append(acq.retained, FrameAt(reader.seen + 1))
           /\ acq'.losses = acq.losses
           /\ acq'.next = acq.next + 1
           /\ reader'.held = 0
           /\ wire[reader.seen + 1].kind # "answer"
    BY <1>3, ReadFrameTypes, Zenon
  <2>8. QED
    BY <2>4, <2>5, <2>6, <2>7, Zenon
<1>4. CASE HandOver
  <2>1. UNCHANGED <<caller, child, wire, cut>>
    BY <1>4 DEF HandOver
  <2>2. /\ reader.held # 0 /\ reader.state = "running" /\ reader.held = reader.seen
        /\ reader' = [reader EXCEPT !.held = 0]
        /\ wire[reader.held].id \in Id
        /\ wire[reader.held].id = TurnStart => reader.selected
    BY <1>4, HandOverTypes, Zenon
  <2>3. /\ reader'.held = 0 /\ reader'.seen = reader.seen /\ reader'.state = reader.state
        /\ reader'.selected = reader.selected
    BY <1>1, <2>2
  <2>4. Past' = Past + 1 /\ Past + 1 = reader.held /\ Past + 1 \in 1..Len(wire)
    BY <1>1, <2>2, <2>3 DEF Past
  <2>5. CASE acq'.retained = acq.retained /\ acq'.losses > acq.losses
    BY <1>2, <1>4, <2>1, <2>3, <2>4, <2>5, HandOverTypes DEF Quiet
  <2>6. CASE /\ acq'.retained = Append(acq.retained, FrameAt(reader.held))
             /\ \/ acq'.losses = acq.losses /\ acq'.next = acq.next + 1
                \/ acq'.losses > acq.losses
    <3>1. Retains(FrameAt(Past + 1))
      BY <1>2, <2>4, <2>6 DEF Retains
    <3>2. RetainsFrame
      BY <2>1, <2>2, <2>4, <3>1 DEF RetainsFrame
    <3>3. QED
      BY <1>4, <2>1, <2>3, <3>2, HandOverTypes
  <2>7. QED
    BY <1>4, <2>5, <2>6, HandOverTypes, Zenon
<1>5. CASE EndOfFile \/ ReaderFails \/ ReaderEnds \/ RefuseLine \/ EndOfErrors
  <2>1. UNCHANGED <<caller, child, wire, cut>>
    BY <1>5 DEF EndOfFile, ReaderFails, ReaderEnds, RefuseLine, EndOfErrors
  <2>2. QED
    BY <1>2, <1>5, <2>1, ReaderEndTypes DEF Quiet
<1>6. QED
  BY <1>3, <1>4, <1>5, Zenon DEF ReaderStep

(* Every step: the evidence and the wire only grow.                        *)
LEMMA Steps ==
    ASSUME TypeInv, ReaderInv, [Next]_vars
    PROVE  /\ TypeInv' /\ ReaderInv'
           /\ Quiet \/ RetainsRequest \/ RetainsFrame
           /\ Len(wire') >= Len(wire)
           /\ \A n \in 1..Len(wire) : wire'[n] = wire[n]
           /\ reader.selected => reader'.selected
<1>1. Len(wire) \in Nat /\ Past \in Nat /\ acq.losses \in Nat
  BY ReaderTypes, PastTypes, CallerTypes DEF Sound, Acquisition
<1>2. CASE CallerStep
  BY <1>1, <1>2, CallerSteps
<1>3. CASE ReaderStep
  BY <1>1, <1>3, ReaderSteps
<1>4. CASE ChildStep
  <2>1. UNCHANGED <<acq, reader>>
    BY <1>4, ChildTypes, Zenon
  <2>2. Quiet
    BY <1>1, <2>1 DEF Quiet, Past
  <2>3. QED
    BY <1>4, <2>1, <2>2, ChildTypes, Zenon
<1>5. CASE UNCHANGED vars
  <2>1. Quiet
    BY <1>1, <1>5 DEF Quiet, Past, vars
  <2>2. TypeInv' /\ ReaderInv'
    <3>1. TypeOK'
      BY <1>5, Zenon DEF vars, TypeInv, TypeOK
    <3>2. PlaceInv'
      BY <1>5, Zenon DEF vars, TypeInv, PlaceInv
    <3>3. ReaderInv'
      BY <1>5, Zenon DEF vars, ReaderInv
    <3>4. QED
      BY <3>1, <3>2, <3>3 DEF TypeInv
  <2>3. QED
    BY <1>1, <1>5, <2>1, <2>2 DEF vars
<1>6. QED
  BY <1>2, <1>3, <1>4, <1>5, Zenon DEF Next

----------------------------------------------------------------------------
(* The evidence.                                                           *)

LEMMA RetainedTypes ==
    ASSUME TypeInv
    PROVE  /\ acq.retained \in Seq(Envelope) /\ Len(acq.retained) \in Nat
           /\ DOMAIN acq.retained = 1..Len(acq.retained)
           /\ \A i \in DOMAIN acq.retained :
                 /\ acq.retained[i] \in Envelope
                 /\ acq.retained[i].kind \in {"request", "frame"}
                 /\ acq.retained[i].of \in Nat
                 /\ acq.retained[i].kind = "frame" =>
                       acq.retained[i] = FrameAt(acq.retained[i].of)
<1>1. acq.retained \in Seq(Envelope)
  BY DEF TypeInv, TypeOK
<1>2. /\ Len(acq.retained) \in Nat
      /\ DOMAIN acq.retained = 1..Len(acq.retained)
      /\ \A i \in DOMAIN acq.retained : acq.retained[i] \in Envelope
  BY <1>1
<1>3. \A e \in Envelope : /\ e.kind \in {"request", "frame"} /\ e.of \in Nat
                          /\ e.kind = "frame" => e = FrameAt(e.of)
  BY DEF Envelope, FrameAt
<1>4. QED
  BY <1>1, <1>2, <1>3, Zenon

(* What is retained stays where it is, and one envelope may join it.       *)
LEMMA Growth ==
    ASSUME TypeInv, NEW e, acq'.retained = Append(acq.retained, e)
    PROVE  /\ DOMAIN acq'.retained = 1..(Len(acq.retained) + 1)
           /\ Len(acq'.retained) = Len(acq.retained) + 1
           /\ \A i \in DOMAIN acq.retained :
                 i \in DOMAIN acq'.retained /\ acq'.retained[i] = acq.retained[i]
           /\ Len(acq.retained) + 1 \in DOMAIN acq'.retained
           /\ acq'.retained[Len(acq.retained) + 1] = e
           /\ \A i \in DOMAIN acq'.retained :
                 i \in DOMAIN acq.retained \/ i = Len(acq.retained) + 1
<1> DEFINE s == acq.retained
<1>1. s \in Seq(Envelope) /\ Len(s) \in Nat /\ DOMAIN s = 1..Len(s)
  BY RetainedTypes, Zenon
<1>2. /\ DOMAIN Append(s, e) = 1..(Len(s) + 1) /\ Len(Append(s, e)) = Len(s) + 1
      /\ \A i \in 1..Len(s) : Append(s, e)[i] = s[i]
      /\ Append(s, e)[Len(s) + 1] = e
  BY <1>1
<1>3. \A i \in 1..(Len(s) + 1) : i \in 1..Len(s) \/ i = Len(s) + 1
  BY <1>1
<1>4. 1..Len(s) \subseteq 1..(Len(s) + 1) /\ Len(s) + 1 \in 1..(Len(s) + 1)
  BY <1>1
<1>5. QED
  BY <1>1, <1>2, <1>3, <1>4, Zenon

LEMMA RetainedStays ==
    ASSUME TypeInv, NEW e, acq'.retained = Append(acq.retained, e)
    PROVE  /\ \A x : Retained(x) => Retained(x)'
           /\ Retained(e)'
BY Growth, Zenon DEF Retained

LEMMA PastGrows ==
    ASSUME TypeInv, ReaderInv, [Next]_vars
    PROVE  Past \in Nat /\ Past' \in Nat /\ Past' >= Past
<1>1. Past \in Nat
  BY PastTypes, Zenon
<1>2. TypeInv' /\ ReaderInv'
  BY Steps, Zenon
<1>3. reader'.seen \in Nat /\ reader'.held \in Nat /\ reader'.held <= reader'.seen
  BY <1>2 DEF TypeInv, TypeOK
<1>4. Past' \in Nat
  BY <1>2, <1>3 DEF Past, ReaderInv
<1>5. QED
  BY <1>1, <1>4, Steps DEF Quiet, RetainsRequest, RetainsFrame

(* The frames stay in order.                                               *)
LEMMA FramesStayInOrder ==
    ASSUME TypeInv, ReaderInv, FrameInv, [Next]_vars
    PROVE  FrameInv'
<1>1. /\ Past \in Nat /\ Len(acq.retained) \in Nat
      /\ DOMAIN acq.retained = 1..Len(acq.retained)
      /\ \A i \in DOMAIN acq.retained : acq.retained[i].of \in Nat
  BY PastTypes, RetainedTypes, Zenon
<1>2. /\ Past' \in Nat /\ Past' >= Past
      /\ \A i \in DOMAIN acq.retained :
            acq.retained[i].kind = "frame" => acq.retained[i].of \in 1..Past'
  <2>1. Past' \in Nat /\ Past' >= Past
    BY PastGrows, Zenon
  <2>2. 1..Past \subseteq 1..Past'
    BY <1>1, <2>1
  <2>3. QED
    BY <2>1, <2>2, Zenon DEF FrameInv
<1>3. CASE Quiet
  BY <1>2, <1>3 DEF Quiet, FrameInv
<1>4. CASE RetainsRequest
  <2>1. PICK e : e = RequestOf(caller.id)
    OBVIOUS
  <2>2. acq'.retained = Append(acq.retained, e) /\ e.kind # "frame"
    BY <1>4, <2>1 DEF RetainsRequest, Retains, RequestOf
  <2>3. QED
    BY <1>2, <2>2, Growth, Zenon DEF FrameInv
<1>5. CASE RetainsFrame
  <2>1. PICK e : e = FrameAt(Past + 1)
    OBVIOUS
  <2>2. /\ acq'.retained = Append(acq.retained, e) /\ e.of = Past + 1
        /\ Past' = Past + 1
    BY <1>5, <2>1 DEF RetainsFrame, Retains, FrameAt
  <2>3. ASSUME NEW i \in DOMAIN acq'.retained, acq'.retained[i].kind = "frame"
        PROVE  acq'.retained[i].of \in 1..Past'
    <3>1. Past + 1 \in 1..Past'
      BY <1>1, <2>2
    <3>2. QED
      BY <1>2, <2>2, <2>3, <3>1, Growth, Zenon
  <2>4. ASSUME NEW i \in DOMAIN acq'.retained, NEW j \in DOMAIN acq'.retained, i < j,
               acq'.retained[i].kind = "frame", acq'.retained[j].kind = "frame"
        PROVE  acq'.retained[i].of < acq'.retained[j].of
    <3>1. i \in 1..Len(acq.retained)
      BY <1>1, <2>2, <2>4, Growth
    <3>2. acq'.retained[i] = acq.retained[i] /\ acq.retained[i].of \in 1..Past
      BY <1>1, <2>2, <2>4, <3>1, Growth, Zenon DEF FrameInv
    <3>3. CASE j \in DOMAIN acq.retained
      BY <1>1, <2>2, <2>4, <3>1, <3>2, <3>3, Growth, Zenon DEF FrameInv
    <3>4. CASE j = Len(acq.retained) + 1
      <4>1. acq'.retained[j].of = Past + 1
        BY <2>2, <3>4, Growth, Zenon
      <4>2. QED
        BY <1>1, <3>2, <4>1
    <3>5. QED
      BY <2>2, <3>3, <3>4, Growth, Zenon
  <2>5. QED
    BY <2>3, <2>4 DEF FrameInv
<1>6. QED
  BY <1>3, <1>4, <1>5, Steps, Zenon

(* While no loss is counted, none of them goes missing.                    *)
LEMMA FramesStayWhole ==
    ASSUME TypeInv, ReaderInv, WholeInv, [Next]_vars
    PROVE  WholeInv'
<1> SUFFICES ASSUME acq'.losses = 0
             PROVE  /\ acq'.next = Len(acq'.retained)
                    /\ \A n \in 1..Past' : Retained(FrameAt(n))'
  BY DEF WholeInv
<1>1. /\ Past \in Nat /\ Len(acq.retained) \in Nat
      /\ acq.losses = 0 =>
            acq.next = Len(acq.retained) /\ \A n \in 1..Past : Retained(FrameAt(n))
  BY PastTypes, RetainedTypes, Zenon DEF WholeInv
<1>2. CASE Quiet
  <2>1. /\ acq'.retained = acq.retained /\ acq.losses = 0 /\ acq'.next = acq.next
        /\ Past' = Past
    BY <1>2 DEF Quiet
  <2>2. QED
    BY <1>1, <2>1 DEF Retained
<1>3. CASE RetainsRequest
  <2>1. PICK e : e = RequestOf(caller.id)
    OBVIOUS
  <2>2. /\ acq'.retained = Append(acq.retained, e) /\ acq.losses = 0
        /\ acq'.next = acq.next + 1 /\ Past' = Past
    BY <1>3, <2>1 DEF RetainsRequest, Retains
  <2>3. acq'.next = Len(acq'.retained)
    BY <1>1, <2>2, Growth, Zenon
  <2>4. \A n \in 1..Past : Retained(FrameAt(n))'
    BY <1>1, <2>2, RetainedStays, Zenon DEF Retained
  <2>5. QED
    BY <2>2, <2>3, <2>4
<1>4. CASE RetainsFrame
  <2>1. PICK e : e = FrameAt(Past + 1)
    OBVIOUS
  <2>2. /\ acq'.retained = Append(acq.retained, e) /\ acq.losses = 0
        /\ acq'.next = acq.next + 1 /\ Past' = Past + 1
    BY <1>4, <2>1 DEF RetainsFrame, Retains
  <2>3. acq'.next = Len(acq'.retained)
    BY <1>1, <2>2, Growth, Zenon
  <2>4. \A n \in 1..Past : Retained(FrameAt(n))'
    BY <1>1, <2>2, RetainedStays, Zenon DEF Retained
  <2>5. Retained(e)'
    BY <2>2, RetainedStays, Zenon
  <2>6. ASSUME NEW n \in 1..Past'
        PROVE  Retained(FrameAt(n))'
    <3>1. n \in 1..Past \/ n = Past + 1
      BY <1>1, <2>2
    <3>2. n = Past + 1 => FrameAt(n) = e
      BY <2>1
    <3>3. QED
      BY <2>4, <2>5, <3>1, <3>2, Zenon DEF Retained
  <2>7. QED
    BY <2>3, <2>6, Zenon
<1>5. QED
  BY <1>2, <1>3, <1>4, Steps, Zenon

(* A frame that is retained is one of the wire, and stays what it is.      *)
LEMMA FrameStays ==
    ASSUME TypeInv, ReaderInv, FrameInv, [Next]_vars,
           NEW i \in DOMAIN acq.retained, acq.retained[i].kind = "frame"
    PROVE  /\ acq.retained[i].of \in 1..Len(wire)
           /\ wire'[acq.retained[i].of] = wire[acq.retained[i].of]
<1>1. /\ Past \in Nat /\ Past <= Len(wire) /\ Len(wire) \in Nat
      /\ acq.retained[i].of \in 1..Past
  BY PastTypes, ReaderTypes, Zenon DEF FrameInv
<1>2. acq.retained[i].of \in 1..Len(wire)
  BY <1>1
<1>3. QED
  BY <1>2, Steps, Zenon

LEMMA SelectionStays ==
    ASSUME TypeInv, ReaderInv, FrameInv, SelectInv, [Next]_vars
    PROVE  SelectInv'
<1>1. ASSUME NEW i \in DOMAIN acq.retained, acq.retained[i].kind = "frame",
             wire'[acq.retained[i].of].kind = "answer",
             wire'[acq.retained[i].of].id = TurnStart
      PROVE  reader'.selected
  BY <1>1, FrameStays, Steps, Zenon DEF SelectInv
<1>2. CASE Quiet
  BY <1>1, <1>2, Zenon DEF Quiet, SelectInv
<1>3. CASE RetainsRequest
  <2>1. PICK e : e = RequestOf(caller.id)
    OBVIOUS
  <2>2. acq'.retained = Append(acq.retained, e) /\ e.kind # "frame"
    BY <1>3, <2>1 DEF RetainsRequest, Retains, RequestOf
  <2>3. QED
    BY <1>1, <2>2, Growth, Zenon DEF SelectInv
<1>4. CASE RetainsFrame
  <2>1. PICK e : e = FrameAt(Past + 1)
    OBVIOUS
  <2>2. /\ acq'.retained = Append(acq.retained, e) /\ e.of = Past + 1 /\ wire' = wire
    BY <1>4, <2>1 DEF RetainsFrame, Retains, FrameAt
  <2>3. wire'[e.of].kind = "answer" /\ wire'[e.of].id = TurnStart => reader'.selected
    BY <1>4, <2>2, Steps, Zenon DEF RetainsFrame
  <2>4. SUFFICES ASSUME NEW i \in DOMAIN acq'.retained,
                        acq'.retained[i].kind = "frame",
                        wire'[acq'.retained[i].of].kind = "answer",
                        wire'[acq'.retained[i].of].id = TurnStart
                 PROVE  reader'.selected
    BY Zenon DEF SelectInv
  <2>5. CASE i \in DOMAIN acq.retained
    BY <1>1, <2>2, <2>4, <2>5, Growth, Zenon
  <2>6. CASE i = Len(acq.retained) + 1
    BY <2>2, <2>3, <2>4, <2>6, Growth, Zenon
  <2>7. QED
    BY <2>2, <2>5, <2>6, Growth, Zenon
<1>5. QED
  BY <1>2, <1>3, <1>4, Steps, Zenon

(* What the child receives was retained before it was written.             *)
LEMMA RequestsAreRetained ==
    ASSUME TypeInv, ReaderInv, AskInv, [Next]_vars
    PROVE  AskInv'
<1>1. ASSUME NEW x, Retained(x)
      PROVE  Retained(x)'
  <2>1. CASE Quiet
    BY <1>1, <2>1 DEF Quiet, Retained
  <2>2. CASE RetainsRequest
    <3>1. PICK e : e = RequestOf(caller.id)
      OBVIOUS
    <3>2. acq'.retained = Append(acq.retained, e)
      BY <2>2, <3>1 DEF RetainsRequest, Retains
    <3>3. QED
      BY <1>1, <3>2, RetainedStays, Zenon
  <2>3. CASE RetainsFrame
    <3>1. PICK e : e = FrameAt(Past + 1)
      OBVIOUS
    <3>2. acq'.retained = Append(acq.retained, e)
      BY <2>3, <3>1 DEF RetainsFrame, Retains
    <3>3. QED
      BY <1>1, <3>2, RetainedStays, Zenon
  <2>4. QED
    BY <2>1, <2>2, <2>3, Steps, Zenon
<1>2. /\ child \in [state : {"absent", "running", "exited"}, stdin : BOOLEAN,
                    stdout : BOOLEAN, received : SUBSET (1..caller.id)]
      /\ Len(wire) \in Nat
  BY ReaderTypes DEF TypeInv, TypeOK
<1>3. /\ \/ child'.received = child.received
         \/ /\ caller.pc = "writing"
            /\ child'.received = child.received \cup {caller.id}
      /\ caller'.pc = "writing" =>
            \/ caller.pc = "writing" /\ caller'.id = caller.id
            \/ acq' = Retain(acq, RequestOf(caller.id)) /\ HasRoom(acq)
               /\ caller'.id = caller.id
      /\ \A n \in 1..Len(wire') :
            \/ wire'[n] = wire[n] /\ n \in 1..Len(wire)
            \/ wire'[n].id \in child.received \cup {0}
  <2>1. CASE CallerStep
    <3>1. wire' = wire
      BY <2>1, CallerSteps, Zenon
    <3>2. \/ child'.received = child.received
          \/ /\ caller.pc = "writing"
             /\ child'.received = child.received \cup {caller.id}
      BY <1>2, <2>1 DEF CallerStep, Start, Register, Custody, Write, Answered, Leave,
         Initialized, Drain, Quiesce, QuiesceStep, CloseInput, AwaitExit, JoinReader,
         JoinErrReader, Join, TakeCut
    <3>3. caller \in Caller
      BY CallerTypes, Zenon
    <3>4. CASE Custody
      BY <3>3, <3>4 DEF Custody, Goto, Fail, Caller
    <3>5. CASE Drain
      BY <3>5 DEF Drain
    <3>6. CASE CallerStep /\ ~Custody /\ ~Drain
      <4>1. CASE AwaitExit
        <5>1. AfterStage[caller.pc] \in {"terminating", "killing", "joining"}
          BY <4>1 DEF AwaitExit, Stages, AfterStage
        <5>2. caller'.pc # "writing"
          BY <3>3, <4>1, <5>1 DEF AwaitExit, Caller
        <5>3. QED
          BY <3>1, <3>2, <5>2
      <4>2. CASE ~AwaitExit
        <5>1. caller'.pc # "writing"
          BY <3>3, <3>6, <4>2 DEF CallerStep, Start, Register, Write, Answered, Leave,
             Initialized, Quiesce, QuiesceStep, CloseInput, JoinReader,
             JoinErrReader, Join, TakeCut, LoseStage, Goto, Fail, Caller
        <5>2. QED
          BY <3>1, <3>2, <5>1
      <4>3. QED
        BY <4>1, <4>2
    <3>7. QED
      BY <2>1, <3>1, <3>2, <3>4, <3>5, <3>6
  <2>2. CASE ReaderStep
    BY <2>2, ReaderSteps
  <2>3. CASE ChildStep
    <3>1. /\ child'.received = child.received /\ caller' = caller
          /\ \A n \in 1..Len(wire) : wire'[n] = wire[n]
          /\ \A n \in 1..Len(wire') :
                n > Len(wire) => wire'[n].id \in child.received \cup {0}
      BY <2>3, ChildTypes, Zenon
    <3>2. Len(wire') \in Nat
      <4>1. wire' \in Seq(Vocabulary)
        BY Steps, Zenon DEF TypeInv, TypeOK
      <4>2. QED
        BY <4>1
    <3>3. \A n \in 1..Len(wire') : n \in 1..Len(wire) \/ n > Len(wire)
      BY <1>2, <3>2
    <3>4. QED
      BY <3>1, <3>3, Zenon
  <2>4. CASE UNCHANGED vars
    BY <2>4 DEF vars
  <2>5. QED
    BY <2>1, <2>2, <2>3, <2>4 DEF Next
<1>4. ASSUME NEW id \in child'.received
      PROVE  Retained(RequestOf(id))'
  <2>1. Retained(RequestOf(id))
    BY <1>3, <1>4 DEF AskInv
  <2>2. PICK x : x = RequestOf(id)
    OBVIOUS
  <2>3. Retained(x)'
    BY <1>1, <2>1, <2>2
  <2>4. QED
    BY <2>2, <2>3
<1>5. ASSUME caller'.pc = "writing"
      PROVE  Retained(RequestOf(caller.id))' /\ caller'.id = caller.id
  <2>1. PICK x : x = RequestOf(caller.id)
    OBVIOUS
  <2>2. caller'.id = caller.id
    BY <1>3, <1>5
  <2>3. Retained(x)'
    <3>1. CASE caller.pc = "writing"
      BY <1>1, <2>1, <3>1 DEF AskInv
    <3>2. CASE acq' = Retain(acq, x) /\ HasRoom(acq)
      <4>1. x \in Envelope /\ Sound(acq)
        BY <2>1, CallerTypes DEF RequestOf, Envelope
      <4>2. acq'.retained = Append(acq.retained, x)
        BY <3>2, <4>1, RetainAcquisition, Zenon
      <4>3. QED
        BY <4>2, RetainedStays, Zenon
    <3>3. QED
      BY <1>3, <1>5, <2>1, <3>1, <3>2
  <2>4. QED
    BY <2>1, <2>2, <2>3 DEF RequestOf
<1>6. \A n \in 1..Len(wire') : wire'[n].id \in child'.received \cup {0}
  BY <1>3 DEF AskInv
<1>7. QED
  BY <1>4, <1>5, <1>6 DEF AskInv

(* A response is retained behind the request it answers.                   *)
LEMMA AnswersStayBehind ==
    ASSUME TypeInv, ReaderInv, FrameInv, AskInv, AnswerFollowsRequest, [Next]_vars
    PROVE  AnswerFollowsRequest'
<1>1. /\ Len(acq.retained) \in Nat /\ DOMAIN acq.retained = 1..Len(acq.retained)
      /\ Past \in Nat
  BY RetainedTypes, PastTypes, Zenon
<1>2. ASSUME NEW i \in DOMAIN acq.retained, acq.retained[i].kind = "frame",
             wire'[acq.retained[i].of].kind = "answer"
      PROVE  \E j \in 1..(i - 1) :
                acq.retained[j] = RequestOf(wire'[acq.retained[i].of].id)
  BY <1>2, FrameStays, Zenon DEF AnswerFollowsRequest
<1>3. ASSUME NEW e, acq'.retained = Append(acq.retained, e),
             e.kind = "frame" /\ wire'[e.of].kind = "answer" =>
                \E j \in DOMAIN acq.retained :
                   acq.retained[j] = RequestOf(wire'[e.of].id)
      PROVE  AnswerFollowsRequest'
  <2>1. SUFFICES ASSUME NEW i \in DOMAIN acq'.retained,
                        acq'.retained[i].kind = "frame",
                        wire'[acq'.retained[i].of].kind = "answer"
                 PROVE  \E j \in 1..(i - 1) :
                           acq'.retained[j] = RequestOf(wire'[acq'.retained[i].of].id)
    BY Zenon DEF AnswerFollowsRequest
  <2>2. CASE i \in DOMAIN acq.retained
    <3>1. acq'.retained[i] = acq.retained[i]
      BY <1>3, <2>2, Growth, Zenon
    <3>2. PICK j \in 1..(i - 1) :
             acq.retained[j] = RequestOf(wire'[acq.retained[i].of].id)
      BY <1>2, <2>1, <2>2, <3>1, Zenon
    <3>3. j \in DOMAIN acq.retained
      BY <1>1, <2>2, <3>2
    <3>4. acq'.retained[j] = acq.retained[j]
      BY <1>3, <3>3, Growth, Zenon
    <3>5. QED
      BY <3>1, <3>2, <3>4, Zenon
  <2>3. CASE i = Len(acq.retained) + 1
    <3>1. acq'.retained[i] = e
      BY <1>3, <2>3, Growth, Zenon
    <3>2. PICK j \in DOMAIN acq.retained : acq.retained[j] = RequestOf(wire'[e.of].id)
      BY <1>3, <2>1, <3>1, Zenon
    <3>3. j \in 1..(i - 1)
      BY <1>1, <2>3, <3>2
    <3>4. acq'.retained[j] = acq.retained[j]
      BY <1>3, <3>2, Growth, Zenon
    <3>5. QED
      BY <3>1, <3>2, <3>3, <3>4, Zenon
  <2>4. QED
    BY <1>3, <2>2, <2>3, Growth, Zenon
<1>4. CASE Quiet
  <2>1. acq'.retained = acq.retained
    BY <1>4 DEF Quiet
  <2>2. QED
    BY <1>2, <2>1, Zenon DEF AnswerFollowsRequest
<1>5. CASE RetainsRequest
  <2>1. PICK e : e = RequestOf(caller.id)
    OBVIOUS
  <2>2. acq'.retained = Append(acq.retained, e) /\ e.kind # "frame"
    BY <1>5, <2>1 DEF RetainsRequest, Retains, RequestOf
  <2>3. QED
    BY <1>3, <2>2, Zenon
<1>6. CASE RetainsFrame
  <2>1. PICK e : e = FrameAt(Past + 1)
    OBVIOUS
  <2>2. /\ acq'.retained = Append(acq.retained, e) /\ e.of = Past + 1
        /\ wire' = wire /\ Past + 1 \in 1..Len(wire)
        /\ wire[Past + 1].kind = "answer" => wire[Past + 1].id \in Id
    BY <1>6, <2>1 DEF RetainsFrame, Retains, FrameAt
  <2>3. wire[Past + 1].kind = "answer" =>
           wire[Past + 1].id \in child.received
    <3>1. 0 \notin Id
      BY DEF Id
    <3>2. QED
      BY <2>2, <3>1, Zenon DEF AskInv
  <2>4. wire[Past + 1].kind = "answer" =>
           Retained(RequestOf(wire[Past + 1].id))
    BY <2>3, Zenon DEF AskInv
  <2>5. QED
    BY <1>3, <2>2, <2>4, Zenon DEF Retained
<1>7. QED
  BY <1>4, <1>5, <1>6, Steps, Zenon

----------------------------------------------------------------------------
(* The cut.                                                                *)

(* Before a cut nothing has been seen of its end.                          *)
LEMMA NoCutYet ==
    ASSUME TypeInv, CutInv,
           Start \/ Register \/ Custody \/ Write \/ Answered \/ Leave \/ Initialized
    PROVE  CutInv'
<1>1. caller \in Caller /\ caller.cuts \in Nat
  <2>1. caller \in Caller /\ caller.cuts \in 0..MaxCuts
    BY CallerTypes, Zenon
  <2>2. QED
    BY <2>1
<1>2. caller.cuts = 0
  BY DEF TypeInv, PlaceInv, Requesting, Start, Register, Custody, Write, Answered,
         Leave, Initialized
<1>3. ~cut.quiesced /\ cut' = cut
  BY <1>1, <1>2 DEF CutInv, Start, Register, Custody, Write, Answered, Leave,
     Initialized
<1>4. caller'.pc \in Requesting \cup {"idle", "closing"}
  BY <1>1 DEF Start, Register, Custody, Write, Answered, Leave, Initialized, Goto, Fail,
     Caller, Requesting
<1>5. Closing \cap (Requesting \cup {"idle", "closing"}) = {"closing"}
  BY DEF Closing, Joining, Stages, Requesting
<1>6. caller'.pc \notin Closing \ {"closing"} /\ caller'.pc \notin Joining
      /\ caller'.pc \notin {"joiningErr", "cutting"}
  BY <1>4, <1>5 DEF Closing, Joining
<1>7. QED
  BY <1>3, <1>6 DEF CutInv, Joining

LEMMA CutBegins ==
    ASSUME TypeInv, CutInv, Drain \/ Quiesce
    PROVE  CutInv'
<1>1. /\ caller \in Caller /\ acq \in Acquisition /\ caller.pc = "idle"
      /\ caller.cuts \in Nat
  <2>1. caller \in Caller /\ caller.cuts \in 0..MaxCuts /\ Sound(acq)
    BY CallerTypes, Zenon
  <2>2. QED
    BY <2>1 DEF Sound, Drain, Quiesce
<1>2. CASE Drain
  <2>1. acq'.next = acq.next /\ acq'.losses = acq.losses
    BY <1>1, <1>2 DEF Drain, Acquisition
  <2>2. UNCHANGED <<caller, cut, child, reader, errReader>>
    BY <1>2 DEF Drain
  <2>3. QED
    BY <2>1, <2>2 DEF CutInv
<1>3. CASE Quiesce
  <2>1. UNCHANGED <<child, reader, errReader>>
    BY <1>3 DEF Quiesce
  <2>2. CASE child.state = "absent"
    <3>1. ~cut'.quiesced /\ caller'.pc = "idle"
      BY <1>1, <1>3, <2>2 DEF Quiesce, Caller
    <3>2. QED
      BY <3>1 DEF CutInv, Closing, Stages, Joining
  <2>3. CASE child.state # "absent"
    <3>1. caller'.pc = "closing" /\ UNCHANGED <<acq, cut>> /\ caller'.cuts = caller.cuts
      BY <1>1, <1>3, <2>3 DEF Quiesce, Caller
    <3>2. QED
      BY <2>1, <3>1 DEF CutInv, Joining
  <2>4. QED
    BY <2>2, <2>3
<1>4. QED
  BY <1>2, <1>3

(* What a good cut has seen cannot be undone, and once a cut was good its  *)
(* stages lose nothing any more.                                           *)
LEMMA CutGoesOn ==
    ASSUME TypeInv, ReaderInv, CutInv, QuiesceStep
    PROVE  CutInv'
<1>1. caller \in Caller /\ caller.cuts \in Nat
      /\ child \in [state : {"absent", "running", "exited"}, stdin : BOOLEAN,
                    stdout : BOOLEAN, received : SUBSET (1..caller.id)]
  <2>1. caller \in Caller /\ caller.cuts \in 0..MaxCuts
    BY CallerTypes, Zenon
  <2>2. caller.cuts \in Nat
    BY <2>1
  <2>3. QED
    BY <2>1, <2>2, Zenon DEF TypeInv, TypeOK
<1>2. CASE CloseInput
  <2>1. /\ caller.pc = "closing" /\ caller'.pc = "exiting" /\ caller'.cuts = caller.cuts
        /\ UNCHANGED <<cut, reader, errReader>>
        /\ child'.state = child.state
        /\ \/ ~child'.stdin /\ UNCHANGED acq
           \/ child.stdin /\ ~caller'.ok
    BY <1>1, <1>2 DEF CloseInput, LoseStage, Fail, Caller
  <2>2. cut.quiesced => ~child'.stdin /\ UNCHANGED acq
    BY <2>1 DEF CutInv
  <2>3. QED
    BY <2>1, <2>2 DEF CutInv, Joining
<1>3. CASE AwaitExit
  <2>1. /\ caller.pc \in Stages
        /\ AfterStage[caller.pc] \in {"terminating", "killing", "joining"}
        /\ UNCHANGED <<cut, child, reader, errReader>>
    BY <1>3 DEF AwaitExit, Stages, AfterStage
  <2>2. caller.pc \in Closing \ {"closing"}
    BY <2>1 DEF Closing, Stages
  <2>3. CASE /\ child.state = "exited"
             /\ caller' = [caller EXCEPT !.pc = "joining", !.exit = Disposition[caller.pc]]
             /\ UNCHANGED acq
    <3>1. caller'.pc = "joining" /\ caller'.ok = caller.ok /\ caller'.cuts = caller.cuts
      BY <1>1, <2>3 DEF Caller
    <3>2. QED
      BY <2>1, <2>2, <2>3, <3>1 DEF CutInv, Joining
  <2>4. CASE /\ child.state = "running"
             /\ caller' = [caller EXCEPT !.pc = AfterStage[caller.pc], !.ok = FALSE,
                                         !.exit = "EXIT_UNCONFIRMED"]
    <3>1. ~caller'.ok /\ ~cut.quiesced
      BY <1>1, <2>4 DEF Caller, CutInv
    <3>2. QED
      BY <2>1, <3>1 DEF CutInv
  <2>5. QED
    BY <1>3, <2>3, <2>4 DEF AwaitExit
<1>4. CASE JoinReader
  <2>1. /\ caller.pc = "joining" /\ caller'.pc = "joiningErr"
        /\ caller'.cuts = caller.cuts
        /\ UNCHANGED <<cut, child, reader, errReader>>
        /\ \/ reader.state = "CLEAN_EOF" /\ caller'.ok = caller.ok /\ UNCHANGED acq
           \/ reader.state # "CLEAN_EOF" /\ ~caller'.ok
    BY <1>1, <1>4 DEF JoinReader, Join, Joined, LoseStage, Goto, Fail, Caller
  <2>2. caller.pc \in Closing \ {"closing"} /\ caller.pc \in Joining
    BY <2>1 DEF Closing, Joining
  <2>3. QED
    BY <2>1, <2>2 DEF CutInv
<1>5. CASE JoinErrReader
  <2>1. /\ caller.pc = "joiningErr" /\ caller'.pc = "cutting"
        /\ caller'.cuts = caller.cuts
        /\ UNCHANGED <<cut, child, reader, errReader>>
        /\ \/ errReader.state = "CLEAN_EOF" /\ caller'.ok = caller.ok /\ UNCHANGED acq
           \/ errReader.state # "CLEAN_EOF" /\ ~caller'.ok
    BY <1>1, <1>5 DEF JoinErrReader, Join, Joined, LoseStage, Goto, Fail, Caller
  <2>2. caller.pc \in Closing \ {"closing"} /\ caller.pc \in Joining
    BY <2>1 DEF Closing, Joining
  <2>3. QED
    BY <2>1, <2>2 DEF CutInv
<1>6. CASE TakeCut
  <2>1. /\ caller.pc = "cutting" /\ caller'.pc = "idle"
        /\ caller'.cuts = caller.cuts + 1
        /\ UNCHANGED <<acq, child, reader, errReader>>
        /\ cut' = [quiesced |-> caller.ok, losses |-> acq.losses,
                   disposition |-> caller.exit, highWater |-> acq.next]
    BY <1>1, <1>6 DEF TakeCut, Caller
  <2>2. caller.pc \in Closing \ {"closing"} /\ caller.pc \in Joining
    BY <2>1 DEF Closing, Joining
  <2>3. caller'.pc \notin Closing /\ caller'.pc \notin Joining
    BY <2>1 DEF Closing, Joining, Stages
  <2>4. caller'.cuts > 0
    BY <1>1, <2>1
  <2>5. QED
    BY <2>1, <2>2, <2>3, <2>4 DEF CutInv
<1>7. QED
  BY <1>2, <1>3, <1>4, <1>5, <1>6 DEF QuiesceStep

(* A reader at its end of file acquires nothing more.                      *)
LEMMA ReadersLeaveTheCut ==
    ASSUME TypeInv, ReaderInv, CutInv, ReaderStep
    PROVE  CutInv'
<1>1. UNCHANGED <<caller, child, cut>>
  BY DEF ReaderStep, ReadFrame, HandOver, EndOfFile, ReaderFails, ReaderEnds,
         RefuseLine, EndOfErrors
<1>2. reader.state = "CLEAN_EOF" =>
         reader' = reader /\ (RefuseLine \/ EndOfErrors)
  BY DEF ReaderStep, ReaderInv, ReadFrame, HandOver, EndOfFile, ReaderFails,
         ReaderEnds, RefuseLine, EndOfErrors
<1>3. errReader.state = "CLEAN_EOF" => errReader' = errReader
  BY DEF ReaderStep, ReadFrame, HandOver, EndOfFile, ReaderFails, ReaderEnds,
         RefuseLine, EndOfErrors
<1>4. ~cut.quiesced
  BY <1>2 DEF CutInv, RefuseLine, EndOfErrors
<1>5. QED
  BY <1>1, <1>2, <1>3, <1>4 DEF CutInv

LEMMA CutStays ==
    ASSUME TypeInv, ReaderInv, CutInv, [Next]_vars
    PROVE  CutInv'
<1>1. CASE CallerStep
  BY <1>1, NoCutYet, CutBegins, CutGoesOn, Zenon DEF CallerStep
<1>2. CASE ReaderStep
  BY <1>2, ReadersLeaveTheCut, Zenon
<1>3. CASE ChildStep
  <2>1. /\ UNCHANGED <<acq, caller, reader, errReader, cut>>
        /\ child'.stdin = child.stdin
        /\ child'.state = child.state \/ child'.state = "exited"
    BY <1>3, ChildTypes, Zenon
  <2>2. QED
    BY <2>1 DEF CutInv
<1>4. CASE UNCHANGED vars
  BY <1>4 DEF vars, CutInv
<1>5. QED
  BY <1>1, <1>2, <1>3, <1>4, Zenon DEF Next

----------------------------------------------------------------------------
(* The theorems.                                                           *)

(* The evidence is what the wire says and the cut what the evidence says:  *)
(* the invariant the others follow from.                                   *)
THEOREM ClientInvariant == Spec => []IInv
<1>1. Init => IInv
  <2> SUFFICES ASSUME Init PROVE IInv
    OBVIOUS
  <2>1. /\ acq = [next |-> 0, retained |-> <<>>, queued |-> 0, losses |-> 0]
        /\ reader.held = 0 /\ reader.seen = 0 /\ reader.state = "NOT_STARTED"
        /\ caller.pc = "new" /\ caller.id = 0 /\ caller.cuts = 0
        /\ child.received = {} /\ child.state = "absent" /\ wire = <<>> /\ ~cut.quiesced
    BY DEF Init, NoAcquisition, NoCut
  <2>2. TypeOK
    <3>0. /\ 0 \in 0..MessageItems /\ 0 \in 0..MaxRequests
          /\ 0 \in 0..MaxCuts /\ 0 \in 0..MaxFrames
      BY BoundsAssumption
    <3>1. Sound(acq)
      BY <2>1, BoundsAssumption DEF Sound, Acquisition
    <3>2. queues \in [{"notification", "server request"} -> 0..MessageItems]
      BY <3>0 DEF Init
    <3>3. pending \subseteq Id /\ reply \subseteq Id /\ wire \in Seq(Vocabulary)
          /\ Len(wire) = 0
      <4>1. pending \subseteq Id /\ reply \subseteq Id
        BY Zenon DEF Init
      <4>2. <<>> \in Seq(Vocabulary) /\ Len(<<>>) = 0
        OBVIOUS
      <4>3. QED
        BY <2>1, <4>1, <4>2, Zenon
    <3>4. caller \in Caller
      BY <3>0 DEF Init, Caller, Places, ExitDispositions
    <3>5. /\ reader \in [state : ReaderStates, seen : Nat, held : Nat,
                         selected : BOOLEAN]
          /\ errReader \in [state : {"NOT_STARTED", "running", "CLEAN_EOF"},
                            refused : 0..MaxFrames]
      BY <3>0 DEF Init, ReaderStates
    <3>6. /\ child \in [state : {"absent", "running", "exited"}, stdin : BOOLEAN,
                        stdout : BOOLEAN, received : SUBSET (1..caller.id)]
          /\ cut \in [quiesced : BOOLEAN, losses : Nat,
                      disposition : ExitDispositions, highWater : Nat]
      BY DEF Init, NoCut, ExitDispositions
    <3>7. QED
      BY <2>1, <3>1, <3>2, <3>3, <3>4, <3>5, <3>6
         DEF TypeOK, Sound, Acquisition, Caller
  <2>3. TypeInv
    BY <2>1, <2>2 DEF TypeInv, PlaceInv, Requesting, Closing, Stages, Joining
  <2>4. ReaderInv /\ FrameInv /\ WholeInv /\ AskInv
    BY <2>1 DEF ReaderInv, FrameInv, WholeInv, AskInv, Past
  <2>5. AnswerFollowsRequest /\ SelectInv
    BY <2>1 DEF AnswerFollowsRequest, SelectInv
  <2>6. CutInv
    BY <2>1 DEF CutInv, Closing, Stages, Joining
  <2>7. QED
    BY <2>3, <2>4, <2>5, <2>6 DEF IInv
<1>2. IInv /\ [Next]_vars => IInv'
  BY Steps, FramesStayInOrder, FramesStayWhole, SelectionStays, RequestsAreRetained,
     AnswersStayBehind, CutStays, Zenon DEF IInv
<1>3. QED
  BY <1>1, <1>2, PTL DEF Spec

(* Every variable of the client stays within its range.                    *)
THEOREM ClientTypes == Spec => []TypeOK
<1>1. IInv => TypeOK
  BY DEF IInv, TypeInv
<1>2. QED
  BY <1>1, ClientInvariant, PTL

(* While no loss is counted, the frames retained are those the reader is   *)
(* done with, in order.                                                    *)
LEMMA WholeEvidence ==
    ASSUME IInv, acq.losses = 0
    PROVE  Whole(Past)
<1> DEFINE frames == {i \in DOMAIN acq.retained : acq.retained[i].kind = "frame"}
<1>1. acq.next = Len(acq.retained)
  BY DEF IInv, WholeInv
<1>2. {acq.retained[i].of : i \in frames} \subseteq 1..Past
  BY DEF IInv, FrameInv
<1>3. ASSUME NEW n \in 1..Past
      PROVE  n \in {acq.retained[i].of : i \in frames}
  <2>1. PICK i \in DOMAIN acq.retained : acq.retained[i] = FrameAt(n)
    BY DEF IInv, WholeInv, Retained
  <2>2. i \in frames /\ acq.retained[i].of = n
    BY <2>1 DEF FrameAt
  <2>3. QED
    BY <2>2
<1>4. \A i, j \in frames : i < j => acq.retained[i].of < acq.retained[j].of
  BY DEF IInv, FrameInv
<1>5. {acq.retained[i].of : i \in frames} = 1..Past
  BY <1>2, <1>3, Zenon
<1>6. QED
  BY <1>1, <1>4, <1>5, Zenon DEF Whole

(* As long as no loss is counted the evidence has every frame read so far, *)
(* in order, and every request the child received.                         *)
THEOREM EvidenceStaysWhole == Spec => []EvidenceIsWhole
<1>1. IInv => EvidenceIsWhole
  <2> SUFFICES ASSUME IInv, acq.losses = 0
               PROVE  /\ reader.state # "failing" =>
                            Whole(IF reader.held = 0 THEN reader.seen
                                  ELSE reader.seen - 1)
                      /\ \A id \in child.received :
                            \E i \in DOMAIN acq.retained :
                               acq.retained[i] = RequestOf(id)
    BY DEF EvidenceIsWhole
  <2>1. reader.state # "failing" =>
           Past = IF reader.held = 0 THEN reader.seen ELSE reader.seen - 1
    BY DEF Past
  <2>2. Whole(Past)
    BY WholeEvidence
  <2>3. QED
    BY <2>1, <2>2 DEF IInv, AskInv, Retained
<1>2. QED
  BY <1>1, ClientInvariant, PTL

(* A quiesced cut without losses is the whole of the conversation, and     *)
(* stays so.                                                               *)
THEOREM CleanCutStaysComplete == Spec => []CleanCutIsComplete
<1>1. IInv => CleanCutIsComplete
  <2> SUFFICES ASSUME IInv, cut.quiesced, cut.losses = 0
               PROVE  /\ child.state = "exited" /\ ~child.stdout
                      /\ cut.highWater = acq.next
                      /\ acq.losses = 0
                      /\ Whole(Len(wire))
    BY DEF CleanCutIsComplete
  <2>1. /\ child.state = "exited" /\ reader.state = "CLEAN_EOF"
        /\ cut.highWater = acq.next /\ acq.losses = 0
    BY DEF IInv, CutInv
  <2>2. /\ ~child.stdout /\ reader.held = 0 /\ reader.seen = Len(wire)
    BY <2>1 DEF IInv, ReaderInv
  <2>3. Past = Len(wire)
    BY <2>1, <2>2 DEF Past
  <2>4. Whole(Past)
    BY <2>1, WholeEvidence
  <2>5. QED
    BY <2>1, <2>2, <2>3, <2>4
<1>2. QED
  BY <1>1, ClientInvariant, PTL

(* No response is retained ahead of its request.                           *)
THEOREM AnswersFollowRequests == Spec => []AnswerFollowsRequest
<1>1. IInv => AnswerFollowsRequest
  BY DEF IInv
<1>2. QED
  BY <1>1, ClientInvariant, PTL

(* Once the response to turn/start is in the evidence, no output of the    *)
(* turn is lost for its size.                                              *)
THEOREM TurnOutputStaysKept == Spec => TurnOutputIsKept
<1>1. ASSUME IInv, [Next]_vars, NEW i \in DOMAIN acq.retained,
             acq.retained[i].kind = "frame",
             wire[acq.retained[i].of].kind = "answer",
             wire[acq.retained[i].of].id = TurnStart,
             reader'.seen = reader.seen + 1,
             wire[reader.seen + 1].kind = "notification",
             wire[reader.seen + 1].large,
             queues["notification"] < MessageItems,
             HasRoom(acq)
      PROVE  acq'.losses = acq.losses
  <2>1. TypeInv /\ ReaderInv /\ reader.selected
    BY <1>1, Zenon DEF IInv, SelectInv
  <2>2. /\ reader.seen \in Nat
        /\ reader \in [state : ReaderStates, seen : Nat, held : Nat, selected : BOOLEAN]
    BY <2>1, ReaderTypes, Zenon
  <2>3. ReadFrame \/ ReaderFails
    <3>1. reader'.seen # reader.seen
      BY <1>1, <2>2
    <3>2. CASE CallerStep
      <4>1. UNCHANGED reader \/ Start \/ Leave
        BY <3>2 DEF CallerStep, Register, Custody, Write, Answered, Initialized, Drain,
           Quiesce, QuiesceStep, CloseInput, AwaitExit, JoinReader, JoinErrReader, Join,
           TakeCut
      <4>2. reader'.seen = reader.seen
        BY <2>2, <4>1 DEF Start, Leave
      <4>3. QED
        BY <3>1, <4>2
    <3>3. CASE ReaderStep
      BY <2>2, <3>1, <3>3 DEF ReaderStep, HandOver, EndOfFile, ReaderEnds, RefuseLine,
         EndOfErrors
    <3>4. CASE ChildStep \/ UNCHANGED vars
      BY <3>1, <3>4 DEF ChildStep, Emit, ChildExits, CloseStdout, vars
    <3>5. QED
      BY <1>1, <3>2, <3>3, <3>4 DEF Next
  <2>4. ~ReaderFails
    BY <1>1 DEF ReaderFails
  <2>5. ReadFrame
    BY <2>3, <2>4
  <2>6. QED
    BY <1>1, <2>1, <2>5, ReadFrameTypes, Zenon
<1>2. IInv /\ [Next]_vars =>
        [\A i \in DOMAIN acq.retained :
           LET f == wire[reader.seen + 1] IN
           /\ acq.retained[i].kind = "frame"
           /\ wire[acq.retained[i].of].kind = "answer"
           /\ wire[acq.retained[i].of].id = TurnStart
           /\ reader'.seen = reader.seen + 1
           /\ f.kind = "notification" /\ f.large
           /\ queues["notification"] < MessageItems
           /\ HasRoom(acq)
           => acq'.losses = acq.losses]_vars
  BY <1>1, Zenon
<1>3. QED
  BY <1>2, ClientInvariant, PTL DEF Spec, TurnOutputIsKept

=============================================================================
