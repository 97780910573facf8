----------------------- MODULE AdmissionHistoryProofs -----------------------
(***************************************************************************)
(* Proofs that the registers of Admission's mapper tell the history it     *)
(* consumed: a discrepancy is reported exactly of an illegal history, the  *)
(* disposition is what the history proves, and a clean cut is complete.    *)
(***************************************************************************)
EXTENDS AdmissionProofs, DataLemmas

Here(w) == Len(w) + 1

(* The requests without an answer, the responses not yet complete and the  *)
(* client's requests without a response, at the end of the history w.      *)
Pending(w) == {j \in Of(w, {"request"}) : ~Answered(w, j, Here(w))}

Opened(w) == {j \in Of(w, {"created"}) : ~Finished(w, j, Here(w))}

Unreplied(w) == {j \in Of(w, {"client_request"}) : ~Replied(w, j, Here(w))}

(* What each register of an undisturbed mapper says of the history.        *)
RequestsTold(m, w) ==
    /\ \A j \in Pending(w) : m.pending = RequestOf(w[j]) /\ m.startedAt = w[j].at
    /\ m.pending # NoRequest => Pending(w) # {}
    /\ \A j, k \in Of(w, {"request"}) : w[j].occurrence = w[k].occurrence => j = k
    /\ m.completed = {w[j].occurrence : j \in Of(w, {"request"}) \ Pending(w)}

ResponsesTold(m, w) ==
    /\ m.responses = {w[j].response : j \in Of(w, {"created"})}
    /\ \A j, k \in Of(w, {"created"}) : w[j].response = w[k].response => j = k
    /\ \A j \in Opened(w) : m.open = w[j].response
    /\ m.open # None => Opened(w) # {}
    /\ m.pending # NoRequest =>
           m.open = None /\ Of(w, {"refused"}) = {} /\ m.startedAt >= m.last
    /\ \A j \in Of(w, {"created"}) : w[j].at <= m.last
    /\ m.last # 0 => \E j \in Of(w, {"created", "refused"}) : w[j].at = m.last

PhaseTold(m, w) ==
    /\ Admitted(m) <=> Of(w, {"created"}) # {}
    /\ Admitted(m) => \E j \in Of(w, {"created"}) :
           m.identity = w[j].response /\ \A k \in Of(w, {"created"}) : j <= k
    /\ m.disposition = "EXECUTION_ADMITTED" <=> Of(w, {"created"}) # {}
    /\ m.disposition = "NOT_ADMITTED_MODEL_AT_CAPACITY" <=> Of(w, {"refused"}) # {}
    /\ m.disposition # "ADMISSION_INDETERMINATE"
    /\ m.mechanism = "PARKED_NOT_ADMITTED" <=> Of(w, {"refused"}) # {}
    /\ m.mechanism = "WAITING_APPROVAL" <=> Of(w, {"approval"}) # {}
    /\ m.mechanism = "PROVIDER_COMPLETED" <=>
           \E j \in Of(w, Ends) : Earlier(w, j, {"created"}) # {}
    /\ m.mechanism = "PROVIDER_COMPLETED" => m.pending = NoRequest /\ m.open = None
    /\ m.mechanism = "WAITING_APPROVAL" => Admitted(m)
    /\ ~Disturbed(m)

Issued(x) == [id |-> x.client, method |-> x.method]

ClientsTold(m, w) ==
    /\ m.clients = {Issued(w[j]) : j \in Unreplied(w)}
    /\ \A j, k \in Unreplied(w) : w[j].client = w[k].client => j = k

Tells(m, w) ==
    RequestsTold(m, w) /\ ResponsesTold(m, w) /\ PhaseTold(m, w) /\ ClientsTold(m, w)

(* What the state of the echo says of it.                                  *)
InputTold(e, w) ==
    LET begun == EarlierEcho(w, Here(w), "input_started")
    IN  /\ e.input <=> Starts(w, Here(w)) # {}
        /\ \A j \in begun : e.item = w[j].item
        /\ e.item # None => begun # {}
        /\ e.done <=> EarlierEcho(w, Here(w), "input_completed") # {}

OutputTold(e, w) ==
    LET begun == EarlierEcho(w, Here(w), "agent_started")
        ended == EarlierEcho(w, Here(w), "agent_completed")
    IN  /\ \A j \in OutputAt(w, Here(w)) : e.agent = w[j].item
        /\ e.agent # None => OutputAt(w, Here(w)) # {}
        /\ e.agent \notin e.completed
        /\ \A j, k \in begun : w[j].item = w[k].item => j = k
        /\ e.completed = {w[j].item : j \in ended}
        /\ \A k \in ended : \E j \in begun : w[j].item = w[k].item
        /\ \A k \in ended : (\A j \in ended : j <= k) => e.last = <<w[k].item, w[k].text>>
        /\ ended = {} => e.last = <<None, None>>
        /\ e.bytes = Bytes(w, Of(w, {"agent_completed"}))

EchoTold(e, w) == Echoing => InputTold(e, w) /\ OutputTold(e, w)

(* The disposition is what the legal part of the history proves.           *)
Proved(m, w) ==
    LET legal == {j \in Of(w, {"created"}) : \A i \in 1 .. j : LegalAt(w, i)}
    IN  /\ m.disposition = "EXECUTION_ADMITTED" <=> legal # {}
        /\ Admitted(m) => \E j \in legal : /\ m.identity = w[j].response
                                           /\ \A k \in legal : j <= k

(* What ties mapper, drawn ordinals, losses and history together.          *)
Chronicle(m, drawn, missed, w) ==
    /\ m.expected <= drawn
    /\ ~Disturbed(m) =>
           /\ w \in Seq(Messages)
           /\ Legal(w)
           /\ Len(w) = m.expected
           /\ Tells(m, w)
           /\ m.expected = drawn => EchoTold(m.echo, w)
    /\ Disturbed(m) =>
           /\ m.cut = "open" => ~Legal(w)
           /\ m.disposition # "NOT_ADMITTED_MODEL_AT_CAPACITY"
    /\ Proved(m, w)
    /\ m.cut = "clean" =>
           /\ ~Disturbed(m) /\ ~missed /\ drawn = m.expected
           /\ m.clients = {}
           /\ m.mechanism \in {"PROVIDER_COMPLETED", "PARKED_NOT_ADMITTED"}

HistoryInv == Chronicle(mapper, position, lost, log)

----------------------------------------------------------------------------
(* A history that goes on keeps what it said.                              *)

Prolongs(v, w) ==
    /\ v \in Seq(Seen) /\ w \in Seq(Seen)
    /\ Len(w) <= Len(v)
    /\ \A j \in 1 .. Len(w) : v[j] = w[j]

(* The indices of a history below one of its positions.                    *)
LEMMA EarlierFields ==
    ASSUME NEW w \in Seq(Seen), NEW i \in 1 .. Here(w), NEW T
    PROVE  /\ Earlier(w, i, T) = {j \in 1 .. Len(w) : j < i /\ w[j].type \in T}
           /\ Of(w, T) = {j \in 1 .. Len(w) : w[j].type \in T}
           /\ Earlier(w, Here(w), T) = Of(w, T)
BY DEF Earlier, Of, Here

(* What is earlier than a position of w is the same in v.                  *)
LEMMA SameEarlier ==
    ASSUME NEW v, NEW w, Prolongs(v, w), NEW i \in 1 .. Here(w), NEW T
    PROVE  Earlier(v, i, T) = Earlier(w, i, T)
<1>1. /\ Earlier(w, i, T) = {j \in 1 .. Len(w) : j < i /\ w[j].type \in T}
      /\ Earlier(v, i, T) = {j \in 1 .. Len(v) : j < i /\ v[j].type \in T}
  BY EarlierFields DEF Prolongs, Here
<1> QED BY <1>1 DEF Prolongs, Here

(* So is what was answered, finished and replied,                          *)
LEMMA SameExchange ==
    ASSUME NEW v, NEW w, Prolongs(v, w), NEW i \in 1 .. Here(w), NEW j \in 1 .. Len(w)
    PROVE  /\ Answered(v, j, i) <=> Answered(w, j, i)
           /\ Finished(v, j, i) <=> Finished(w, j, i)
           /\ Replied(v, j, i) <=> Replied(w, j, i)
<1>1. \A T : Earlier(v, i, T) = Earlier(w, i, T) /\ Earlier(w, i, T) \subseteq 1 .. Len(w)
  BY SameEarlier, EarlierFields DEF Prolongs
<1>2. v[j] = w[j] /\ \A k \in 1 .. Len(w) : v[k] = w[k]
  BY DEF Prolongs
<1>3. Answered(v, j, i) <=> Answered(w, j, i)
  BY <1>1, <1>2 DEF Answered, SameRequest
<1>4. Finished(v, j, i) <=> Finished(w, j, i)
  BY <1>1, <1>2 DEF Finished
<1>5. Replied(v, j, i) <=> Replied(w, j, i)
  BY <1>1, <1>2 DEF Replied
<1> QED BY <1>3, <1>4, <1>5

(* whether every exchange was over,                                        *)
LEMMA SameQuiet ==
    ASSUME NEW v, NEW w, Prolongs(v, w), NEW i \in 1 .. Here(w)
    PROVE  Quiet(v, i) <=> Quiet(w, i)
<1>1. \A T : Earlier(v, i, T) = Earlier(w, i, T) /\ Earlier(w, i, T) \subseteq 1 .. Len(w)
  BY SameEarlier, EarlierFields DEF Prolongs
<1>2. \A j \in 1 .. Len(w) : /\ Answered(v, j, i) <=> Answered(w, j, i)
                             /\ Finished(v, j, i) <=> Finished(w, j, i)
  BY SameExchange
<1> QED BY <1>1, <1>2 DEF Quiet

(* what the echo contract says,                                            *)
LEMMA SameEcho ==
    ASSUME NEW v, NEW w, Prolongs(v, w), NEW i \in 1 .. Here(w)
    PROVE  /\ Starts(v, i) = Starts(w, i)
           /\ i \in 1 .. Len(w) => (Echoed(v, i) <=> Echoed(w, i))
           /\ \A type : EarlierEcho(v, i, type) = EarlierEcho(w, i, type)
           /\ \A type : EarlierEcho(w, i, type) \subseteq 1 .. Len(w)
           /\ \A j \in 1 .. Len(w) : UnderWay(v, j, i) <=> UnderWay(w, j, i)
           /\ OutputAt(v, i) = OutputAt(w, i)
           /\ OutputAt(w, i) \subseteq 1 .. Len(w)
<1>1. \A k \in 1 .. Here(w) : \A T :
        Earlier(v, k, T) = Earlier(w, k, T) /\ Earlier(w, k, T) \subseteq 1 .. Len(w)
  BY SameEarlier, EarlierFields DEF Prolongs
<1>2. \A k \in 1 .. Len(w) : v[k] = w[k]
  BY DEF Prolongs
<1>3. \A k \in 1 .. Here(w) : Starts(v, k) = Starts(w, k)
  BY <1>1, <1>2 DEF Starts
<1>4. \A k \in 1 .. Len(w) : k \in 1 .. Here(w)
  BY DEF Here, Prolongs
<1>5. \A k \in 1 .. Len(w) : Echoed(v, k) <=> Echoed(w, k)
  BY <1>2, <1>3, <1>4 DEF Echoed
<1>6. \A type : /\ EarlierEcho(v, i, type) = EarlierEcho(w, i, type)
                /\ EarlierEcho(w, i, type) \subseteq 1 .. Len(w)
  BY <1>1, <1>5 DEF EarlierEcho
<1>7. \A j \in 1 .. Len(w) : UnderWay(v, j, i) <=> UnderWay(w, j, i)
  BY <1>2, <1>6 DEF UnderWay
<1>8. OutputAt(v, i) = OutputAt(w, i) /\ OutputAt(w, i) \subseteq 1 .. Len(w)
  BY <1>6, <1>7 DEF OutputAt
<1> QED BY <1>3, <1>5, <1>6, <1>7, <1>8

(* whether an item was legal,                                              *)
LEMMA SameItem ==
    ASSUME NEW v, NEW w, Prolongs(v, w), NEW i \in 1 .. Len(w)
    PROVE  LegalItem(v, i) <=> LegalItem(w, i)
<1>1. i \in 1 .. Here(w) /\ i + 1 \in 1 .. Here(w)
  BY DEF Here, Prolongs
<1>2. v[i] = w[i] /\ \A k \in 1 .. Len(w) : v[k] = w[k]
  BY DEF Prolongs
<1>3. /\ Echoed(v, i) <=> Echoed(w, i)
      /\ \A type : EarlierEcho(v, i, type) = EarlierEcho(w, i, type)
      /\ \A type : EarlierEcho(w, i, type) \subseteq 1 .. Len(w)
      /\ OutputAt(v, i) = OutputAt(w, i) /\ OutputAt(w, i) \subseteq 1 .. Len(w)
  BY <1>1, SameEcho
<1>4. LegalInput(v, i) <=> LegalInput(w, i)
  BY <1>2, <1>3 DEF LegalInput
<1>5. LegalAgent(v, i) <=> LegalAgent(w, i)
  BY <1>2, <1>3 DEF LegalAgent
<1>6. LegalSummary(v, i) <=> LegalSummary(w, i)
  BY <1>2, <1>3 DEF LegalSummary
<1>7. WithinBytes(v, i) <=> WithinBytes(w, i)
  <2> DEFINE S == Earlier(w, i + 1, {"agent_completed"})
  <2>1. Earlier(v, i + 1, {"agent_completed"}) = S
    BY <1>1, SameEarlier
  <2>2. S \subseteq 1 .. Len(w)
    BY <1>1, EarlierFields DEF Prolongs
  <2> HIDE DEF S
  <2>3. [j \in S |-> v[j].bytes] = [j \in S |-> w[j].bytes]
    BY <1>2, <2>2
  <2>4. Bytes(v, S) = Bytes(w, S)
    BY <2>3 DEF Bytes
  <2> QED BY <2>1, <2>4 DEF WithinBytes, S
<1> QED BY <1>2, <1>3, <1>4, <1>5, <1>6, <1>7 DEF LegalItem

(* and whether the frame was.                                              *)
LEMMA SameLegal ==
    ASSUME NEW v, NEW w, Prolongs(v, w), NEW i \in 1 .. Len(w)
    PROVE  LegalAt(v, i) <=> LegalAt(w, i)
<1>1. i \in 1 .. Here(w) /\ \A j \in 1 .. Len(w) : j \in 1 .. Here(w)
  BY DEF Here, Prolongs
<1>2. v[i] = w[i] /\ \A k \in 1 .. Len(w) : v[k] = w[k]
  BY DEF Prolongs
<1>3. \A j \in 1 .. Here(w) : \A T :
        Earlier(v, j, T) = Earlier(w, j, T) /\ Earlier(w, j, T) \subseteq 1 .. Len(w)
  BY SameEarlier, EarlierFields DEF Prolongs
<1>4. \A j \in 1 .. Len(w) : /\ Answered(v, j, i) <=> Answered(w, j, i)
                             /\ Finished(v, j, i) <=> Finished(w, j, i)
                             /\ Replied(v, j, i) <=> Replied(w, j, i)
  BY <1>1, SameExchange
<1>5. /\ Quiet(v, i) <=> Quiet(w, i)
      /\ Echoed(v, i) <=> Echoed(w, i)
      /\ LegalItem(v, i) <=> LegalItem(w, i)
      /\ Starts(v, i) = Starts(w, i)
  BY <1>1, SameQuiet, SameEcho, SameItem
<1>6. LegalRequest(v, i) <=> LegalRequest(w, i)
  BY <1>1, <1>2, <1>3, <1>5 DEF LegalRequest
<1>7. LegalAnswer(v, i) <=> LegalAnswer(w, i)
  BY <1>1, <1>2, <1>3, <1>4 DEF LegalAnswer, SameRequest
<1>8. LegalCompletion(v, i) <=> LegalCompletion(w, i)
  BY <1>1, <1>2, <1>3, <1>4 DEF LegalCompletion
<1>9. LegalApproval(v, i) <=> LegalApproval(w, i)
  BY <1>1, <1>2, <1>3, <1>4 DEF LegalApproval
<1>10. LegalEnd(v, i) <=> LegalEnd(w, i)
  BY <1>1, <1>3, <1>5 DEF LegalEnd
<1>11. LegalClient(v, i) <=> LegalClient(w, i)
  <2> DEFINE Open(u) == {j \in Earlier(u, i, {"client_request"}) :
                            u[j].client = u[i].client /\ ~Replied(u, j, i)}
  <2>1. Open(v) = Open(w) /\ Open(w) \subseteq 1 .. Len(w)
    BY <1>1, <1>2, <1>3, <1>4
  <2> HIDE DEF Open
  <2>2. \A u : LegalClient(u, i) <=>
                  IF u[i].type = "client_request"
                  THEN Open(u) = {} /\ (SelectsInput(u[i]) => Starts(u, i) = {})
                  ELSE \E j \in Open(u) : u[j].method = u[i].method
    BY DEF LegalClient, Open
  <2> QED BY <1>2, <1>5, <2>1, <2>2
<1>12. InSeason(v, i) <=> InSeason(w, i)
  <2>1. \A j \in Earlier(w, i, Ends) :
          Earlier(v, j, {"created"}) = Earlier(w, j, {"created"})
    BY <1>1, <1>3
  <2> QED BY <1>1, <1>2, <1>3, <2>1 DEF InSeason
<1> QED BY <1>2, <1>5, <1>6, <1>7, <1>8, <1>9, <1>10, <1>11, <1>12 DEF LegalAt

----------------------------------------------------------------------------
(* A history that one more message prolongs.                               *)

(* A history with one message more prolongs it.                            *)
LEMMA Appended ==
    ASSUME NEW w \in Seq(Seen), NEW x \in Seen
    PROVE  LET v == Append(w, x)
           IN  /\ Prolongs(v, w)
               /\ v[Here(w)] = x /\ \A j \in 1 .. Len(w) : v[j] = w[j]
               /\ Len(v) = Here(w) /\ Here(v) = Here(w) + 1
               /\ Len(w) \in Nat /\ Here(w) \in Nat /\ Here(w) \notin 1 .. Len(w)
               /\ Here(w) \in 1 .. Here(w) /\ 1 .. Here(w) = 1 .. Len(w) \cup {Here(w)}
BY DEF Prolongs, Here

(* The indices of a type, with the new message or without.                 *)
LEMMA AppendedIndices ==
    ASSUME NEW w \in Seq(Seen), NEW x \in Seen, NEW T
    PROVE  LET v == Append(w, x)
           IN  /\ Of(v, T) = Of(w, T) \cup (IF x.type \in T THEN {Here(w)} ELSE {})
               /\ Earlier(v, Here(w), T) = Of(w, T)
               /\ Earlier(v, Here(v), T) = Of(v, T)
               /\ Of(w, T) \subseteq 1 .. Len(w)
               /\ \A j \in 1 .. Len(w) : Earlier(v, j, T) = Earlier(w, j, T)
<1> DEFINE v == Append(w, x)
<1>1. /\ Prolongs(v, w) /\ v \in Seq(Seen)
      /\ v[Here(w)] = x /\ \A j \in 1 .. Len(w) : v[j] = w[j]
      /\ Len(v) = Here(w) /\ Here(v) = Here(w) + 1
      /\ Len(w) \in Nat /\ Here(w) \in Nat /\ Here(w) \notin 1 .. Len(w)
      /\ Here(w) \in 1 .. Here(w) /\ 1 .. Here(w) = 1 .. Len(w) \cup {Here(w)}
  BY Appended DEF Prolongs
<1> HIDE DEF v
<1>2. /\ Of(w, T) = {j \in 1 .. Len(w) : w[j].type \in T}
      /\ Of(v, T) = {j \in 1 .. Len(v) : v[j].type \in T}
      /\ Earlier(v, Here(v), T) = Of(v, T)
      /\ Earlier(w, Here(w), T) = Of(w, T)
  BY <1>1, EarlierFields DEF Here
<1>3. \A j \in 1 .. Here(w) : Earlier(v, j, T) = Earlier(w, j, T)
  BY <1>1, SameEarlier
<1>4. Of(v, T) = Of(w, T) \cup (IF x.type \in T THEN {Here(w)} ELSE {})
  BY <1>1, <1>2
<1> QED BY <1>1, <1>2, <1>3, <1>4 DEF v

(* It is legal if the history was and the new message is.                  *)
LEMMA AppendedLegal ==
    ASSUME NEW w \in Seq(Seen), NEW x \in Seen
    PROVE  LET v == Append(w, x)
           IN  /\ Legal(v) <=> Legal(w) /\ LegalAt(v, Here(w))
               /\ \A i \in 1 .. Len(w) : LegalAt(v, i) <=> LegalAt(w, i)
<1> DEFINE v == Append(w, x)
<1>1. /\ Prolongs(v, w) /\ v \in Seq(Seen) /\ Len(v) = Here(w)
      /\ 1 .. Here(w) = 1 .. Len(w) \cup {Here(w)}
  BY Appended DEF Prolongs
<1> HIDE DEF v
<1>2. \A i \in 1 .. Len(w) : LegalAt(v, i) <=> LegalAt(w, i)
  BY <1>1, SameLegal
<1>3. DOMAIN v = 1 .. Len(w) \cup {Here(w)} /\ DOMAIN w = 1 .. Len(w)
  BY <1>1
<1> QED BY <1>2, <1>3 DEF Legal, v

(* A message that is gone makes any history illegal.                       *)
LEMMA GoneIsIllegal ==
    ASSUME NEW w \in Seq(Seen)
    PROVE  ~LegalAt(Append(w, Gone), Here(w))
<1>1. Append(w, Gone)[Here(w)].type = "gone"
  BY DEF Here, Seen, Gone
<1> QED BY <1>1, Zenon DEF LegalAt

(* Nothing illegal proves anything.                                        *)
LEMMA IllegalProves ==
    ASSUME NEW w \in Seq(Seen), NEW x \in Seen, ~LegalAt(Append(w, x), Here(w)),
           NEW m, Proved(m, w), NEW n, n.disposition = "EXECUTION_ADMITTED" <=>
                                          m.disposition = "EXECUTION_ADMITTED",
           n.identity = m.identity
    PROVE  Proved(n, Append(w, x))
<1> DEFINE v == Append(w, x)
           Proves(u) == {j \in Of(u, {"created"}) : \A i \in 1 .. j : LegalAt(u, i)}
<1>1. /\ Len(w) \in Nat /\ \A j \in 1 .. Len(w) : v[j] = w[j]
      /\ Here(w) \in 1 .. Here(w)
  BY Appended
<1>2. /\ Of(v, {"created"}) \subseteq Of(w, {"created"}) \cup {Here(w)}
      /\ Of(w, {"created"}) \subseteq Of(v, {"created"})
      /\ Of(w, {"created"}) \subseteq 1 .. Len(w)
  BY AppendedIndices
<1>3. ~LegalAt(v, Here(w)) /\ \A i \in 1 .. Len(w) : LegalAt(v, i) <=> LegalAt(w, i)
  BY AppendedLegal
<1> HIDE DEF v
<1>4. \A j \in 1 .. Len(w) : 1 .. j \subseteq 1 .. Len(w)
  BY <1>1
<1>5. Proves(v) = Proves(w)
  BY <1>1, <1>2, <1>3, <1>4
<1>6. \A j \in Proves(w) : v[j] = w[j]
  BY <1>1, <1>2
<1> HIDE DEF Proves
<1>7. \A k, u : Proved(k, u) <=>
           /\ k.disposition = "EXECUTION_ADMITTED" <=> Proves(u) # {}
           /\ Admitted(k) => \E j \in Proves(u) : /\ k.identity = u[j].response
                                                  /\ \A i \in Proves(u) : j <= i
  BY DEF Proved, Proves
<1>8. Admitted(n) <=> Admitted(m)
  BY DEF Admitted
<1>9. Proved(n, v)
  BY <1>5, <1>6, <1>7, <1>8
<1> QED BY <1>9 DEF v

(* Of a legal history the legal part is the whole.                         *)
LEMMA LegalProves ==
    ASSUME NEW w \in Seq(Seen), Legal(w), NEW m, PhaseTold(m, w)
    PROVE  Proved(m, w)
<1>1. Of(w, {"created"}) \subseteq 1 .. Len(w)
  BY EarlierFields DEF Here
<1>2. \A i \in 1 .. Len(w) : LegalAt(w, i)
  BY DEF Legal
<1>3. {j \in Of(w, {"created"}) : \A i \in 1 .. j : LegalAt(w, i)} = Of(w, {"created"})
  <2>1. \A j \in 1 .. Len(w) : 1 .. j \subseteq 1 .. Len(w)
    OBVIOUS
  <2> QED BY <1>1, <1>2, <2>1
<1> QED BY <1>3 DEF Proved, PhaseTold

(* What one more message answers, completes and leaves open.               *)
LEMMA AppendedOpen ==
    ASSUME NEW w \in Seq(Seen), NEW x \in Seen
    PROVE  LET v == Append(w, x)
           IN  /\ Pending(v) = {j \in Pending(w) :
                                   ~(x.type \in {"created", "refused"} /\ SameRequest(w[j], x))}
                                 \cup (IF x.type = "request" THEN {Here(w)} ELSE {})
               /\ Opened(v) = {j \in Opened(w) :
                                   ~(x.type = "completed" /\ x.response = w[j].response)}
                                 \cup (IF x.type = "created" THEN {Here(w)} ELSE {})
               /\ Unreplied(v) = {j \in Unreplied(w) :
                                   ~(x.type = "client_response" /\ x.client = w[j].client)}
                                 \cup (IF x.type = "client_request" THEN {Here(w)} ELSE {})
<1> DEFINE v == Append(w, x)
           h == Here(w)
           Later(T) == Of(w, T) \cup (IF x.type \in T THEN {h} ELSE {})
<1>1. /\ v[h] = x /\ \A j \in 1 .. Len(w) : v[j] = w[j]
      /\ h \in Nat /\ h \notin 1 .. Len(w) /\ \A j \in 1 .. Len(w) : j < h /\ ~(h < j)
      /\ ~(h < h)
  BY Appended DEF Here
<1>2. \A T : /\ Of(v, T) = Later(T) /\ Of(w, T) \subseteq 1 .. Len(w)
             /\ Earlier(v, Here(v), T) = Later(T)
             /\ Earlier(w, h, T) = Of(w, T)
  BY AppendedIndices, EarlierFields DEF Here
<1> HIDE DEF v, h
<1>3. Pending(v) = {j \in Pending(w) :
                        ~(x.type \in {"created", "refused"} /\ SameRequest(w[j], x))}
                     \cup (IF x.type = "request" THEN {h} ELSE {})
  <2>1. ASSUME NEW j \in 1 .. Len(w)
        PROVE  Answered(v, j, Here(v)) <=>
                  Answered(w, j, h) \/ (x.type \in {"created", "refused"} /\ SameRequest(w[j], x))
    BY <1>1, <1>2, <2>1 DEF Answered
  <2>2. ~Answered(v, h, Here(v))
    BY <1>1, <1>2 DEF Answered
  <2>3. Of(v, {"request"}) = Of(w, {"request"}) \cup (IF x.type = "request" THEN {h} ELSE {})
    BY <1>2
  <2> QED BY <1>1, <1>2, <2>1, <2>2, <2>3 DEF Pending, h
<1>4. Opened(v) = {j \in Opened(w) : ~(x.type = "completed" /\ x.response = w[j].response)}
                     \cup (IF x.type = "created" THEN {h} ELSE {})
  <2>1. ASSUME NEW j \in 1 .. Len(w)
        PROVE  Finished(v, j, Here(v)) <=>
                  Finished(w, j, h) \/ (x.type = "completed" /\ x.response = w[j].response)
    BY <1>1, <1>2, <2>1 DEF Finished
  <2>2. ~Finished(v, h, Here(v))
    BY <1>1, <1>2 DEF Finished
  <2>3. Of(v, {"created"}) = Of(w, {"created"}) \cup (IF x.type = "created" THEN {h} ELSE {})
    BY <1>2
  <2> QED BY <1>1, <1>2, <2>1, <2>2, <2>3 DEF Opened, h
<1>5. Unreplied(v) = {j \in Unreplied(w) :
                          ~(x.type = "client_response" /\ x.client = w[j].client)}
                     \cup (IF x.type = "client_request" THEN {h} ELSE {})
  <2>1. ASSUME NEW j \in 1 .. Len(w)
        PROVE  Replied(v, j, Here(v)) <=>
                  Replied(w, j, h) \/ (x.type = "client_response" /\ x.client = w[j].client)
    BY <1>1, <1>2, <2>1 DEF Replied
  <2>2. ~Replied(v, h, Here(v))
    BY <1>1, <1>2 DEF Replied
  <2>3. Of(v, {"client_request"}) =
          Of(w, {"client_request"}) \cup (IF x.type = "client_request" THEN {h} ELSE {})
    BY <1>2
  <2> QED BY <1>1, <1>2, <2>1, <2>2, <2>3 DEF Unreplied, h
<1> QED BY <1>3, <1>4, <1>5 DEF v, h

----------------------------------------------------------------------------
(* What a message leaves of the registers it does not touch.               *)

(* A message of another type leaves the indices of a type alone,           *)
LEMMA IndicesKept ==
    ASSUME NEW w \in Seq(Seen), NEW x \in Seen, NEW T
    PROVE  /\ x.type \notin T => Of(Append(w, x), T) = Of(w, T)
           /\ x.type \in T => Of(Append(w, x), T) = Of(w, T) \cup {Here(w)}
<1>1. Of(Append(w, x), T) = Of(w, T) \cup (IF x.type \in T THEN {Here(w)} ELSE {})
  BY AppendedIndices
<1> QED BY <1>1

(* and with them what is pending, open and unreplied.                      *)
LEMMA OpenKept ==
    ASSUME NEW w \in Seq(Seen), NEW x \in Seen
    PROVE  /\ x.type \notin {"request", "created", "refused"} =>
                 Pending(Append(w, x)) = Pending(w)
           /\ x.type \notin {"created", "completed"} => Opened(Append(w, x)) = Opened(w)
           /\ x.type \notin Client => Unreplied(Append(w, x)) = Unreplied(w)
<1> DEFINE v == Append(w, x)
           A(j) == x.type \in {"created", "refused"} /\ SameRequest(w[j], x)
           B(j) == x.type = "completed" /\ x.response = w[j].response
           C(j) == x.type = "client_response" /\ x.client = w[j].client
<1>1. /\ Pending(v) = {j \in Pending(w) : ~A(j)}
                        \cup (IF x.type = "request" THEN {Here(w)} ELSE {})
      /\ Opened(v) = {j \in Opened(w) : ~B(j)}
                        \cup (IF x.type = "created" THEN {Here(w)} ELSE {})
      /\ Unreplied(v) = {j \in Unreplied(w) : ~C(j)}
                        \cup (IF x.type = "client_request" THEN {Here(w)} ELSE {})
  BY AppendedOpen
<1>2. /\ x.type \notin {"request", "created", "refused"} =>
            x.type # "request" /\ \A j : ~A(j)
      /\ x.type \notin {"created", "completed"} => x.type # "created" /\ \A j : ~B(j)
      /\ x.type \notin Client => x.type # "client_request" /\ \A j : ~C(j)
  BY DEF Client
<1> HIDE DEF v, A, B, C
<1>3. x.type \notin {"request", "created", "refused"} => Pending(v) = Pending(w)
  BY <1>1, <1>2
<1>4. x.type \notin {"created", "completed"} => Opened(v) = Opened(w)
  BY <1>1, <1>2
<1>5. x.type \notin Client => Unreplied(v) = Unreplied(w)
  BY <1>1, <1>2
<1> QED BY <1>3, <1>4, <1>5 DEF v

(* So what the registers say of the requests stays,                        *)
LEMMA RequestsKept ==
    ASSUME NEW w \in Seq(Seen), NEW x \in Seen, x.type \notin {"request", "created", "refused"},
           NEW m, RequestsTold(m, w), NEW n, n.pending = m.pending,
           n.startedAt = m.startedAt, n.completed = m.completed
    PROVE  RequestsTold(n, Append(w, x))
<1> DEFINE v == Append(w, x)
<1>1. Pending(v) = Pending(w) /\ Of(v, {"request"}) = Of(w, {"request"})
  BY OpenKept, IndicesKept
<1>2. /\ Of(w, {"request"}) \subseteq 1 .. Len(w) /\ \A j \in 1 .. Len(w) : v[j] = w[j]
      /\ Pending(w) \subseteq Of(w, {"request"})
  BY AppendedIndices, Appended DEF Pending
<1> HIDE DEF v
<1>3. {v[j].occurrence : j \in Of(w, {"request"}) \ Pending(w)}
        = {w[j].occurrence : j \in Of(w, {"request"}) \ Pending(w)}
  BY <1>2
<1>4. RequestsTold(n, v)
  BY <1>1, <1>2, <1>3 DEF RequestsTold
<1> QED BY <1>4 DEF v

(* what they say of the responses,                                         *)
LEMMA ResponsesKept ==
    ASSUME NEW w \in Seq(Seen), NEW x \in Seen, x.type \notin {"created", "refused", "completed"},
           NEW m, ResponsesTold(m, w), NEW n, n.responses = m.responses,
           n.open = m.open, n.last = m.last,
           n.pending # NoRequest =>
               n.open = None /\ Of(w, {"refused"}) = {} /\ n.startedAt >= n.last
    PROVE  ResponsesTold(n, Append(w, x))
<1> DEFINE v == Append(w, x)
<1>1. /\ Opened(v) = Opened(w) /\ Of(v, {"created"}) = Of(w, {"created"})
      /\ Of(v, {"refused"}) = Of(w, {"refused"})
      /\ Of(v, {"created", "refused"}) = Of(w, {"created", "refused"})
  BY OpenKept, IndicesKept
<1>2. /\ Of(w, {"created"}) \subseteq 1 .. Len(w) /\ \A j \in 1 .. Len(w) : v[j] = w[j]
      /\ Of(w, {"created", "refused"}) \subseteq 1 .. Len(w)
      /\ Opened(w) \subseteq Of(w, {"created"})
  BY AppendedIndices, Appended DEF Opened
<1> HIDE DEF v
<1>3. {v[j].response : j \in Of(w, {"created"})} = {w[j].response : j \in Of(w, {"created"})}
  BY <1>2
<1>4. ResponsesTold(n, v)
  BY <1>1, <1>2, <1>3 DEF ResponsesTold
<1> QED BY <1>4 DEF v

(* of disposition and mechanism,                                           *)
LEMMA PhaseKept ==
    ASSUME NEW w \in Seq(Seen), NEW x \in Seen,
           x.type \notin {"created", "refused", "approval"} \cup Ends,
           NEW m, PhaseTold(m, w), NEW n, n.identity = m.identity,
           n.disposition = m.disposition, n.mechanism = m.mechanism,
           n.mechanism = "PROVIDER_COMPLETED" => n.pending = NoRequest /\ n.open = None
    PROVE  PhaseTold(n, Append(w, x))
<1> DEFINE v == Append(w, x)
<1>1. /\ Of(v, {"created"}) = Of(w, {"created"}) /\ Of(v, {"refused"}) = Of(w, {"refused"})
      /\ Of(v, {"approval"}) = Of(w, {"approval"}) /\ Of(v, Ends) = Of(w, Ends)
  BY IndicesKept
<1>2. /\ Of(w, {"created"}) \subseteq 1 .. Len(w) /\ Of(w, Ends) \subseteq 1 .. Len(w)
      /\ \A j \in 1 .. Len(w) : v[j] = w[j]
      /\ \A j \in 1 .. Len(w) : Earlier(v, j, {"created"}) = Earlier(w, j, {"created"})
  BY AppendedIndices, Appended
<1> HIDE DEF v
<1>3. Admitted(n) <=> Admitted(m)
  BY DEF Admitted
<1>4. Disturbed(n) <=> Disturbed(m)
  BY DEF Disturbed
<1>5. PhaseTold(n, v)
  BY <1>1, <1>2, <1>3, <1>4 DEF PhaseTold
<1> QED BY <1>5 DEF v

(* and of the client's requests.                                           *)
LEMMA ClientsKept ==
    ASSUME NEW w \in Seq(Seen), NEW x \in Seen, x.type \notin Client,
           NEW m, ClientsTold(m, w), NEW n, n.clients = m.clients
    PROVE  ClientsTold(n, Append(w, x))
<1> DEFINE v == Append(w, x)
<1>1. Unreplied(v) = Unreplied(w)
  BY OpenKept
<1>2. Unreplied(w) \subseteq 1 .. Len(w) /\ \A j \in 1 .. Len(w) : v[j] = w[j]
  BY AppendedIndices, Appended DEF Unreplied
<1> HIDE DEF v
<1>3. {Issued(v[j]) : j \in Unreplied(w)} = {Issued(w[j]) : j \in Unreplied(w)}
  BY <1>2
<1>4. ClientsTold(n, v)
  BY <1>1, <1>2, <1>3 DEF ClientsTold
<1> QED BY <1>4 DEF v

----------------------------------------------------------------------------
(* The exchanges of provider and client.                                   *)

(* Messages are seen, and the elements of a history are messages.          *)
LEMMA HistoryFields ==
    ASSUME NEW w \in Seq(Messages)
    PROVE  /\ w \in Seq(Seen) /\ Len(w) \in Nat
           /\ \A j \in 1 .. Len(w) : w[j] \in Messages
           /\ \A T : Of(w, T) \subseteq 1 .. Len(w) /\ \A j \in Of(w, T) : w[j].type \in T
           /\ \A S, T : Of(w, S \cup T) = Of(w, S) \cup Of(w, T)
           /\ \A x \in Messages : x \in Seen /\ Append(w, x) \in Seq(Messages)
<1>1. w \in Seq(Seen)
  <2>1. Messages \subseteq Seen
    BY DEF Seen
  <2> QED BY <2>1
<1> QED BY <1>1 DEF Of, Seen

(* Fields of messages that the registers are compared with.                *)
LEMMA MoreFields ==
    ASSUME NEW x \in Messages
    PROVE  x.at > 0 /\ RequestOf(x) # NoRequest /\ x.exact \in BOOLEAN
             /\ x.type \in Boundary \cup Local \cup Client \cup {"approval"}
BY MessagesAssumption, NameAssumption DEF Message, RequestOf, NoRequest

(* Every exchange is over when nothing is pending or open.                 *)
LEMMA QuietTold ==
    ASSUME NEW w \in Seq(Messages), NEW m, Tells(m, w)
    PROVE  /\ Quiet(w, Here(w)) <=> m.pending = NoRequest /\ m.open = None
           /\ Pending(w) = {} <=> m.pending = NoRequest
           /\ Opened(w) = {} <=> m.open = None
<1>1. w \in Seq(Seen) /\ \A j \in 1 .. Len(w) : w[j] \in Messages
  BY HistoryFields
<1>2. /\ Earlier(w, Here(w), {"request"}) = Of(w, {"request"})
      /\ Earlier(w, Here(w), {"created"}) = Of(w, {"created"})
      /\ Of(w, {"request"}) \subseteq 1 .. Len(w) /\ Of(w, {"created"}) \subseteq 1 .. Len(w)
  BY <1>1, EarlierFields DEF Here
<1>3. Quiet(w, Here(w)) <=> Pending(w) = {} /\ Opened(w) = {}
  BY <1>2 DEF Quiet, Pending, Opened
<1>4. Pending(w) = {} <=> m.pending = NoRequest
  BY <1>1, <1>2, MoreFields DEF Tells, RequestsTold, Pending
<1>5. Opened(w) = {} <=> m.open = None
  <2>1. \A j \in Opened(w) : w[j].response # None
    BY <1>1, <1>2, MessageFields DEF Opened
  <2> QED BY <2>1 DEF Tells, ResponsesTold
<1> QED BY <1>3, <1>4, <1>5

(* The requests answered number those the mapper has completed.            *)
LEMMA CompletedCount ==
    ASSUME NEW w \in Seq(Messages), NEW m, Tells(m, w), m.pending = NoRequest
    PROVE  /\ m.completed = {w[j].occurrence : j \in Of(w, {"request"})}
           /\ Cardinality(m.completed) = Cardinality(Of(w, {"request"}))
           /\ Cardinality(Of(w, {"request"})) \in Nat
           /\ Cardinality(Of(w, {"request"})) = 0 <=> Of(w, {"request"}) = {}
<1> DEFINE R == Of(w, {"request"})
           f == [j \in R |-> w[j].occurrence]
<1>1. Pending(w) = {} /\ R \ Pending(w) = R
  BY QuietTold
<1>2. R \subseteq 1 .. Len(w) /\ Len(w) \in Nat
  BY HistoryFields
<1>3. IsFiniteSet(R)
  <2>1. IsFiniteSet(1 .. Len(w))
    BY <1>2, FS_Interval
  <2> QED BY <1>2, <2>1, FS_Subset
<1>4. m.completed = {w[j].occurrence : j \in R} /\ \A j, k \in R :
         w[j].occurrence = w[k].occurrence => j = k
  BY <1>1 DEF Tells, RequestsTold
<1> HIDE DEF R
<1>5. f \in Surjection(R, m.completed) /\ f \in Injection(R, m.completed)
  BY <1>4 DEF Surjection, Injection, IsInjective
<1>6. Cardinality(m.completed) = Cardinality(R)
  BY <1>3, <1>5, FS_Surjection
<1>7. Cardinality(R) \in Nat /\ (Cardinality(R) = 0 <=> R = {})
  BY <1>3, FS_CardinalityType, FS_EmptySet
<1> QED BY <1>4, <1>6, <1>7 DEF R

(* A provider request is legal when the mapper accepts it.                 *)
LEMMA RequestIsLegal ==
    ASSUME NEW w \in Seq(Messages), NEW m \in Mapper, Tells(m, w),
           NEW x \in Messages, x.type = "request"
    PROVE  RequestFits(m, x) <=> x.exact /\ LegalRequest(Append(w, x), Here(w))
<1> DEFINE v == Append(w, x)
           R == Of(w, {"request"})
<1>1. w \in Seq(Seen) /\ x \in Seen /\ \A j \in 1 .. Len(w) : w[j] \in Messages
  BY HistoryFields
<1>2. /\ v[Here(w)] = x /\ \A j \in 1 .. Len(w) : v[j] = w[j]
      /\ Prolongs(v, w) /\ Here(w) \in 1 .. Here(w)
  BY <1>1, Appended
<1>3. /\ \A T : Earlier(v, Here(w), T) = Of(w, T)
      /\ \A T : Of(w, T) \subseteq 1 .. Len(w)
  BY <1>1, AppendedIndices
<1>4. Quiet(v, Here(w)) <=> m.pending = NoRequest /\ m.open = None
  BY <1>2, SameQuiet, QuietTold
<1> HIDE DEF v
<1>5. m.disposition \notin {"NOT_ADMITTED_MODEL_AT_CAPACITY", "ADMISSION_INDETERMINATE"}
         <=> Of(w, {"refused"}) = {}
  BY DEF Tells, PhaseTold
<1>6. CASE ~(m.pending = NoRequest /\ m.open = None /\ Of(w, {"refused"}) = {})
  <2>1. RequestFits(m, x) => m.pending = NoRequest /\ m.open = None /\ Of(w, {"refused"}) = {}
    BY <1>5 DEF RequestFits
  <2>2. LegalRequest(v, Here(w)) =>
          m.pending = NoRequest /\ m.open = None /\ Of(w, {"refused"}) = {}
    BY <1>3, <1>4 DEF LegalRequest
  <2> QED BY <1>6, <2>1, <2>2 DEF v
<1>7. CASE m.pending = NoRequest /\ m.open = None /\ Of(w, {"refused"}) = {}
  <2>1. /\ m.completed = {w[j].occurrence : j \in R}
        /\ Cardinality(m.completed) = Cardinality(R) /\ Cardinality(R) \in Nat
        /\ Cardinality(R) = 0 <=> R = {}
    BY <1>7, CompletedCount
  <2>2. x.occurrence \notin m.completed <=> \A j \in R : v[j].occurrence # x.occurrence
    BY <1>2, <1>3, <2>1
  <2>3. Of(w, {"created", "refused"}) = Of(w, {"created"})
    <3>1. {"created", "refused"} = {"created"} \cup {"refused"}
      OBVIOUS
    <3>2. Of(w, {"created"} \cup {"refused"}) = Of(w, {"created"}) \cup Of(w, {"refused"})
      BY HistoryFields
    <3> QED BY <1>7, <3>1, <3>2
  <2>4. (m.last = 0 \/ x.at >= m.last) <=> \A j \in Of(w, {"created"}) : v[j].at <= x.at
    <3>1. m.last \in Nat /\ x.at \in Nat
      BY MessageFields DEF Mapper
    <3>2. \A j \in Of(w, {"created"}) : v[j] = w[j] /\ w[j].at \in Nat /\ w[j].at > 0
      BY <1>1, <1>2, <1>3, MessageFields, MoreFields
    <3>3. /\ \A j \in Of(w, {"created"}) : w[j].at <= m.last
          /\ m.last # 0 => \E j \in Of(w, {"created"}) : w[j].at = m.last
      BY <2>3 DEF Tells, ResponsesTold
    <3> QED BY <3>1, <3>2, <3>3
  <2>5. R # {} => Admitted(m)
    <3>1. SUFFICES ASSUME R # {} PROVE Of(w, {"created"}) # {}
      BY DEF Tells, PhaseTold
    <3>2. PICK j \in R : Answered(w, j, Here(w))
      BY <1>7, <3>1, QuietTold DEF Pending
    <3>3. Earlier(w, Here(w), {"created", "refused"}) = Of(w, {"created", "refused"})
      BY <1>1, EarlierFields DEF Here
    <3> QED BY <2>3, <3>2, <3>3 DEF Answered
  <2>6. x.ordinal = Cardinality(R) => (x.ordinal > 0 => Admitted(m))
    BY <2>1, <2>5
  <2>7. LegalRequest(v, Here(w)) <=>
          /\ x.ordinal = Cardinality(R) /\ x.order = Cardinality(R)
          /\ \A j \in R : v[j].occurrence # x.occurrence
          /\ \A j \in Of(w, {"created"}) : v[j].at <= x.at
    BY <1>2, <1>3, <1>4, <1>7 DEF LegalRequest
  <2>8. RequestFits(m, x) <=>
          /\ x.exact
          /\ m.last = 0 \/ x.at >= m.last
          /\ x.ordinal = Cardinality(R) /\ x.order = Cardinality(R)
          /\ x.occurrence \notin m.completed
          /\ x.ordinal > 0 => Admitted(m)
    BY <1>5, <1>7, <2>1 DEF RequestFits
  <2> QED BY <2>2, <2>4, <2>6, <2>7, <2>8 DEF v
<1> QED BY <1>6, <1>7 DEF v

(* The registers after a legal request.                                    *)
LEMMA RequestTells ==
    ASSUME NEW w \in Seq(Messages), NEW m \in Mapper, Tells(m, w),
           NEW x \in Messages, x.type = "request", RequestFits(m, x), ~Closed(m, x)
    PROVE  Tells([m EXCEPT !.pending = RequestOf(x), !.startedAt = x.at], Append(w, x))
<1> DEFINE v == Append(w, x)
           n == [m EXCEPT !.pending = RequestOf(x), !.startedAt = x.at]
           R == Of(w, {"request"})
           h == Here(w)
<1>1. /\ w \in Seq(Seen) /\ x \in Seen /\ \A j \in 1 .. Len(w) : w[j] \in Messages
      /\ R \subseteq 1 .. Len(w)
  BY HistoryFields
<1>2. v[h] = x /\ (\A j \in 1 .. Len(w) : v[j] = w[j]) /\ h \notin 1 .. Len(w)
  BY <1>1, Appended
<1>3. /\ n.pending = RequestOf(x) /\ n.startedAt = x.at
      /\ n.completed = m.completed /\ n.responses = m.responses /\ n.open = m.open
      /\ n.last = m.last /\ n.identity = m.identity /\ n.disposition = m.disposition
      /\ n.mechanism = m.mechanism /\ n.clients = m.clients
  BY DEF Mapper
<1>4. /\ m.pending = NoRequest /\ m.open = None
      /\ Of(w, {"refused"}) = {} /\ x.occurrence \notin m.completed
      /\ x.at >= m.last
  <2>1. x.at \in Nat /\ m.last \in Nat
    BY MessageFields DEF Mapper
  <2> QED BY <2>1 DEF RequestFits, Tells, PhaseTold
<1>5. Pending(w) = {} /\ m.completed = {w[j].occurrence : j \in R}
  BY <1>4, QuietTold, CompletedCount
<1>6. Pending(v) = {h} /\ Of(v, {"request"}) = R \cup {h}
  BY <1>1, <1>5, AppendedOpen, IndicesKept
<1> HIDE DEF v, n, R, h
<1>7. RequestsTold(n, v)
  <2>1. \A j \in Pending(v) : n.pending = RequestOf(v[j]) /\ n.startedAt = v[j].at
    BY <1>2, <1>3, <1>6
  <2>2. \A j, k \in R \cup {h} : v[j].occurrence = v[k].occurrence => j = k
    <3>1. \A j, k \in R : w[j].occurrence = w[k].occurrence => j = k
      BY DEF Tells, RequestsTold, R
    <3>2. \A j \in R : v[j] = w[j] /\ w[j].occurrence # x.occurrence
      BY <1>1, <1>2, <1>4, <1>5
    <3> QED BY <1>2, <3>1, <3>2
  <2>3. n.completed = {v[j].occurrence : j \in (R \cup {h}) \ {h}}
    <3>1. (R \cup {h}) \ {h} = R
      BY <1>1, <1>2
    <3>2. {v[j].occurrence : j \in R} = {w[j].occurrence : j \in R}
      BY <1>1, <1>2
    <3> QED BY <1>3, <1>5, <3>1, <3>2
  <2> QED BY <1>6, <2>1, <2>2, <2>3 DEF RequestsTold
<1>8. ResponsesTold(n, v)
  BY <1>1, <1>3, <1>4, ResponsesKept DEF Tells, v
<1>9. m.mechanism # "PROVIDER_COMPLETED"
  BY DEF Closed
<1>10. PhaseTold(n, v)
  BY <1>1, <1>3, <1>9, PhaseKept DEF Tells, v, Ends
<1>11. ClientsTold(n, v)
  BY <1>1, <1>3, ClientsKept DEF Tells, v, Client
<1> QED BY <1>7, <1>8, <1>10, <1>11 DEF Tells, n, v

(* Which answers the pending request may have.                             *)
LEMMA AnswersTold ==
    ASSUME NEW w \in Seq(Messages), NEW m \in Mapper, Tells(m, w), NEW x \in Messages
    PROVE  /\ AnswersPending(m, x) <=>
                x.exact /\ \E j \in Pending(w) : SameRequest(w[j], x) /\ w[j].at <= x.at
           /\ \A j \in Pending(w) : /\ j \in Of(w, {"request"}) /\ m.pending = RequestOf(w[j])
                                    /\ m.startedAt = w[j].at
                                    /\ Pending(w) = {j}
<1>1. /\ \A j \in 1 .. Len(w) : w[j] \in Messages
      /\ Of(w, {"request"}) \subseteq 1 .. Len(w) /\ Pending(w) \subseteq Of(w, {"request"})
  BY HistoryFields DEF Pending
<1>2. /\ \A j \in Pending(w) : m.pending = RequestOf(w[j]) /\ m.startedAt = w[j].at
      /\ m.pending # NoRequest => Pending(w) # {}
      /\ \A j, k \in Of(w, {"request"}) : w[j].occurrence = w[k].occurrence => j = k
  BY DEF Tells, RequestsTold
<1>3. \A y, z : RequestOf(y) = RequestOf(z) <=> SameRequest(y, z)
  BY DEF RequestOf, SameRequest
<1>4. x.at \in Nat /\ \A j \in Pending(w) : w[j].at \in Nat /\ RequestOf(w[j]) # NoRequest
  BY <1>1, MessageFields, MoreFields
<1>5. AnswersPending(m, x) <=>
        x.exact /\ \E j \in Pending(w) : SameRequest(w[j], x) /\ w[j].at <= x.at
  <2>1. ASSUME AnswersPending(m, x)
        PROVE  x.exact /\ \E j \in Pending(w) : SameRequest(w[j], x) /\ w[j].at <= x.at
    BY <1>2, <1>3, <1>4, <2>1 DEF AnswersPending
  <2>2. ASSUME x.exact, NEW j \in Pending(w), SameRequest(w[j], x), w[j].at <= x.at
        PROVE  AnswersPending(m, x)
    <3>1. RequestOf(x) = RequestOf(w[j])
      BY <1>3, <2>2
    <3> QED BY <1>2, <1>4, <2>2, <3>1 DEF AnswersPending
  <2> QED BY <2>1, <2>2
<1>6. \A j, k \in Pending(w) : j = k
  <2>1. \A j, k \in Pending(w) : w[j].occurrence = w[k].occurrence
    BY <1>2, <1>3 DEF SameRequest
  <2> QED BY <1>1, <1>2, <2>1
<1> QED BY <1>1, <1>2, <1>5, <1>6

(* A response or refusal is legal when the mapper accepts it.              *)
LEMMA AnswerIsLegal ==
    ASSUME NEW w \in Seq(Messages), NEW m \in Mapper, Tells(m, w),
           NEW x \in Messages, x.type \in {"created", "refused"}
    PROVE  x.exact /\ LegalAnswer(Append(w, x), Here(w)) <=>
              AnswersPending(m, x) /\ IF x.type = "created" THEN x.response \notin m.responses
                                      ELSE ~Admitted(m)
<1> DEFINE v == Append(w, x)
           h == Here(w)
           C == Of(w, {"created"})
<1>1. /\ w \in Seq(Seen) /\ x \in Seen /\ C \subseteq 1 .. Len(w)
      /\ Of(w, {"request"}) \subseteq 1 .. Len(w)
  BY HistoryFields
<1>2. /\ v[h] = x /\ \A j \in 1 .. Len(w) : v[j] = w[j]
      /\ Prolongs(v, w) /\ h \in 1 .. h
  BY <1>1, Appended
<1>3. \A T : Earlier(v, h, T) = Of(w, T)
  BY <1>1, AppendedIndices
<1>4. \A j \in 1 .. Len(w) : Answered(v, j, h) <=> Answered(w, j, h)
  BY <1>2, SameExchange
<1> HIDE DEF v
<1>5. AnswersPending(m, x) <=>
        x.exact /\ \E j \in Of(w, {"request"}) :
                      SameRequest(v[j], x) /\ ~Answered(v, j, h) /\ v[j].at <= x.at
  <2>1. AnswersPending(m, x) <=>
          x.exact /\ \E j \in Pending(w) : SameRequest(w[j], x) /\ w[j].at <= x.at
    BY AnswersTold
  <2> QED BY <1>1, <1>2, <1>4, <2>1 DEF Pending
<1>6. m.responses = {w[j].response : j \in C} /\ (Admitted(m) <=> C # {})
  BY DEF Tells, ResponsesTold, PhaseTold
<1>7. (\A j \in C : x.type = "created" /\ v[j].response # x.response) <=>
         IF x.type = "created" THEN x.response \notin m.responses ELSE ~Admitted(m)
  BY <1>1, <1>2, <1>6
<1>8. LegalAnswer(v, h) <=>
        /\ \E j \in Of(w, {"request"}) :
               SameRequest(v[j], x) /\ ~Answered(v, j, h) /\ v[j].at <= x.at
        /\ \A j \in C : x.type = "created" /\ v[j].response # x.response
  BY <1>2, <1>3 DEF LegalAnswer
<1> QED BY <1>5, <1>7, <1>8 DEF v

(* After an answer no request is pending.                                  *)
LEMMA AnswerTellsRequests ==
    ASSUME NEW w \in Seq(Messages), NEW m \in Mapper, Tells(m, w),
           NEW x \in Messages, x.type \in {"created", "refused"}, AnswersPending(m, x),
           NEW n, n.pending = NoRequest, n.completed = m.completed \cup {x.occurrence}
    PROVE  RequestsTold(n, Append(w, x))
<1> DEFINE v == Append(w, x)
           R == Of(w, {"request"})
<1>1. /\ w \in Seq(Seen) /\ x \in Seen /\ R \subseteq 1 .. Len(w)
  BY HistoryFields
<1>2. \A j \in 1 .. Len(w) : v[j] = w[j]
  BY <1>1, Appended
<1>3. PICK j \in Pending(w) : SameRequest(w[j], x) /\ Pending(w) = {j} /\ j \in R
  BY AnswersTold
<1>4. Pending(v) = {} /\ Of(v, {"request"}) = R
  BY <1>1, <1>3, AppendedOpen, IndicesKept
<1> HIDE DEF v, R
<1>5. /\ m.completed = {w[k].occurrence : k \in R \ {j}}
      /\ \A k, i \in R : w[k].occurrence = w[i].occurrence => k = i
  BY <1>3 DEF Tells, RequestsTold, R
<1>6. n.completed = {v[k].occurrence : k \in R \ {}}
  <2>1. {v[k].occurrence : k \in R \ {}} = {w[k].occurrence : k \in R}
    BY <1>1, <1>2
  <2>2. {w[k].occurrence : k \in R} = {w[k].occurrence : k \in R \ {j}} \cup {w[j].occurrence}
    BY <1>3
  <2>3. w[j].occurrence = x.occurrence
    BY <1>3 DEF SameRequest
  <2> QED BY <1>5, <2>1, <2>2, <2>3
<1>7. \A k, i \in R : v[k].occurrence = v[i].occurrence => k = i
  BY <1>1, <1>2, <1>5
<1>8. RequestsTold(n, v)
  BY <1>4, <1>6, <1>7 DEF RequestsTold
<1> QED BY <1>8 DEF v

(* The registers after a response was created.                             *)
LEMMA ResponseTells ==
    ASSUME NEW w \in Seq(Messages), NEW m \in Mapper, Tells(m, w),
           NEW x \in Messages, x.type = "created", ~Closed(m, x),
           AnswersPending(m, x), x.response \notin m.responses,
           NEW n, n.pending = NoRequest, n.last = x.at, n.open = x.response,
           n.responses = m.responses \cup {x.response},
           n.completed = m.completed \cup {x.occurrence},
           n.disposition = IF Admitted(m) THEN m.disposition ELSE "EXECUTION_ADMITTED",
           n.mechanism = IF Admitted(m) THEN "RUNNING" ELSE "EXECUTION_ADMITTED",
           n.identity = IF Admitted(m) THEN m.identity ELSE x.response,
           n.clients = m.clients
    PROVE  Tells(n, Append(w, x))
<1> DEFINE v == Append(w, x)
           h == Here(w)
           C == Of(w, {"created"})
<1>1. /\ w \in Seq(Seen) /\ x \in Seen /\ C \subseteq 1 .. Len(w) /\ Len(w) \in Nat
      /\ \A j \in 1 .. Len(w) : w[j] \in Messages
  BY HistoryFields
<1>2. /\ v[h] = x /\ (\A j \in 1 .. Len(w) : v[j] = w[j] /\ j <= h) /\ h \notin 1 .. Len(w)
      /\ h \in Nat
  BY <1>1, Appended DEF Here
<1>3. /\ m.open = None /\ Of(w, {"refused"}) = {} /\ m.startedAt >= m.last
      /\ m.pending # NoRequest
  BY DEF AnswersPending, Tells, ResponsesTold
<1>4. Opened(w) = {} /\ Opened(v) = {h}
  <2>1. Opened(w) = {}
    BY <1>3, QuietTold
  <2> QED BY <1>1, <2>1, AppendedOpen
<1>5. /\ Of(v, {"created"}) = C \cup {h} /\ Of(v, {"refused"}) = {}
      /\ Of(v, {"approval"}) = Of(w, {"approval"}) /\ Of(v, Ends) = Of(w, Ends)
      /\ h \in Of(v, {"created", "refused"})
  BY <1>1, <1>3, IndicesKept DEF Ends
<1>6. /\ \A j \in 1 .. Len(w) : Earlier(v, j, {"created"}) = Earlier(w, j, {"created"})
      /\ Of(w, Ends) \subseteq 1 .. Len(w)
  BY <1>1, AppendedIndices
<1> HIDE DEF v, h, C
<1>7. RequestsTold(n, v)
  BY AnswerTellsRequests DEF v
<1>8. ResponsesTold(n, v)
  <2>1. /\ m.responses = {w[j].response : j \in C}
        /\ \A j, k \in C : w[j].response = w[k].response => j = k
        /\ \A j \in C : w[j].at <= m.last
    BY DEF Tells, ResponsesTold, C
  <2>2. n.responses = {v[j].response : j \in C \cup {h}}
    <3>1. {v[j].response : j \in C \cup {h}} = {v[j].response : j \in C} \cup {x.response}
      BY <1>2
    <3>2. {v[j].response : j \in C} = {w[j].response : j \in C}
      BY <1>1, <1>2
    <3> QED BY <2>1, <3>1, <3>2
  <2>3. \A j, k \in C \cup {h} : v[j].response = v[k].response => j = k
    <3>1. \A j \in C : v[j] = w[j] /\ w[j].response # x.response
      BY <1>1, <1>2, <2>1
    <3> QED BY <1>2, <2>1, <3>1
  <2>4. \A j \in C \cup {h} : v[j].at <= n.last
    <3>1. /\ x.at \in Nat /\ m.last \in Nat /\ m.startedAt \in Nat
          /\ \A j \in C : w[j].at \in Nat
      BY <1>1, MessageFields DEF Mapper
    <3>2. x.at >= m.startedAt
      BY DEF AnswersPending
    <3> QED BY <1>1, <1>2, <1>3, <2>1, <3>1, <3>2
  <2> QED BY <1>2, <1>4, <1>5, <2>2, <2>3, <2>4 DEF ResponsesTold
<1>9. PhaseTold(n, v)
  <2>1. Admitted(n)
    BY MessageFields DEF Admitted
  <2>2. \E j \in C \cup {h} : n.identity = v[j].response /\ \A k \in C \cup {h} : j <= k
    <3>1. CASE Admitted(m)
      <4>1. PICK j \in C : m.identity = w[j].response /\ \A k \in C : j <= k
        BY <3>1 DEF Tells, PhaseTold, C
      <4> QED BY <1>1, <1>2, <3>1, <4>1
    <3>2. CASE ~Admitted(m)
      <4>1. C = {}
        BY <3>2 DEF Tells, PhaseTold, C
      <4> QED BY <1>2, <3>2, <4>1
    <3> QED BY <3>1, <3>2
  <2>3. /\ n.disposition = "EXECUTION_ADMITTED"
        /\ n.mechanism \in {"RUNNING", "EXECUTION_ADMITTED"}
    BY DEF Tells, PhaseTold
  <2>4. Of(w, {"approval"}) = {} /\ ~\E j \in Of(w, Ends) : Earlier(w, j, {"created"}) # {}
    BY DEF Closed, Boundary, Tells, PhaseTold
  <2>5. ~\E j \in Of(v, Ends) : Earlier(v, j, {"created"}) # {}
    BY <1>5, <1>6, <2>4
  <2> QED BY <1>5, <2>1, <2>2, <2>3, <2>4, <2>5 DEF PhaseTold, Disturbed
<1>10. ClientsTold(n, v)
  BY <1>1, ClientsKept DEF Tells, v, Client
<1> QED BY <1>7, <1>8, <1>9, <1>10 DEF Tells, v

(* The registers after a refusal.                                          *)
LEMMA RefusalTells ==
    ASSUME NEW w \in Seq(Messages), NEW m \in Mapper, Tells(m, w),
           NEW x \in Messages, x.type = "refused", ~Closed(m, x),
           AnswersPending(m, x), ~Admitted(m),
           NEW n, n.pending = NoRequest, n.last = x.at, n.open = m.open,
           n.responses = m.responses, n.completed = m.completed \cup {x.occurrence},
           n.disposition = "NOT_ADMITTED_MODEL_AT_CAPACITY",
           n.mechanism = "PARKED_NOT_ADMITTED",
           n.identity = m.identity, n.clients = m.clients
    PROVE  Tells(n, Append(w, x))
<1> DEFINE v == Append(w, x)
           h == Here(w)
<1>1. /\ w \in Seq(Seen) /\ x \in Seen
  BY HistoryFields
<1>2. v[h] = x
  BY <1>1, Appended DEF Here
<1>3. /\ m.open = None /\ Of(w, {"created"}) = {} /\ m.pending # NoRequest
  BY DEF AnswersPending, Tells, ResponsesTold, PhaseTold
<1>4. Opened(v) = {}
  <2>1. Opened(w) = {}
    BY <1>3, QuietTold
  <2> QED BY <1>1, <2>1, AppendedOpen
<1>5. /\ Of(v, {"created"}) = {} /\ h \in Of(v, {"refused"})
      /\ Of(v, {"approval"}) = Of(w, {"approval"}) /\ Of(v, Ends) = Of(w, Ends)
      /\ h \in Of(v, {"created", "refused"})
  BY <1>1, <1>3, IndicesKept DEF Ends
<1>6. /\ \A j \in 1 .. Len(w) : Earlier(v, j, {"created"}) = Earlier(w, j, {"created"})
      /\ Of(w, Ends) \subseteq 1 .. Len(w)
  BY <1>1, AppendedIndices
<1> HIDE DEF v, h
<1>7. RequestsTold(n, v)
  BY AnswerTellsRequests DEF v
<1>8. ResponsesTold(n, v)
  <2>1. m.responses = {}
    BY <1>3 DEF Tells, ResponsesTold
  <2> QED BY <1>2, <1>3, <1>4, <1>5, <2>1 DEF ResponsesTold
<1>9. PhaseTold(n, v)
  <2>1. ~Admitted(n)
    BY DEF Admitted
  <2>2. Of(w, {"approval"}) = {} /\ ~\E j \in Of(w, Ends) : Earlier(w, j, {"created"}) # {}
    BY DEF Closed, Boundary, Tells, PhaseTold
  <2>3. ~\E j \in Of(v, Ends) : Earlier(v, j, {"created"}) # {}
    BY <1>5, <1>6, <2>2
  <2> QED BY <1>5, <2>1, <2>2, <2>3 DEF PhaseTold, Disturbed
<1>10. ClientsTold(n, v)
  BY <1>1, ClientsKept DEF Tells, v, Client
<1> QED BY <1>7, <1>8, <1>9, <1>10 DEF Tells, v

(* A completion is legal when it completes the open response.              *)
LEMMA CompletionIsLegal ==
    ASSUME NEW w \in Seq(Messages), NEW m \in Mapper, Tells(m, w), NEW x \in Messages
    PROVE  LegalCompletion(Append(w, x), Here(w)) <=>
              Admitted(m) /\ x.response = m.open /\ x.response \in m.responses
<1> DEFINE v == Append(w, x)
           h == Here(w)
           C == Of(w, {"created"})
<1>1. /\ w \in Seq(Seen) /\ x \in Seen /\ C \subseteq 1 .. Len(w)
  BY HistoryFields
<1>2. /\ v[h] = x /\ \A j \in 1 .. Len(w) : v[j] = w[j]
      /\ Prolongs(v, w) /\ h \in 1 .. h
  BY <1>1, Appended
<1>3. Earlier(v, h, {"created"}) = C
  BY <1>1, AppendedIndices
<1>4. \A j \in 1 .. Len(w) : Finished(v, j, h) <=> Finished(w, j, h)
  BY <1>2, SameExchange
<1> HIDE DEF v
<1>5. LegalCompletion(v, h) <=> \E j \in Opened(w) : w[j].response = x.response
  BY <1>1, <1>2, <1>3, <1>4 DEF LegalCompletion, Opened
<1>6. /\ \A j \in Opened(w) : m.open = w[j].response /\ j \in C
      /\ m.open # None => Opened(w) # {}
      /\ m.responses = {w[j].response : j \in C} /\ (Admitted(m) <=> C # {})
  BY DEF Tells, ResponsesTold, PhaseTold, Opened
<1>7. x.response # None
  BY MessageFields
<1> HIDE DEF C, h
<1>8. LegalCompletion(v, h) <=>
        Admitted(m) /\ x.response = m.open /\ x.response \in m.responses
  BY <1>5, <1>6, <1>7
<1> QED BY <1>8 DEF v, h

(* The registers after a completion.                                       *)
LEMMA CompletionTells ==
    ASSUME NEW w \in Seq(Messages), NEW m \in Mapper, Tells(m, w),
           NEW x \in Messages, x.type = "completed", ~Closed(m, x),
           Admitted(m), x.response = m.open
    PROVE  Tells([m EXCEPT !.open = None, !.mechanism = "RUNNING"], Append(w, x))
<1> DEFINE v == Append(w, x)
           n == [m EXCEPT !.open = None, !.mechanism = "RUNNING"]
<1>1. /\ w \in Seq(Seen) /\ x \in Seen
  BY HistoryFields
<1>2. /\ n.pending = m.pending /\ n.startedAt = m.startedAt
      /\ n.completed = m.completed /\ n.responses = m.responses /\ n.open = None
      /\ n.last = m.last /\ n.identity = m.identity /\ n.disposition = m.disposition
      /\ n.mechanism = "RUNNING" /\ n.clients = m.clients
  BY DEF Mapper
<1>3. x.response # None /\ m.pending = NoRequest
  BY MessageFields DEF Tells, ResponsesTold
<1>4. Opened(v) = {}
  <2>1. \A j \in Opened(w) : x.response = w[j].response
    BY DEF Tells, ResponsesTold
  <2> QED BY <1>1, <2>1, AppendedOpen
<1>5. /\ Of(v, {"created"}) = Of(w, {"created"}) /\ Of(v, {"refused"}) = Of(w, {"refused"})
      /\ Of(v, {"approval"}) = Of(w, {"approval"}) /\ Of(v, Ends) = Of(w, Ends)
      /\ Of(v, {"created", "refused"}) = Of(w, {"created", "refused"})
  BY <1>1, IndicesKept DEF Ends
<1>6. /\ \A j \in 1 .. Len(w) :
            v[j] = w[j] /\ Earlier(v, j, {"created"}) = Earlier(w, j, {"created"})
      /\ \A T : Of(w, T) \subseteq 1 .. Len(w)
  <2>1. \A j \in 1 .. Len(w) : v[j] = w[j]
    BY <1>1, Appended
  <2>2. ASSUME NEW T
        PROVE  /\ Of(w, T) \subseteq 1 .. Len(w)
               /\ Earlier(v, Here(w), T) = Of(w, T)
               /\ \A j \in 1 .. Len(w) : Earlier(v, j, T) = Earlier(w, j, T)
    BY <1>1, AppendedIndices
  <2> HIDE DEF v
  <2> QED BY <2>1, <2>2
<1> HIDE DEF v, n
<1>7. RequestsTold(n, v)
  BY <1>1, <1>2, RequestsKept DEF Tells, v
<1>8. ResponsesTold(n, v)
  <2>1. {v[j].response : j \in Of(w, {"created"})} = {w[j].response : j \in Of(w, {"created"})}
    BY <1>6
  <2>2. \A j \in Of(w, {"created"}) \cup Of(w, {"created", "refused"}) : v[j] = w[j]
    BY <1>6
  <2> QED BY <1>2, <1>3, <1>4, <1>5, <2>1, <2>2 DEF Tells, ResponsesTold
<1>9. PhaseTold(n, v)
  <2>1. Admitted(n)
    BY <1>2 DEF Admitted
  <2>2. /\ Of(w, {"approval"}) = {} /\ Of(w, {"refused"}) = {}
        /\ ~\E j \in Of(w, Ends) : Earlier(w, j, {"created"}) # {}
    BY DEF Closed, Boundary, Tells, PhaseTold
  <2>3. ~\E j \in Of(v, Ends) : Earlier(v, j, {"created"}) # {}
    BY <1>5, <1>6, <2>2
  <2>4. \A j \in Of(w, {"created"}) : v[j] = w[j]
    BY <1>6
  <2> QED BY <1>2, <1>5, <2>1, <2>2, <2>3, <2>4 DEF Tells, PhaseTold, Disturbed
<1>10. ClientsTold(n, v)
  BY <1>1, <1>2, ClientsKept DEF Tells, v, Client
<1> QED BY <1>7, <1>8, <1>9, <1>10 DEF Tells, v, n

----------------------------------------------------------------------------
(* The ends of a turn, and what its season allows.                         *)

(* Disposition and mechanism tell what may still come.                     *)
LEMMA SeasonTold ==
    ASSUME NEW w \in Seq(Messages), NEW m, Tells(m, w), NEW x \in Messages
    PROVE  InSeason(Append(w, x), Here(w)) <=>
              \/ x.type \in Client
              \/ /\ m.mechanism # "PROVIDER_COMPLETED"
                 /\ m.mechanism = "WAITING_APPROVAL" =>
                        x.type \notin Boundary \cup Ends \cup {"approval"}
<1> DEFINE v == Append(w, x)
           h == Here(w)
<1>1. /\ w \in Seq(Seen) /\ x \in Seen
  BY HistoryFields
<1>2. v[h] = x
  BY <1>1, Appended
<1>3. \A T : /\ Earlier(v, h, T) = Of(w, T) /\ Of(w, T) \subseteq 1 .. Len(w)
             /\ \A j \in 1 .. Len(w) : Earlier(v, j, T) = Earlier(w, j, T)
  BY <1>1, AppendedIndices
<1> HIDE DEF v, h
<1>4. /\ m.mechanism = "WAITING_APPROVAL" <=> Of(w, {"approval"}) # {}
      /\ m.mechanism = "PROVIDER_COMPLETED" <=>
             \E j \in Of(w, Ends) : Earlier(w, j, {"created"}) # {}
  BY DEF Tells, PhaseTold
<1>5. x.type \in Client => x.type \notin Boundary \cup Ends \cup {"approval"}
  BY DEF Client, Boundary, Ends
<1>6. InSeason(v, h) <=>
        /\ \A j \in Of(w, Ends) : x.type \in Client \/ Earlier(w, j, {"created"}) = {}
        /\ Of(w, {"approval"}) # {} => x.type \notin Boundary \cup Ends \cup {"approval"}
  BY <1>2, <1>3 DEF InSeason
<1>7. InSeason(v, h) <=>
         \/ x.type \in Client
         \/ /\ m.mechanism # "PROVIDER_COMPLETED"
            /\ m.mechanism = "WAITING_APPROVAL" =>
                   x.type \notin Boundary \cup Ends \cup {"approval"}
  BY <1>4, <1>5, <1>6
<1> QED BY <1>7 DEF v, h

TurnFits(m) ==
    /\ m.pending = NoRequest
    /\ m.open = None
    /\ IF Admitted(m) THEN m.mechanism # "WAITING_APPROVAL"
       ELSE /\ m.disposition = "NOT_ADMITTED_MODEL_AT_CAPACITY"
            /\ m.mechanism = "PARKED_NOT_ADMITTED"

(* The end of a turn is legal when the mapper accepts it.                  *)
LEMMA EndIsLegal ==
    ASSUME NEW w \in Seq(Messages), NEW m \in Mapper, Tells(m, w),
           NEW x \in Messages, x.type \in Ends, ~Closed(m, x)
    PROVE  TurnFits(m) <=> /\ LegalEnd(Append(w, x), Here(w))
                           /\ InSeason(Append(w, x), Here(w))
<1> DEFINE v == Append(w, x)
           h == Here(w)
<1>1. /\ w \in Seq(Seen) /\ x \in Seen
  BY HistoryFields
<1>2. Prolongs(v, w) /\ h \in 1 .. h
  BY <1>1, Appended
<1>3. /\ Earlier(v, h, {"created", "refused"}) = Of(w, {"created", "refused"})
      /\ Of(w, {"created", "refused"}) = Of(w, {"created"}) \cup Of(w, {"refused"})
  <2>1. Earlier(v, h, {"created", "refused"}) = Of(w, {"created", "refused"})
    BY <1>1, AppendedIndices
  <2>2. Of(w, {"created"} \cup {"refused"}) = Of(w, {"created"}) \cup Of(w, {"refused"})
    BY HistoryFields
  <2>3. {"created"} \cup {"refused"} = {"created", "refused"}
    OBVIOUS
  <2> QED BY <2>1, <2>2, <2>3
<1>4. Quiet(v, h) <=> m.pending = NoRequest /\ m.open = None
  BY <1>2, SameQuiet, QuietTold
<1>5. InSeason(v, h) <=> m.mechanism # "WAITING_APPROVAL"
  <2>1. x.type \notin Client /\ m.mechanism # "PROVIDER_COMPLETED"
    BY DEF Closed, Client, Ends
  <2> QED BY <2>1, SeasonTold
<1> HIDE DEF v, h
<1>6. LegalEnd(v, h) <=> /\ m.pending = NoRequest /\ m.open = None
                         /\ Of(w, {"created"}) # {} \/ Of(w, {"refused"}) # {}
  BY <1>3, <1>4 DEF LegalEnd
<1>7. /\ Admitted(m) <=> Of(w, {"created"}) # {}
      /\ m.disposition = "NOT_ADMITTED_MODEL_AT_CAPACITY" <=> Of(w, {"refused"}) # {}
      /\ m.mechanism = "PARKED_NOT_ADMITTED" <=> Of(w, {"refused"}) # {}
  BY DEF Tells, PhaseTold
<1>8. TurnFits(m) <=> LegalEnd(v, h) /\ InSeason(v, h)
  BY <1>5, <1>6, <1>7 DEF TurnFits
<1> QED BY <1>8 DEF v, h

(* The registers after the end of a turn.                                  *)
LEMMA EndTells ==
    ASSUME NEW w \in Seq(Messages), NEW m \in Mapper, Tells(m, w),
           NEW x \in Messages, x.type \in Ends, ~Closed(m, x), TurnFits(m)
    PROVE  Tells([m EXCEPT !.mechanism = IF Admitted(m) THEN "PROVIDER_COMPLETED" ELSE @],
                 Append(w, x))
<1> DEFINE v == Append(w, x)
           h == Here(w)
           n == [m EXCEPT !.mechanism = IF Admitted(m) THEN "PROVIDER_COMPLETED" ELSE @]
<1>1. /\ w \in Seq(Seen) /\ x \in Seen
  BY HistoryFields
<1>2. /\ n.pending = NoRequest /\ n.pending = m.pending /\ n.startedAt = m.startedAt
      /\ n.completed = m.completed /\ n.responses = m.responses
      /\ n.open = None /\ n.open = m.open
      /\ n.last = m.last /\ n.identity = m.identity /\ n.disposition = m.disposition
      /\ n.mechanism = (IF Admitted(m) THEN "PROVIDER_COMPLETED" ELSE m.mechanism)
      /\ n.clients = m.clients
  BY DEF Mapper, TurnFits
<1>3. /\ x.type \notin {"request", "created", "refused", "completed", "approval"} \cup Client
  BY DEF Ends, Client
<1>4. /\ Of(v, {"created"}) = Of(w, {"created"}) /\ Of(v, {"refused"}) = Of(w, {"refused"})
      /\ Of(v, {"approval"}) = Of(w, {"approval"}) /\ Of(v, Ends) = Of(w, Ends) \cup {h}
  BY <1>1, <1>3, IndicesKept
<1>5. /\ \A j \in 1 .. Len(w) : v[j] = w[j]
  BY <1>1, Appended
<1>6. \A T : /\ Of(w, T) \subseteq 1 .. Len(w) /\ Earlier(v, h, T) = Of(w, T)
             /\ \A j \in 1 .. Len(w) : Earlier(v, j, T) = Earlier(w, j, T)
  BY <1>1, AppendedIndices
<1> HIDE DEF v, n, h
<1>7. RequestsTold(n, v)
  BY <1>1, <1>2, <1>3, RequestsKept DEF Tells, v
<1>8. ResponsesTold(n, v)
  BY <1>1, <1>2, <1>3, ResponsesKept DEF Tells, v
<1>9. PhaseTold(n, v)
  <2>1. Admitted(n) <=> Admitted(m)
    BY <1>2 DEF Admitted
  <2>2. /\ m.mechanism # "WAITING_APPROVAL" /\ m.mechanism # "PROVIDER_COMPLETED"
        /\ Admitted(m) => Of(w, {"refused"}) = {}
    BY DEF Closed, TurnFits, Tells, PhaseTold
  <2>3. n.mechanism = "PROVIDER_COMPLETED" <=> Of(w, {"created"}) # {}
    BY <1>2, <2>2 DEF Tells, PhaseTold
  <2>4. (\E j \in Of(v, Ends) : Earlier(v, j, {"created"}) # {}) <=> Of(w, {"created"}) # {}
    <3>1. ~\E j \in Of(w, Ends) : Earlier(w, j, {"created"}) # {}
      BY <2>2 DEF Tells, PhaseTold
    <3> QED BY <1>4, <1>6, <3>1
  <2>5. \A j \in Of(w, {"created"}) : v[j] = w[j]
    BY <1>5, <1>6
  <2>6. Admitted(m) => \E j \in Of(w, {"created"}) :
           n.identity = v[j].response /\ \A k \in Of(w, {"created"}) : j <= k
    BY <1>2, <2>5 DEF Tells, PhaseTold
  <2>7. n.mechanism = "PARKED_NOT_ADMITTED" <=> Of(w, {"refused"}) # {}
    BY <1>2, <2>2 DEF Tells, PhaseTold
  <2>8. n.mechanism # "WAITING_APPROVAL" /\ ~Disturbed(n) /\ Of(w, {"approval"}) = {}
    BY <1>2, <2>2 DEF Tells, PhaseTold, Disturbed
  <2> QED BY <1>2, <1>4, <2>1, <2>3, <2>4, <2>6, <2>7, <2>8 DEF Tells, PhaseTold
<1>10. ClientsTold(n, v)
  BY <1>1, <1>2, <1>3, ClientsKept DEF Tells, v
<1> QED BY <1>7, <1>8, <1>9, <1>10 DEF Tells, v, n

(* An approval request is legal when the mapper accepts it.                *)
LEMMA ApprovalIsLegal ==
    ASSUME NEW w \in Seq(Messages), NEW m \in Mapper, Tells(m, w), NEW x \in Messages
    PROVE  LegalApproval(Append(w, x), Here(w)) <=> Admitted(m) /\ m.open = None
<1> DEFINE v == Append(w, x)
           h == Here(w)
           C == Of(w, {"created"})
<1>1. /\ w \in Seq(Seen) /\ x \in Seen /\ C \subseteq 1 .. Len(w)
  BY HistoryFields
<1>2. Prolongs(v, w) /\ h \in 1 .. h
  BY <1>1, Appended
<1>3. Earlier(v, h, {"created"}) = C
  BY <1>1, AppendedIndices
<1>4. \A j \in 1 .. Len(w) : Finished(v, j, h) <=> Finished(w, j, h)
  BY <1>2, SameExchange
<1> HIDE DEF v
<1>5. LegalApproval(v, h) <=> C # {} /\ Opened(w) = {}
  BY <1>1, <1>3, <1>4 DEF LegalApproval, Opened
<1>6. LegalApproval(v, h) <=> Admitted(m) /\ m.open = None
  BY <1>5, QuietTold DEF Tells, PhaseTold
<1> QED BY <1>6 DEF v, h

(* The registers after an approval request.                                *)
LEMMA ApprovalTells ==
    ASSUME NEW w \in Seq(Messages), NEW m \in Mapper, Tells(m, w),
           NEW x \in Messages, x.type = "approval", ~Closed(m, x), Admitted(m)
    PROVE  Tells([m EXCEPT !.mechanism = "WAITING_APPROVAL"], Append(w, x))
<1> DEFINE v == Append(w, x)
           h == Here(w)
           n == [m EXCEPT !.mechanism = "WAITING_APPROVAL"]
<1>1. /\ w \in Seq(Seen) /\ x \in Seen
  BY HistoryFields
<1>2. /\ n.pending = m.pending /\ n.startedAt = m.startedAt
      /\ n.completed = m.completed /\ n.responses = m.responses /\ n.open = m.open
      /\ n.last = m.last /\ n.identity = m.identity /\ n.disposition = m.disposition
      /\ n.mechanism = "WAITING_APPROVAL" /\ n.clients = m.clients
  BY DEF Mapper
<1>3. x.type \notin {"request", "created", "refused", "completed"} \cup Client \cup Ends
  BY DEF Ends, Client
<1>4. /\ Of(v, {"created"}) = Of(w, {"created"}) /\ Of(v, {"refused"}) = Of(w, {"refused"})
      /\ Of(v, {"approval"}) = Of(w, {"approval"}) \cup {h} /\ Of(v, Ends) = Of(w, Ends)
  BY <1>1, <1>3, IndicesKept
<1>5. /\ \A j \in 1 .. Len(w) : v[j] = w[j]
  BY <1>1, Appended
<1>6. \A T : /\ Of(w, T) \subseteq 1 .. Len(w) /\ Earlier(v, h, T) = Of(w, T)
             /\ \A j \in 1 .. Len(w) : Earlier(v, j, T) = Earlier(w, j, T)
  BY <1>1, AppendedIndices
<1> HIDE DEF v, n, h
<1>7. RequestsTold(n, v)
  BY <1>1, <1>2, <1>3, RequestsKept DEF Tells, v
<1>8. ResponsesTold(n, v)
  <2>1. n.pending # NoRequest =>
          n.open = None /\ Of(w, {"refused"}) = {} /\ n.startedAt >= n.last
    BY <1>2 DEF Tells, ResponsesTold
  <2> QED BY <1>1, <1>2, <1>3, <2>1, ResponsesKept DEF Tells, v
<1>9. PhaseTold(n, v)
  <2>1. Admitted(n) <=> Admitted(m)
    BY <1>2 DEF Admitted
  <2>2. /\ m.mechanism # "PROVIDER_COMPLETED" /\ Of(w, {"refused"}) = {}
        /\ Of(w, {"created"}) # {}
    BY DEF Closed, Tells, PhaseTold
  <2>3. ~\E j \in Of(v, Ends) : Earlier(v, j, {"created"}) # {}
    BY <1>4, <1>6, <2>2 DEF Tells, PhaseTold
  <2>4. \A j \in Of(w, {"created"}) : v[j] = w[j]
    BY <1>5, <1>6
  <2>5. \E j \in Of(w, {"created"}) :
           n.identity = v[j].response /\ \A k \in Of(w, {"created"}) : j <= k
    BY <1>2, <2>4 DEF Tells, PhaseTold
  <2> QED BY <1>2, <1>4, <2>1, <2>2, <2>3, <2>5 DEF Tells, PhaseTold, Disturbed
<1>10. ClientsTold(n, v)
  BY <1>1, <1>2, <1>3, ClientsKept DEF Tells, v
<1> QED BY <1>7, <1>8, <1>9, <1>10 DEF Tells, v, n

(* A message that none of the registers is about.                          *)
LEMMA ItemTells ==
    ASSUME NEW w \in Seq(Messages), NEW m, Tells(m, w), NEW x \in Messages,
           x.type \notin Boundary \cup Client \cup Ends \cup {"approval"},
           NEW n, n.pending = m.pending, n.startedAt = m.startedAt,
           n.completed = m.completed, n.responses = m.responses, n.open = m.open,
           n.last = m.last, n.identity = m.identity, n.disposition = m.disposition,
           n.mechanism = m.mechanism, n.clients = m.clients
    PROVE  Tells(n, Append(w, x))
<1>1. /\ w \in Seq(Seen) /\ x \in Seen
      /\ x.type \notin {"request", "created", "refused", "completed", "approval"}
                         \cup Client \cup Ends
  BY HistoryFields DEF Boundary
<1>2. n.pending # NoRequest =>
        n.open = None /\ Of(w, {"refused"}) = {} /\ n.startedAt >= n.last
  BY DEF Tells, ResponsesTold
<1>3. n.mechanism = "PROVIDER_COMPLETED" => n.pending = NoRequest /\ n.open = None
  BY DEF Tells, PhaseTold
<1>4. RequestsTold(n, Append(w, x))
  BY <1>1, RequestsKept DEF Tells
<1>5. ResponsesTold(n, Append(w, x))
  BY <1>1, <1>2, ResponsesKept DEF Tells
<1>6. PhaseTold(n, Append(w, x))
  BY <1>1, <1>3, PhaseKept DEF Tells
<1>7. ClientsTold(n, Append(w, x))
  BY <1>1, ClientsKept DEF Tells
<1> QED BY <1>4, <1>5, <1>6, <1>7 DEF Tells

----------------------------------------------------------------------------
(* The client's own messages.                                              *)

(* A client request is retained by its id and method.                      *)
LEMMA IssuedFields ==
    ASSUME NEW x, NEW y
    PROVE  /\ Issued(x).id = x.client
           /\ Issued(x) = Issued(y) <=> x.client = y.client /\ x.method = y.method
BY DEF Issued

(* A client message is legal when the mapper accepts it.                   *)
LEMMA ClientIsLegal ==
    ASSUME NEW w \in Seq(Messages), NEW m \in Mapper, Tells(m, w),
           NEW x \in Messages, x.type \in Client
    PROVE  LegalClient(Append(w, x), Here(w)) <=>
              IF x.type = "client_request"
              THEN /\ \A c \in m.clients : c.id # x.client
                   /\ SelectsInput(x) => Starts(w, Here(w)) = {}
              ELSE Issued(x) \in m.clients
<1> DEFINE v == Append(w, x)
           h == Here(w)
           Q == Of(w, {"client_request"})
           open == {j \in Unreplied(w) : w[j].client = x.client}
<1>1. /\ w \in Seq(Seen) /\ x \in Seen /\ Q \subseteq 1 .. Len(w)
  BY HistoryFields
<1>2. /\ v[h] = x /\ \A j \in 1 .. Len(w) : v[j] = w[j]
      /\ Prolongs(v, w) /\ h \in 1 .. h
  BY <1>1, Appended
<1>3. Earlier(v, h, {"client_request"}) = Q
  BY <1>1, AppendedIndices
<1>4. /\ \A j \in 1 .. Len(w) : Replied(v, j, h) <=> Replied(w, j, h)
      /\ Starts(v, h) = Starts(w, h)
  BY <1>2, SameExchange, SameEcho
<1> HIDE DEF v
<1>5. {j \in Earlier(v, h, {"client_request"}) : v[j].client = v[h].client /\ ~Replied(v, j, h)}
        = open
  BY <1>1, <1>2, <1>3, <1>4 DEF Unreplied
<1> HIDE DEF open
<1>6. LegalClient(v, h) <=>
        IF x.type = "client_request"
        THEN open = {} /\ (SelectsInput(x) => Starts(w, h) = {})
        ELSE \E j \in open : v[j].method = x.method
  BY <1>2, <1>4, <1>5 DEF LegalClient
<1>7. m.clients = {Issued(w[j]) : j \in Unreplied(w)}
  BY DEF Tells, ClientsTold
<1>8. open = {} <=> \A c \in m.clients : c.id # x.client
  <2>1. \A j : Issued(w[j]).id = w[j].client
    BY IssuedFields
  <2> QED BY <1>7, <2>1 DEF open
<1>9. (\E j \in open : v[j].method = x.method) <=> Issued(x) \in m.clients
  <2>1. \A j \in Unreplied(w) : v[j] = w[j]
    BY <1>1, <1>2 DEF Unreplied
  <2>2. \A j : Issued(x) = Issued(w[j]) <=> w[j].client = x.client /\ w[j].method = x.method
    BY IssuedFields
  <2> QED BY <1>7, <2>1, <2>2 DEF open
<1> QED BY <1>6, <1>8, <1>9 DEF v

(* The registers after a client message.                                   *)
LEMMA ClientTells ==
    ASSUME NEW w \in Seq(Messages), NEW m \in Mapper, Tells(m, w),
           NEW x \in Messages, x.type \in Client,
           NEW n, n.pending = m.pending, n.startedAt = m.startedAt,
           n.completed = m.completed, n.responses = m.responses, n.open = m.open,
           n.last = m.last, n.identity = m.identity, n.disposition = m.disposition,
           n.mechanism = m.mechanism,
           IF x.type = "client_request"
           THEN /\ \A c \in m.clients : c.id # x.client
                /\ n.clients = m.clients \cup {Issued(x)}
           ELSE /\ Issued(x) \in m.clients
                /\ n.clients = m.clients \ {Issued(x)}
    PROVE  Tells(n, Append(w, x))
<1> DEFINE v == Append(w, x)
           h == Here(w)
<1>1. /\ w \in Seq(Seen) /\ x \in Seen
      /\ x.type \notin {"request", "created", "refused", "completed", "approval"} \cup Ends
  BY HistoryFields DEF Client, Ends
<1>2. n.pending # NoRequest =>
        n.open = None /\ Of(w, {"refused"}) = {} /\ n.startedAt >= n.last
  BY DEF Tells, ResponsesTold
<1>3. n.mechanism = "PROVIDER_COMPLETED" => n.pending = NoRequest /\ n.open = None
  BY DEF Tells, PhaseTold
<1>4. RequestsTold(n, v)
  BY <1>1, RequestsKept DEF Tells
<1>5. ResponsesTold(n, v)
  BY <1>1, <1>2, ResponsesKept DEF Tells
<1>6. PhaseTold(n, v)
  BY <1>1, <1>3, PhaseKept DEF Tells
<1>7. /\ v[h] = x /\ \A j \in Unreplied(w) : v[j] = w[j]
      /\ h \notin Unreplied(w)
  <2>1. Unreplied(w) \subseteq 1 .. Len(w)
    BY <1>1, AppendedIndices DEF Unreplied
  <2> QED BY <1>1, <2>1, Appended
<1>8. /\ m.clients = {Issued(w[j]) : j \in Unreplied(w)}
      /\ \A j, k \in Unreplied(w) : w[j].client = w[k].client => j = k
  BY DEF Tells, ClientsTold
<1>9. ClientsTold(n, v)
  <2>1. CASE x.type = "client_request"
    <3>1. Unreplied(v) = Unreplied(w) \cup {h}
      BY <1>1, <2>1, AppendedOpen
    <3> HIDE DEF v, h
    <3>2. n.clients = {Issued(v[j]) : j \in Unreplied(w) \cup {h}}
      BY <1>7, <1>8, <2>1
    <3>3. \A j \in Unreplied(w) : w[j].client # x.client
      <4>1. \A j \in Unreplied(w) : Issued(w[j]).id = w[j].client /\ Issued(w[j]) \in m.clients
        BY <1>8, IssuedFields
      <4> QED BY <2>1, <4>1
    <3>4. \A j, k \in Unreplied(w) \cup {h} : v[j].client = v[k].client => j = k
      BY <1>7, <1>8, <3>3
    <3> QED BY <3>1, <3>2, <3>4 DEF ClientsTold
  <2>2. CASE x.type = "client_response"
    <3>1. Unreplied(v) = {j \in Unreplied(w) : x.client # w[j].client}
      BY <1>1, <2>2, AppendedOpen
    <3> HIDE DEF v, h
    <3>2. PICK k \in Unreplied(w) : Issued(w[k]) = Issued(x)
      BY <1>8, <2>2
    <3>3. w[k].client = x.client
      BY <3>2, IssuedFields
    <3>4. \A j \in Unreplied(w) : Issued(w[j]) = Issued(x) <=> x.client = w[j].client
      BY <1>8, <3>2, <3>3, IssuedFields
    <3>5. n.clients = {Issued(w[j]) : j \in Unreplied(v)}
      BY <1>8, <2>2, <3>1, <3>4
    <3>6. {Issued(w[j]) : j \in Unreplied(v)} = {Issued(v[j]) : j \in Unreplied(v)}
      BY <1>7, <3>1
    <3>7. \A j, i \in Unreplied(v) : v[j].client = v[i].client => j = i
      BY <1>7, <1>8, <3>1
    <3> QED BY <3>5, <3>6, <3>7 DEF ClientsTold
  <2> QED BY <2>1, <2>2 DEF Client
<1> QED BY <1>4, <1>5, <1>6, <1>9 DEF Tells

----------------------------------------------------------------------------
(* The large items of the echo contract.                                   *)

(* Which frames belong to the echo, the new message and earlier ones.      *)
LEMMA AppendedEcho ==
    ASSUME NEW w \in Seq(Seen), NEW x \in Seen
    PROVE  LET v == Append(w, x)
               h == Here(w)
           IN  /\ Starts(v, Here(v)) = Starts(w, h) \cup (IF Sends(x) THEN {h} ELSE {})
               /\ Echoed(v, h) <=> /\ Echoing
                                   /\ x.exact
                                   /\ \/ x.type \in Agents \cup {"turn_summary"}
                                      \/ x.type \in Inputs /\ Starts(w, h) # {}
               /\ \A type : EarlierEcho(v, Here(v), type) =
                     EarlierEcho(w, h, type)
                       \cup (IF x.type = type /\ Echoed(v, h) THEN {h} ELSE {})
               /\ \A type : EarlierEcho(w, h, type) \subseteq 1 .. Len(w)
               /\ Starts(v, h) = Starts(w, h)
               /\ \A type : EarlierEcho(v, h, type) = EarlierEcho(w, h, type)
               /\ OutputAt(v, h) = OutputAt(w, h)
<1> DEFINE v == Append(w, x)
           h == Here(w)
<1>1. /\ v[h] = x /\ (\A j \in 1 .. Len(w) : v[j] = w[j]) /\ h \notin 1 .. Len(w)
      /\ Prolongs(v, w) /\ h \in 1 .. h
  BY Appended
<1>2. \A T : /\ Of(w, T) \subseteq 1 .. Len(w)
             /\ Of(v, T) = Of(w, T) \cup (IF x.type \in T THEN {h} ELSE {})
             /\ Earlier(v, h, T) = Of(w, T)
             /\ Earlier(v, Here(v), T) = Of(v, T)
  BY AppendedIndices
<1>3. \A T : Earlier(w, h, T) = Of(w, T)
  BY EarlierFields DEF Here
<1>4. \A j \in 1 .. Len(w) : j \in 1 .. h
  BY Appended
<1>5. \A j \in 1 .. h : Starts(v, j) = Starts(w, j)
  BY <1>1, SameEcho
<1>6. \A j \in 1 .. Len(w) : Echoed(v, j) <=> Echoed(w, j)
  BY <1>1, <1>4, SameEcho
<1> HIDE DEF v, h
<1>7. Starts(v, Here(v)) = Starts(w, h) \cup (IF Sends(x) THEN {h} ELSE {})
  BY <1>1, <1>2, <1>3 DEF Starts, Sends
<1>8. Echoed(v, h) <=> /\ Echoing
                       /\ x.exact
                       /\ \/ x.type \in Agents \cup {"turn_summary"}
                          \/ x.type \in Inputs /\ Starts(w, h) # {}
  BY <1>1, <1>5 DEF Echoed
<1>9. ASSUME NEW type
      PROVE  /\ EarlierEcho(v, Here(v), type) = EarlierEcho(w, h, type)
                        \cup (IF x.type = type /\ Echoed(v, h) THEN {h} ELSE {})
             /\ EarlierEcho(w, h, type) \subseteq 1 .. Len(w)
  BY <1>1, <1>2, <1>3, <1>6 DEF EarlierEcho
<1>10. /\ \A type : EarlierEcho(v, h, type) = EarlierEcho(w, h, type)
       /\ OutputAt(v, h) = OutputAt(w, h) /\ Starts(v, h) = Starts(w, h)
  BY <1>1, SameEcho DEF h
<1> QED BY <1>7, <1>8, <1>9, <1>10 DEF v, h

(* The output under way after the new message.                             *)
LEMMA AppendedOutput ==
    ASSUME NEW w \in Seq(Seen), NEW x \in Seen
    PROVE  LET v == Append(w, x)
               h == Here(w)
           IN  /\ OutputAt(v, Here(v)) =
                    {j \in OutputAt(w, h) :
                        ~(x.type = "agent_completed" /\ Echoed(v, h) /\ x.item = w[j].item)}
                      \cup (IF x.type = "agent_started" /\ Echoed(v, h) THEN {h} ELSE {})
               /\ OutputAt(w, h) \subseteq EarlierEcho(w, h, "agent_started")
<1> DEFINE v == Append(w, x)
           h == Here(w)
           B == EarlierEcho(w, h, "agent_started")
           E == EarlierEcho(w, h, "agent_completed")
<1>1. /\ v[h] = x /\ (\A j \in 1 .. Len(w) : v[j] = w[j]) /\ h \notin 1 .. Len(w)
      /\ \A j \in 1 .. Len(w) : j < h /\ ~(h < j)
      /\ ~(h < h)
  BY Appended DEF Here
<1>2. /\ EarlierEcho(v, Here(v), "agent_started") =
            B \cup (IF x.type = "agent_started" /\ Echoed(v, h) THEN {h} ELSE {})
      /\ EarlierEcho(v, Here(v), "agent_completed") =
            E \cup (IF x.type = "agent_completed" /\ Echoed(v, h) THEN {h} ELSE {})
      /\ B \subseteq 1 .. Len(w) /\ E \subseteq 1 .. Len(w)
  BY AppendedEcho
<1> HIDE DEF v, h, B, E
<1>3. ASSUME NEW j \in B
      PROVE  UnderWay(v, j, Here(v)) <=>
                /\ UnderWay(w, j, h)
                /\ ~(x.type = "agent_completed" /\ Echoed(v, h) /\ x.item = w[j].item)
  BY <1>1, <1>2 DEF UnderWay, E
<1>4. UnderWay(v, h, Here(v))
  BY <1>1, <1>2 DEF UnderWay
<1>5. OutputAt(w, h) = {j \in B : UnderWay(w, j, h)}
  BY DEF OutputAt, B
<1>6. OutputAt(v, Here(v)) =
        {j \in B \cup (IF x.type = "agent_started" /\ Echoed(v, h) THEN {h} ELSE {}) :
            UnderWay(v, j, Here(v))}
  BY <1>2 DEF OutputAt
<1>7. OutputAt(v, Here(v)) =
        {j \in OutputAt(w, h) :
            ~(x.type = "agent_completed" /\ Echoed(v, h) /\ x.item = w[j].item)}
          \cup (IF x.type = "agent_started" /\ Echoed(v, h) THEN {h} ELSE {})
  BY <1>1, <1>2, <1>3, <1>4, <1>5, <1>6
<1> QED BY <1>5, <1>7 DEF v, h, B

(* The frames of the echo, with the new message or without.                *)
LEMMA EchoKept ==
    ASSUME NEW w \in Seq(Seen), NEW x \in Seen, NEW type
    PROVE  LET v == Append(w, x)
               h == Here(w)
           IN  /\ Sends(x) => Starts(v, Here(v)) = Starts(w, h) \cup {h}
               /\ ~Sends(x) => Starts(v, Here(v)) = Starts(w, h)
               /\ x.type = type /\ Echoed(v, h) =>
                     EarlierEcho(v, Here(v), type) = EarlierEcho(w, h, type) \cup {h}
               /\ x.type # type \/ ~Echoed(v, h) =>
                     EarlierEcho(v, Here(v), type) = EarlierEcho(w, h, type)
               /\ x.type \notin {"agent_started", "agent_completed"} \/ ~Echoed(v, h) =>
                     OutputAt(v, Here(v)) = OutputAt(w, h)
<1> DEFINE v == Append(w, x)
           h == Here(w)
<1>1. /\ Starts(v, Here(v)) = Starts(w, h) \cup (IF Sends(x) THEN {h} ELSE {})
      /\ EarlierEcho(v, Here(v), type) = EarlierEcho(w, h, type)
            \cup (IF x.type = type /\ Echoed(v, h) THEN {h} ELSE {})
  BY AppendedEcho
<1>2. OutputAt(v, Here(v)) =
        {j \in OutputAt(w, h) :
            ~(x.type = "agent_completed" /\ Echoed(v, h) /\ x.item = w[j].item)}
          \cup (IF x.type = "agent_started" /\ Echoed(v, h) THEN {h} ELSE {})
  BY AppendedOutput
<1> HIDE DEF v, h
<1>3. x.type \notin {"agent_started", "agent_completed"} \/ ~Echoed(v, h) =>
         OutputAt(v, Here(v)) = OutputAt(w, h)
  BY <1>2
<1> QED BY <1>1, <1>3 DEF v, h

(* The frames that have the larger bound are those that belong to the echo.*)
LEMMA SelectedTold ==
    ASSUME NEW w \in Seq(Messages), NEW m, EchoTold(m.echo, w), NEW x \in Messages
    PROVE  Selected(m, x) <=> Echoed(Append(w, x), Here(w))
<1>1. w \in Seq(Seen) /\ x \in Seen
  BY HistoryFields
<1>2. Echoing => (m.echo.input <=> Starts(w, Here(w)) # {})
  BY DEF EchoTold, InputTold
<1> QED BY <1>1, <1>2, AppendedEcho DEF Selected

(* The bytes of the outputs, as one more is completed.                     *)
LEMMA BytesTold ==
    ASSUME NEW w \in Seq(Messages), NEW x \in Messages
    PROVE  LET v == Append(w, x)
               S == Of(w, {"agent_completed"})
           IN  /\ Bytes(v, S) = Bytes(w, S)
               /\ x.type = "agent_completed" =>
                      Bytes(v, Of(v, {"agent_completed"})) = Bytes(w, S) + x.bytes
               /\ x.type # "agent_completed" =>
                      Bytes(v, Of(v, {"agent_completed"})) = Bytes(w, S)
               /\ Bytes(w, S) \in Nat
<1> DEFINE v == Append(w, x)
           S == Of(w, {"agent_completed"})
           h == Here(w)
           f == [j \in S |-> w[j].bytes]
           g == [j \in S \cup {h} |-> v[j].bytes]
<1>1. /\ w \in Seq(Seen) /\ x \in Seen /\ S \subseteq 1 .. Len(w) /\ Len(w) \in Nat
      /\ \A j \in 1 .. Len(w) : w[j] \in Messages
  BY HistoryFields
<1>2. v[h] = x /\ (\A j \in 1 .. Len(w) : v[j] = w[j]) /\ h \notin 1 .. Len(w)
  BY <1>1, Appended
<1>3. IsFiniteSet(S)
  <2>1. IsFiniteSet(1 .. Len(w))
    BY <1>1, FS_Interval
  <2> QED BY <1>1, <2>1, FS_Subset
<1>4. /\ x.type = "agent_completed" => Of(v, {"agent_completed"}) = S \cup {h}
      /\ x.type # "agent_completed" => Of(v, {"agent_completed"}) = S
  BY <1>1, IndicesKept
<1> HIDE DEF v, S, h
<1>5. [j \in S |-> v[j].bytes] = f
  BY <1>1, <1>2
<1>6. Bytes(v, S) = Bytes(w, S) /\ Bytes(w, S) = SumFunctionOnSet(f, S)
  BY <1>5 DEF Bytes
<1>7. \A j \in S : f[j] \in Nat /\ f[j] = g[j]
  BY <1>1, <1>2, MessageFields
<1>8. \A j \in S \cup {h} : g[j] \in Nat
  BY <1>2, <1>7, MessageFields
<1> HIDE DEF f
<1>9. Bytes(w, S) \in Nat
  BY <1>3, <1>6, <1>7, SumStep
<1>10. Bytes(v, S \cup {h}) = Bytes(w, S) + x.bytes
  <2>1. Bytes(v, S \cup {h}) = SumFunctionOnSet(g, S \cup {h}) /\ g[h] = x.bytes
    BY <1>2 DEF Bytes
  <2> HIDE DEF g
  <2>2. h \notin S
    BY <1>1, <1>2
  <2>3. SumFunctionOnSet(g, S \cup {h}) = g[h] + SumFunctionOnSet(g, S)
    BY <1>3, <1>8, <2>2, SumAdd
  <2>4. SumFunctionOnSet(g, S) = SumFunctionOnSet(f, S)
    BY <1>3, <1>7, SumSame
  <2>5. x.bytes \in Nat
    BY MessageFields
  <2> QED BY <1>6, <1>9, <2>1, <2>3, <2>4, <2>5
<1> QED BY <1>4, <1>6, <1>9, <1>10 DEF v, S, h

(* What the frames of the echo name.                                       *)
LEMMA EchoFields ==
    ASSUME NEW w \in Seq(Messages), NEW type
    PROVE  /\ EarlierEcho(w, Here(w), type) \subseteq 1 .. Len(w)
           /\ \A j \in EarlierEcho(w, Here(w), type) :
                 /\ w[j] \in Messages
                 /\ w[j].item \in Name /\ w[j].text \in Name /\ w[j].item # None
           /\ \A x \in Messages, j \in EarlierEcho(w, Here(w), type) : Append(w, x)[j] = w[j]
<1>1. w \in Seq(Seen) /\ \A j \in 1 .. Len(w) : w[j] \in Messages
  BY HistoryFields
<1>2. EarlierEcho(w, Here(w), type) \subseteq 1 .. Len(w)
  BY <1>1, EarlierFields DEF EarlierEcho, Here
<1>3. \A x \in Messages, j \in 1 .. Len(w) : Append(w, x)[j] = w[j]
  BY <1>1, Appended DEF Seen
<1>4. \A y \in Messages : y.item \in Name /\ y.text \in Name /\ y.item # None
  BY MessageFields, NameAssumption
<1> QED BY <1>1, <1>2, <1>3, <1>4

(* An input frame is legal when the echo accepts it.                       *)
LEMMA InputIsLegal ==
    ASSUME NEW w \in Seq(Messages), NEW e, InputTold(e, w),
           NEW x \in Messages, x.type \in Inputs
    PROVE  LegalInput(Append(w, x), Here(w)) <=>
              IF x.type = "input_started" THEN e.item = None ELSE e.item = x.item /\ ~e.done
<1> DEFINE v == Append(w, x)
           h == Here(w)
           B == EarlierEcho(w, h, "input_started")
           E == EarlierEcho(w, h, "input_completed")
<1>1. /\ w \in Seq(Seen) /\ x \in Seen
  BY HistoryFields
<1>2. v[h] = x
  BY <1>1, Appended
<1>3. EarlierEcho(v, h, "input_started") = B /\ EarlierEcho(v, h, "input_completed") = E
  BY <1>1, AppendedEcho
<1>4. \A j \in B : v[j] = w[j] /\ w[j].item # None
  BY EchoFields
<1>5. /\ \A j \in B : e.item = w[j].item
      /\ e.item # None => B # {}
      /\ e.done <=> E # {}
  BY DEF InputTold
<1>6. x.item # None
  BY MessageFields, NameAssumption
<1> HIDE DEF v, h, B, E
<1>7. CASE x.type = "input_started"
  <2>1. LegalInput(v, h) <=> B = {}
    BY <1>2, <1>3, <1>7 DEF LegalInput
  <2> QED BY <1>4, <1>5, <1>7, <2>1 DEF v, h
<1>8. CASE x.type = "input_completed"
  <2>1. LegalInput(v, h) <=> E = {} /\ \E j \in B : v[j].item = x.item
    BY <1>2, <1>3, <1>8 DEF LegalInput
  <2>2. (\E j \in B : v[j].item = x.item) <=> e.item = x.item
    BY <1>4, <1>5, <1>6
  <2> QED BY <1>5, <1>8, <2>1, <2>2 DEF v, h
<1> QED BY <1>7, <1>8 DEF Inputs

(* A message of another kind leaves what is told of the input.             *)
LEMMA InputKept ==
    ASSUME NEW w \in Seq(Messages), NEW e, InputTold(e, w), NEW x \in Messages,
           ~Sends(x), x.type \notin Inputs \/ ~Echoed(Append(w, x), Here(w)),
           NEW f, f.input = e.input, f.item = e.item, f.done = e.done
    PROVE  InputTold(f, Append(w, x))
<1> DEFINE v == Append(w, x)
           h == Here(w)
<1>1. /\ w \in Seq(Seen) /\ x \in Seen
  BY HistoryFields
<1>2. /\ Starts(v, Here(v)) = Starts(w, h)
      /\ EarlierEcho(v, Here(v), "input_started") = EarlierEcho(w, h, "input_started")
      /\ EarlierEcho(v, Here(v), "input_completed") = EarlierEcho(w, h, "input_completed")
  BY <1>1, EchoKept DEF Inputs
<1>3. \A j \in EarlierEcho(w, h, "input_started") : v[j] = w[j]
  BY EchoFields
<1> HIDE DEF v, h
<1>4. InputTold(f, v)
  BY <1>2, <1>3 DEF InputTold, h
<1> QED BY <1>4 DEF v

(* turn/start selects the input.                                           *)
LEMMA SendingTold ==
    ASSUME NEW w \in Seq(Messages), NEW e, InputTold(e, w), NEW x \in Messages, Sends(x),
           NEW f, f.input, f.item = e.item, f.done = e.done
    PROVE  InputTold(f, Append(w, x))
<1> DEFINE v == Append(w, x)
           h == Here(w)
<1>1. /\ w \in Seq(Seen) /\ x \in Seen /\ x.type = "client_request"
  BY HistoryFields DEF Sends
<1>2. /\ Starts(v, Here(v)) = Starts(w, h) \cup {h}
      /\ EarlierEcho(v, Here(v), "input_started") = EarlierEcho(w, h, "input_started")
      /\ EarlierEcho(v, Here(v), "input_completed") = EarlierEcho(w, h, "input_completed")
  BY <1>1, EchoKept
<1>3. \A j \in EarlierEcho(w, h, "input_started") : v[j] = w[j]
  BY EchoFields
<1> HIDE DEF v, h
<1>4. InputTold(f, v)
  BY <1>2, <1>3 DEF InputTold, h
<1> QED BY <1>4 DEF v

(* The echo after a frame of the input.                                    *)
LEMMA InputTells ==
    ASSUME NEW w \in Seq(Messages), NEW e, InputTold(e, w),
           NEW x \in Messages, x.type \in Inputs, Echoed(Append(w, x), Here(w)),
           LegalInput(Append(w, x), Here(w)),
           NEW f, f.input = e.input,
           f.item = IF x.type = "input_started" THEN x.item ELSE e.item,
           f.done = IF x.type = "input_started" THEN e.done ELSE TRUE
    PROVE  InputTold(f, Append(w, x))
<1> DEFINE v == Append(w, x)
           h == Here(w)
           B == EarlierEcho(w, h, "input_started")
           E == EarlierEcho(w, h, "input_completed")
<1>1. /\ w \in Seq(Seen) /\ x \in Seen /\ ~Sends(x)
  BY HistoryFields DEF Sends, Inputs
<1>2. v[h] = x
  BY <1>1, Appended
<1>3. /\ Starts(v, Here(v)) = Starts(w, h)
      /\ EarlierEcho(v, Here(v), "input_started") =
            IF x.type = "input_started" THEN B \cup {h} ELSE B
      /\ EarlierEcho(v, Here(v), "input_completed") =
            IF x.type = "input_completed" THEN E \cup {h} ELSE E
  BY <1>1, EchoKept
<1>4. \A j \in B : v[j] = w[j]
  BY EchoFields
<1>5. EarlierEcho(v, h, x.type) = {} /\ EarlierEcho(v, h, "input_started") = B
  BY <1>1, <1>2, AppendedEcho DEF LegalInput
<1>6. /\ \A j \in B : e.item = w[j].item
      /\ e.item # None => B # {}
      /\ e.done <=> E # {}
      /\ e.input <=> Starts(w, h) # {}
  BY DEF InputTold
<1> HIDE DEF v, h, B, E
<1>7. CASE x.type = "input_started"
  BY <1>2, <1>3, <1>5, <1>6, <1>7 DEF InputTold, v
<1>8. CASE x.type = "input_completed"
  BY <1>3, <1>4, <1>6, <1>8 DEF InputTold, v
<1> QED BY <1>7, <1>8 DEF Inputs

(* The outputs of the agent that the echo follows.                         *)
LEMMA OutputKept ==
    ASSUME NEW w \in Seq(Messages), NEW e, OutputTold(e, w), NEW x \in Messages,
           \/ x.type \notin {"agent_started", "agent_completed"}
           \/ ~Echoed(Append(w, x), Here(w)),
           NEW f, f.agent = e.agent, f.completed = e.completed, f.last = e.last,
           f.bytes = IF x.type = "agent_completed" THEN e.bytes + x.bytes ELSE e.bytes
    PROVE  OutputTold(f, Append(w, x))
<1> DEFINE v == Append(w, x)
           h == Here(w)
           B == EarlierEcho(w, h, "agent_started")
           E == EarlierEcho(w, h, "agent_completed")
<1>1. /\ w \in Seq(Seen) /\ x \in Seen
  BY HistoryFields
<1>2. /\ EarlierEcho(v, Here(v), "agent_started") = B
      /\ EarlierEcho(v, Here(v), "agent_completed") = E
      /\ OutputAt(v, Here(v)) = OutputAt(w, h)
  BY <1>1, EchoKept
<1>3. /\ \A j \in B \cup E : v[j] = w[j]
      /\ OutputAt(w, h) \subseteq B
  BY <1>1, EchoFields, AppendedOutput
<1>4. f.bytes = Bytes(v, Of(v, {"agent_completed"}))
  BY BytesTold DEF OutputTold
<1>5. /\ \A j \in OutputAt(w, h) : e.agent = w[j].item
      /\ e.agent # None => OutputAt(w, h) # {}
      /\ e.agent \notin e.completed
      /\ \A j, k \in B : w[j].item = w[k].item => j = k
      /\ e.completed = {w[j].item : j \in E}
      /\ \A k \in E : \E j \in B : w[j].item = w[k].item
      /\ \A k \in E : (\A j \in E : j <= k) => e.last = <<w[k].item, w[k].text>>
      /\ E = {} => e.last = <<None, None>>
  BY DEF OutputTold
<1> HIDE DEF v, h, B, E
<1>6. /\ \A j \in OutputAt(w, h) : f.agent = v[j].item
      /\ f.completed = {v[j].item : j \in E}
  BY <1>3, <1>5
<1>7. /\ \A j, k \in B : v[j].item = v[k].item => j = k
      /\ \A k \in E : \E j \in B : v[j].item = v[k].item
      /\ \A k \in E : (\A j \in E : j <= k) => f.last = <<v[k].item, v[k].text>>
  BY <1>3, <1>5
<1>8. OutputTold(f, v)
  BY <1>2, <1>4, <1>5, <1>6, <1>7 DEF OutputTold
<1> QED BY <1>8 DEF v

(* A frame of the output is legal when the echo accepts it.                *)
LEMMA AgentIsLegal ==
    ASSUME NEW w \in Seq(Messages), NEW e, OutputTold(e, w),
           NEW x \in Messages, x.type \in Agents
    PROVE  LegalAgent(Append(w, x), Here(w)) <=>
              IF x.type = "agent_started" THEN e.agent = None /\ x.item \notin e.completed
              ELSE e.agent = x.item
<1> DEFINE v == Append(w, x)
           h == Here(w)
           B == EarlierEcho(w, h, "agent_started")
           E == EarlierEcho(w, h, "agent_completed")
           O == OutputAt(w, h)
<1>1. /\ w \in Seq(Seen) /\ x \in Seen /\ x.item # None
  BY HistoryFields, MessageFields, NameAssumption
<1>2. v[h] = x
  BY <1>1, Appended
<1>3. EarlierEcho(v, h, "agent_started") = B /\ OutputAt(v, h) = O /\ O \subseteq B
  BY <1>1, AppendedEcho, AppendedOutput
<1>4. \A j \in B : v[j] = w[j] /\ w[j].item # None
  BY EchoFields
<1>5. /\ \A j \in O : e.agent = w[j].item
      /\ e.agent # None => O # {}
      /\ e.completed = {w[j].item : j \in E}
      /\ \A k \in E : \E j \in B : w[j].item = w[k].item
  BY DEF OutputTold
<1>6. O = {j \in B : \A k \in E : j < k => w[k].item # w[j].item}
  BY DEF OutputAt, UnderWay
<1> HIDE DEF v, h, B, E, O
<1>7. O = {} <=> e.agent = None
  BY <1>3, <1>4, <1>5
<1>8. CASE x.type = "agent_started"
  <2>1. LegalAgent(v, h) <=> O = {} /\ \A j \in B : w[j].item # x.item
    BY <1>2, <1>3, <1>4, <1>8 DEF LegalAgent
  <2>2. O = {} => ((\A j \in B : w[j].item # x.item) <=> x.item \notin e.completed)
    BY <1>5, <1>6
  <2> QED BY <1>7, <1>8, <2>1, <2>2 DEF v, h
<1>9. CASE x.type # "agent_started"
  <2>1. LegalAgent(v, h) <=> \E j \in O : w[j].item = x.item
    BY <1>2, <1>3, <1>4, <1>9 DEF LegalAgent
  <2>2. (\E j \in O : w[j].item = x.item) <=> e.agent = x.item
    BY <1>1, <1>5
  <2> QED BY <1>9, <2>1, <2>2 DEF v, h
<1> QED BY <1>8, <1>9

(* The echo after an output began.                                         *)
LEMMA AgentStartedTells ==
    ASSUME NEW w \in Seq(Messages), NEW e, OutputTold(e, w),
           NEW x \in Messages, x.type = "agent_started", Echoed(Append(w, x), Here(w)),
           e.agent = None, x.item \notin e.completed,
           NEW f, f.agent = x.item, f.completed = e.completed, f.last = e.last,
           f.bytes = e.bytes
    PROVE  OutputTold(f, Append(w, x))
<1> DEFINE v == Append(w, x)
           h == Here(w)
           B == EarlierEcho(w, h, "agent_started")
           E == EarlierEcho(w, h, "agent_completed")
           O == OutputAt(w, h)
<1>1. /\ w \in Seq(Seen) /\ x \in Seen
  BY HistoryFields
<1>2. v[h] = x /\ h \notin 1 .. Len(w)
  BY <1>1, Appended
<1>3. /\ EarlierEcho(v, Here(v), "agent_started") = B \cup {h}
      /\ EarlierEcho(v, Here(v), "agent_completed") = E
  BY <1>1, EchoKept
<1>4. /\ \A j \in B \cup E : v[j] = w[j] /\ w[j].item # None
  BY EchoFields
<1>5. /\ \A j \in O : e.agent = w[j].item
      /\ \A j, k \in B : w[j].item = w[k].item => j = k
      /\ e.completed = {w[j].item : j \in E}
      /\ \A k \in E : \E j \in B : w[j].item = w[k].item
      /\ \A k \in E : (\A j \in E : j <= k) => e.last = <<w[k].item, w[k].text>>
      /\ E = {} => e.last = <<None, None>>
  BY DEF OutputTold
<1>6. f.bytes = Bytes(v, Of(v, {"agent_completed"}))
  BY BytesTold DEF OutputTold
<1>7. O \subseteq B /\ OutputAt(v, Here(v)) =
        {j \in O : ~(x.type = "agent_completed" /\ Echoed(v, h) /\ x.item = w[j].item)}
          \cup (IF x.type = "agent_started" /\ Echoed(v, h) THEN {h} ELSE {})
  BY <1>1, AppendedOutput
<1>8. O = {j \in B : \A k \in E : j < k => w[k].item # w[j].item}
  BY DEF OutputAt, UnderWay
<1> HIDE DEF v, h, B, E, O
<1>9. O = {}
  BY <1>4, <1>5, <1>7
<1>10. OutputAt(v, Here(v)) = {h}
  BY <1>7, <1>9 DEF v, h
<1>11. \A j \in B : w[j].item # x.item
  BY <1>5, <1>8, <1>9
<1>12. \A j, k \in B \cup {h} : v[j].item = v[k].item => j = k
  BY <1>2, <1>4, <1>5, <1>11
<1>13. {v[j].item : j \in E} = {w[j].item : j \in E}
  BY <1>4
<1>14. \A k \in E : \E j \in B \cup {h} : v[j].item = v[k].item
  BY <1>4, <1>5
<1>15. \A k \in E : (\A j \in E : j <= k) => e.last = <<v[k].item, v[k].text>>
  BY <1>4, <1>5
<1>16. OutputTold(f, v)
  BY <1>2, <1>3, <1>5, <1>6, <1>10, <1>12, <1>13, <1>14, <1>15 DEF OutputTold
<1> QED BY <1>16 DEF v

(* The echo after an output was completed.                                 *)
LEMMA AgentCompletedTells ==
    ASSUME NEW w \in Seq(Messages), NEW e, OutputTold(e, w),
           NEW x \in Messages, x.type = "agent_completed", Echoed(Append(w, x), Here(w)),
           e.agent = x.item,
           NEW f, f.agent = None, f.completed = e.completed \cup {x.item},
           f.last = <<x.item, x.text>>, f.bytes = e.bytes + x.bytes
    PROVE  OutputTold(f, Append(w, x))
<1> DEFINE v == Append(w, x)
           h == Here(w)
           B == EarlierEcho(w, h, "agent_started")
           E == EarlierEcho(w, h, "agent_completed")
           O == OutputAt(w, h)
<1>1. /\ w \in Seq(Seen) /\ x \in Seen /\ x.item # None
  BY HistoryFields, MessageFields, NameAssumption
<1>2. v[h] = x /\ h \notin 1 .. Len(w) /\ \A j \in 1 .. Len(w) : ~(h <= j) /\ j <= h
  BY <1>1, Appended DEF Here
<1>3. /\ EarlierEcho(v, Here(v), "agent_started") = B
      /\ EarlierEcho(v, Here(v), "agent_completed") = E \cup {h}
  BY <1>1, EchoKept
<1>4. /\ \A j \in B \cup E : v[j] = w[j] /\ w[j].item # None
      /\ B \subseteq 1 .. Len(w) /\ E \subseteq 1 .. Len(w)
  BY EchoFields
<1>5. /\ \A j \in O : e.agent = w[j].item
      /\ e.agent # None => O # {}
      /\ \A j, k \in B : w[j].item = w[k].item => j = k
      /\ e.completed = {w[j].item : j \in E}
      /\ \A k \in E : \E j \in B : w[j].item = w[k].item
  BY DEF OutputTold
<1>6. f.bytes = Bytes(v, Of(v, {"agent_completed"}))
  BY BytesTold DEF OutputTold
<1>7. O \subseteq B /\ OutputAt(v, Here(v)) =
        {j \in O : ~(x.type = "agent_completed" /\ Echoed(v, h) /\ x.item = w[j].item)}
          \cup (IF x.type = "agent_started" /\ Echoed(v, h) THEN {h} ELSE {})
  BY <1>1, AppendedOutput
<1>8. None \notin f.completed
  BY <1>1, <1>4, <1>5
<1> HIDE DEF v, h, B, E, O
<1>9. OutputAt(v, Here(v)) = {}
  BY <1>5, <1>7 DEF v, h
<1>10. PICK i \in B : w[i].item = x.item
  BY <1>1, <1>5, <1>7
<1>11. f.completed = {v[j].item : j \in E \cup {h}}
  <2>1. {v[j].item : j \in E} = {w[j].item : j \in E} /\ v[h].item = x.item
    BY <1>2, <1>4
  <2>2. {v[j].item : j \in E \cup {h}} = {v[j].item : j \in E} \cup {v[h].item}
    OBVIOUS
  <2> QED BY <1>5, <2>1, <2>2
<1>12. \A k \in E \cup {h} : \E j \in B : v[j].item = v[k].item
  BY <1>2, <1>4, <1>5, <1>10
<1>13. \A k \in E \cup {h} :
         (\A j \in E \cup {h} : j <= k) => f.last = <<v[k].item, v[k].text>>
  BY <1>2, <1>4
<1>14. \A j, k \in B : v[j].item = v[k].item => j = k
  BY <1>4, <1>5
<1>15. OutputTold(f, v)
  BY <1>3, <1>6, <1>8, <1>9, <1>11, <1>12, <1>13, <1>14 DEF OutputTold
<1> QED BY <1>15 DEF v

(* A summary is legal when it repeats the last output.                     *)
LEMMA SummaryIsLegal ==
    ASSUME NEW w \in Seq(Messages), NEW e, OutputTold(e, w),
           NEW x \in Messages, x.type = "turn_summary"
    PROVE  LegalSummary(Append(w, x), Here(w)) <=>
              e.agent = None /\ e.last = <<x.item, x.text>>
<1> DEFINE v == Append(w, x)
           h == Here(w)
           E == EarlierEcho(w, h, "agent_completed")
           O == OutputAt(w, h)
<1>1. /\ w \in Seq(Seen) /\ x \in Seen /\ x.item # None /\ Len(w) \in Nat
  BY HistoryFields, MessageFields, NameAssumption
<1>2. v[h] = x
  BY <1>1, Appended
<1>3. /\ EarlierEcho(v, h, "agent_completed") = E /\ OutputAt(v, h) = O
      /\ O \subseteq EarlierEcho(w, h, "agent_started")
  BY <1>1, AppendedEcho, AppendedOutput
<1>4. /\ \A j \in E : v[j] = w[j]
      /\ E \in SUBSET (1 .. Len(w))
  BY EchoFields
<1>5. \A j \in O : w[j].item # None
  BY <1>3, EchoFields
<1>6. /\ \A j \in O : e.agent = w[j].item
      /\ e.agent # None => O # {}
      /\ \A k \in E : (\A j \in E : j <= k) => e.last = <<w[k].item, w[k].text>>
      /\ E = {} => e.last = <<None, None>>
  BY DEF OutputTold
<1> HIDE DEF v, h, E, O
<1>7. LegalSummary(v, h) <=>
        /\ O = {}
        /\ \E j \in E : /\ w[j].item = x.item /\ w[j].text = x.text
                        /\ \A k \in E : k <= j
  BY <1>2, <1>3, <1>4 DEF LegalSummary
<1>8. O = {} <=> e.agent = None
  BY <1>5, <1>6
<1>9. (\E j \in E : w[j].item = x.item /\ w[j].text = x.text /\ \A k \in E : k <= j)
         <=> e.last = <<x.item, x.text>>
  <2>1. CASE E = {}
    BY <1>1, <1>6, <2>1
  <2>2. CASE E # {}
    <3>1. PICK g \in E : \A k \in E : g >= k
      BY <1>1, <1>4, <2>2, GreatestBelow
    <3>2. /\ \A k \in E : k <= g
          /\ \A j \in E : (\A k \in E : k <= j) => j = g
      BY <1>4, <3>1
    <3>3. e.last = <<w[g].item, w[g].text>>
      BY <1>6, <3>2
    <3> QED BY <3>2, <3>3
  <2> QED BY <2>1, <2>2
<1> QED BY <1>7, <1>8, <1>9 DEF v, h

(* All output is within the bound when the echo's count is.                *)
LEMMA WithinIsLegal ==
    ASSUME NEW w \in Seq(Messages), NEW e, OutputTold(e, w),
           NEW x \in Messages, x.type = "agent_completed"
    PROVE  WithinBytes(Append(w, x), Here(w)) <=> e.bytes + x.bytes <= MaxAgentBytes
<1> DEFINE v == Append(w, x)
           h == Here(w)
<1>1. /\ w \in Seq(Seen) /\ x \in Seen
  BY HistoryFields
<1>2. h + 1 = Here(v)
  BY <1>1, Appended
<1>3. Earlier(v, Here(v), {"agent_completed"}) = Of(v, {"agent_completed"})
  BY <1>1, AppendedIndices
<1>4. Bytes(v, Of(v, {"agent_completed"})) = e.bytes + x.bytes
  BY BytesTold DEF OutputTold
<1> HIDE DEF v, h
<1>5. WithinBytes(v, h) <=> e.bytes + x.bytes <= MaxAgentBytes
  BY <1>2, <1>3, <1>4 DEF WithinBytes
<1> QED BY <1>5 DEF v, h

----------------------------------------------------------------------------
(* What a handler makes of the message that prolongs the history.          *)

Disrupts(m, n) ==
    /\ Disturbed(n)
    /\ n.identity = m.identity
    /\ n.disposition = "EXECUTION_ADMITTED" <=> m.disposition = "EXECUTION_ADMITTED"
    /\ n.disposition # "NOT_ADMITTED_MODEL_AT_CAPACITY"

Follows(m, n, w, x) ==
    /\ LegalAt(Append(w, x), Here(w)) =>
           Tells(n, Append(w, x)) /\ EchoTold(n.echo, Append(w, x))
    /\ ~LegalAt(Append(w, x), Here(w)) => Disrupts(m, n)

(* A discrepancy disrupts.                                                 *)
LEMMA DiscrepancyDisrupts ==
    ASSUME NEW m \in Mapper, NEW w, PhaseTold(m, w),
           NEW b \in Mapper, b.identity = m.identity, b.disposition = m.disposition
    PROVE  Disrupts(m, Disturb(b))
<1>1. Admitted(m) <=> Admitted(b)
  BY DEF Admitted
<1>2. m.disposition = "EXECUTION_ADMITTED" <=> Admitted(m)
  BY DEF PhaseTold
<1>3. CASE Admitted(b)
  BY <1>1, <1>2, <1>3 DEF Disturb, Disrupts, Disturbed, Mapper
<1>4. CASE ~Admitted(b)
  BY <1>1, <1>2, <1>4 DEF Disturb, Disrupts, Disturbed, Mapper
<1> QED BY <1>3, <1>4

(* A step that checks, then acts or reports a discrepancy.                 *)
LEMMA StepIfFollows ==
    ASSUME NEW w \in Seq(Messages), NEW m \in Mapper, Tells(m, w), NEW x \in Messages,
           NEW b \in Mapper, b.identity = m.identity, b.disposition = m.disposition,
           NEW fits, NEW new, NEW kind,
           fits <=> LegalAt(Append(w, x), Here(w)),
           fits => Tells(new, Append(w, x)) /\ EchoTold(new.echo, Append(w, x))
    PROVE  Follows(m, StepIf(fits, b, new, kind).mapper, w, x)
<1>1. CASE fits
  BY <1>1 DEF Follows, StepIf, Step
<1>2. CASE ~fits
  <2>1. Disrupts(m, Disturb(b))
    BY DiscrepancyDisrupts DEF Tells
  <2> QED BY <1>2, <2>1 DEF Follows, StepIf, Discrepancy
<1> QED BY <1>1, <1>2

(* An illegal message may disrupt.                                         *)
LEMMA DiscrepancyFollows ==
    ASSUME NEW w \in Seq(Messages), NEW m \in Mapper, Tells(m, w), NEW x \in Messages,
           ~LegalAt(Append(w, x), Here(w)), NEW detail
    PROVE  Follows(m, Discrepancy(m, detail).mapper, w, x)
<1>1. Disrupts(m, Disturb(m))
  BY DiscrepancyDisrupts DEF Tells
<1> QED BY <1>1 DEF Follows, Discrepancy

(* What neither sends, begins nor ends an echo leaves it told.             *)
LEMMA EchoStays ==
    ASSUME NEW w \in Seq(Messages), NEW e, EchoTold(e, w), NEW x \in Messages,
           ~Sends(x), x.type \notin Inputs \/ ~Echoed(Append(w, x), Here(w)),
           x.type # "agent_completed",
           x.type # "agent_started" \/ ~Echoed(Append(w, x), Here(w))
    PROVE  EchoTold(e, Append(w, x))
<1>1. SUFFICES ASSUME Echoing, InputTold(e, w), OutputTold(e, w)
               PROVE  InputTold(e, Append(w, x)) /\ OutputTold(e, Append(w, x))
  BY DEF EchoTold
<1>2. InputTold(e, Append(w, x))
  BY <1>1, InputKept
<1>3. OutputTold(e, Append(w, x))
  BY <1>1, OutputKept
<1> QED BY <1>2, <1>3

(* What the reference asks of a message of the App Server that arrives in  *)
(* season and within the bounds.                                           *)
Timely(m, w, x) ==
    /\ x.type \notin Client
    /\ ~Closed(m, x)
    /\ Fits(m, x)
    /\ Tells(m, w)
    /\ EchoTold(m.echo, w)

(* The facts about a message that comes in time.                           *)
LEMMA TimelyMessage ==
    ASSUME NEW w \in Seq(Messages), NEW m \in Mapper, NEW x \in Messages, Timely(m, w, x)
    PROVE  LET v == Append(w, x)
               h == Here(w)
           IN  /\ v[h] = x
               /\ x.size <= RawBound \/ Echoed(v, h)
               /\ x.type \notin Ends => InSeason(v, h)
               /\ x.type # "gone"
<1>1. w \in Seq(Seen) /\ x \in Seen
  BY HistoryFields
<1>2. Append(w, x)[Here(w)] = x
  BY <1>1, Appended
<1>3. x.size <= RawBound \/ Echoed(Append(w, x), Here(w))
  BY SelectedTold DEF Timely, Fits
<1>4. x.type \notin Ends => InSeason(Append(w, x), Here(w))
  <2>1. /\ m.mechanism # "PROVIDER_COMPLETED"
        /\ m.mechanism = "WAITING_APPROVAL" => x.type \notin Boundary \cup {"approval"}
    BY DEF Timely, Closed
  <2> QED BY <2>1, SeasonTold DEF Timely
<1>5. x.type # "gone"
  BY MoreFields DEF Boundary, Local, Client, Inputs, Agents, Ends
<1> QED BY <1>2, <1>3, <1>4, <1>5

(* Of such a message only its own kind is left to judge.                   *)
LEMMA TimelyLegal ==
    ASSUME NEW w \in Seq(Messages), NEW m \in Mapper, NEW x \in Messages, Timely(m, w, x)
    PROVE  LET v == Append(w, x)
               h == Here(w)
           IN  /\ x.type = "request" => (LegalAt(v, h) <=> x.exact /\ LegalRequest(v, h))
               /\ x.type \in {"created", "refused"} =>
                     (LegalAt(v, h) <=> x.exact /\ LegalAnswer(v, h))
               /\ x.type = "completed" => (LegalAt(v, h) <=> x.exact /\ LegalCompletion(v, h))
               /\ x.type = "approval" => (LegalAt(v, h) <=> x.exact /\ LegalApproval(v, h))
               /\ x.type = "turn_completed" =>
                     (LegalAt(v, h) <=> x.exact /\ LegalEnd(v, h) /\ InSeason(v, h))
               /\ x.type = "turn_summary" =>
                     (LegalAt(v, h) <=> /\ x.exact /\ LegalEnd(v, h) /\ InSeason(v, h)
                                        /\ Echoed(v, h) => LegalSummary(v, h))
<1> DEFINE v == Append(w, x)
           h == Here(w)
<1>1. /\ v[h] = x
      /\ x.size <= RawBound \/ Echoed(v, h)
      /\ x.type \notin Ends => InSeason(v, h)
  BY TimelyMessage
<1> HIDE DEF v, h
<1>2. CASE x.type \in {"request", "created", "refused", "completed", "approval"}
  <2>1. LegalItem(v, h)
    BY <1>1, <1>2 DEF LegalItem, Inputs, Agents
  <2> QED BY <1>1, <1>2, <2>1 DEF LegalAt, Boundary, Ends, Client, v, h
<1>3. CASE x.type \in Ends
  <2>1. LegalItem(v, h) <=> (x.type = "turn_summary" /\ Echoed(v, h) => LegalSummary(v, h))
    BY <1>1, <1>3 DEF LegalItem, Inputs, Agents, Ends
  <2> QED BY <1>1, <1>3, <2>1 DEF LegalAt, Ends, Client, v, h
<1>4. CASE x.type \notin {"request", "created", "refused", "completed", "approval"} \cup Ends
  BY <1>4 DEF Ends
<1> QED BY <1>2, <1>3, <1>4

(* The same of the messages that belong to no exchange.                    *)
LEMMA TimelyItem ==
    ASSUME NEW w \in Seq(Messages), NEW m \in Mapper, NEW x \in Messages, Timely(m, w, x),
           x.type \notin {"request", "created", "refused", "completed", "approval"} \cup Ends
    PROVE  LET v == Append(w, x)
               h == Here(w)
           IN  /\ x.type \in {"boundary", "error"} => ~LegalAt(v, h)
               /\ x.type = "local" => (LegalAt(v, h) <=> x.exact)
               /\ x.type = "item" => LegalAt(v, h)
               /\ x.type \in Inputs =>
                     (LegalAt(v, h) <=> (Echoed(v, h) => LegalInput(v, h)))
               /\ x.type \in Agents =>
                     (LegalAt(v, h) <=>
                         /\ Echoed(v, h) => LegalAgent(v, h)
                         /\ Echoing /\ x.type = "agent_completed" => WithinBytes(v, h))
<1> DEFINE v == Append(w, x)
           h == Here(w)
<1>1. /\ v[h] = x
      /\ x.size <= RawBound \/ Echoed(v, h)
      /\ x.type \notin Ends => InSeason(v, h)
      /\ x.type # "gone"
  BY TimelyMessage
<1> HIDE DEF v, h
<1>2. CASE x.type \in {"boundary", "error"}
  BY <1>1, <1>2 DEF LegalAt, Inputs, Agents, v, h
<1>3. CASE x.type \in {"local", "item"}
  <2>1. LegalItem(v, h)
    BY <1>1, <1>3 DEF LegalItem, Inputs, Agents
  <2> QED BY <1>1, <1>3, <2>1 DEF LegalAt, Boundary, Ends, Client, Inputs, Agents, v, h
<1>4. CASE x.type \in Inputs
  <2>1. LegalItem(v, h) <=> (Echoed(v, h) => LegalInput(v, h))
    BY <1>1, <1>4 DEF LegalItem, Inputs, Agents
  <2> QED BY <1>1, <1>4, <2>1 DEF LegalAt, Boundary, Ends, Client, Inputs, Agents, v, h
<1>5. CASE x.type \in Agents
  <2>1. LegalItem(v, h) <=> /\ Echoed(v, h) => LegalAgent(v, h)
                            /\ Echoing /\ x.type = "agent_completed" => WithinBytes(v, h)
    BY <1>1, <1>5 DEF LegalItem, Inputs, Agents
  <2> QED BY <1>1, <1>5, <2>1 DEF LegalAt, Boundary, Ends, Client, Inputs, Agents, v, h
<1> QED BY <1>2, <1>3, <1>4, <1>5 DEF v, h

(* The exchanges.                                                          *)
LEMMA RequestFollows ==
    ASSUME NEW w \in Seq(Messages), NEW m \in Mapper, NEW x \in Messages, Timely(m, w, x),
           x.type = "request"
    PROVE  Follows(m, ProviderRequest(m, x).mapper, w, x)
<1> DEFINE new == [m EXCEPT !.pending = RequestOf(x), !.startedAt = x.at]
<1>1. Tells(m, w) /\ EchoTold(m.echo, w) /\ ~Closed(m, x)
  BY DEF Timely
<1>2. RequestFits(m, x) <=> LegalAt(Append(w, x), Here(w))
  BY <1>1, TimelyLegal, RequestIsLegal
<1>3. RequestFits(m, x) => Tells(new, Append(w, x))
  BY <1>1, RequestTells
<1>4. EchoTold(m.echo, Append(w, x))
  BY <1>1, EchoStays DEF Sends, Inputs
<1>5. new.echo = m.echo
  BY DEF Mapper
<1> HIDE DEF new
<1>6. Follows(m, StepIf(RequestFits(m, x), m, new, "PROVIDER_REQUEST_STARTED").mapper, w, x)
  BY <1>1, <1>2, <1>3, <1>4, <1>5, StepIfFollows
<1> QED BY <1>6 DEF ProviderRequest, new

(* A response or a refusal.                                                *)
LEMMA AnswerFollows ==
    ASSUME NEW w \in Seq(Messages), NEW m \in Mapper, NEW x \in Messages, Timely(m, w, x),
           x.type \in {"created", "refused"}
    PROVE  /\ x.type = "created" => Follows(m, ResponseStarted(m, x).mapper, w, x)
           /\ x.type = "refused" => Follows(m, ProviderRefused(m, x).mapper, w, x)
<1>1. Tells(m, w) /\ EchoTold(m.echo, w) /\ ~Closed(m, x)
  BY DEF Timely
<1>2. LegalAt(Append(w, x), Here(w)) <=>
         AnswersPending(m, x) /\ IF x.type = "created" THEN x.response \notin m.responses
                                 ELSE ~Admitted(m)
  BY <1>1, TimelyLegal, AnswerIsLegal
<1>3. EchoTold(m.echo, Append(w, x))
  BY <1>1, EchoStays DEF Sends, Inputs
<1>4. CASE x.type = "created"
  <2> DEFINE new == [m EXCEPT !.pending = NoRequest, !.startedAt = 0, !.last = x.at,
                              !.open = x.response,
                              !.responses = @ \cup {x.response},
                              !.completed = @ \cup {x.occurrence},
                              !.disposition = IF Admitted(m) THEN @ ELSE "EXECUTION_ADMITTED",
                              !.mechanism = IF Admitted(m) THEN "RUNNING" ELSE "EXECUTION_ADMITTED",
                              !.identity = IF Admitted(m) THEN @ ELSE x.response]
             fits == AnswersPending(m, x) /\ x.response \notin m.responses
  <2>1. /\ new.pending = NoRequest /\ new.last = x.at /\ new.open = x.response
        /\ new.responses = m.responses \cup {x.response}
        /\ new.completed = m.completed \cup {x.occurrence}
        /\ new.disposition = IF Admitted(m) THEN m.disposition ELSE "EXECUTION_ADMITTED"
        /\ new.mechanism = IF Admitted(m) THEN "RUNNING" ELSE "EXECUTION_ADMITTED"
        /\ new.identity = IF Admitted(m) THEN m.identity ELSE x.response
        /\ new.clients = m.clients /\ new.echo = m.echo
    BY DEF Mapper
  <2> HIDE DEF new
  <2>2. fits => Tells(new, Append(w, x))
    BY <1>1, <1>4, <2>1, ResponseTells
  <2>3. fits <=> LegalAt(Append(w, x), Here(w))
    BY <1>2, <1>4
  <2> HIDE DEF fits
  <2>4. Follows(m, StepIf(fits, m, new, "PROVIDER_EXECUTION_STEP").mapper, w, x)
    BY <1>1, <1>3, <2>1, <2>2, <2>3, StepIfFollows
  <2> QED BY <1>4, <2>4 DEF ResponseStarted, new, fits
<1>5. CASE x.type = "refused"
  <2> DEFINE new == [m EXCEPT !.pending = NoRequest, !.startedAt = 0, !.last = x.at,
                              !.completed = @ \cup {x.occurrence},
                              !.disposition = "NOT_ADMITTED_MODEL_AT_CAPACITY",
                              !.mechanism = "PARKED_NOT_ADMITTED"]
             fits == AnswersPending(m, x) /\ ~Admitted(m)
  <2>1. /\ new.pending = NoRequest /\ new.last = x.at /\ new.open = m.open
        /\ new.responses = m.responses
        /\ new.completed = m.completed \cup {x.occurrence}
        /\ new.disposition = "NOT_ADMITTED_MODEL_AT_CAPACITY"
        /\ new.mechanism = "PARKED_NOT_ADMITTED"
        /\ new.identity = m.identity
        /\ new.clients = m.clients /\ new.echo = m.echo
    BY DEF Mapper
  <2> HIDE DEF new
  <2>2. fits => Tells(new, Append(w, x))
    BY <1>1, <1>5, <2>1, RefusalTells
  <2>3. fits <=> LegalAt(Append(w, x), Here(w))
    BY <1>2, <1>5
  <2> HIDE DEF fits
  <2>4. Follows(m, StepIf(fits, m, new, "PROVIDER_ADMISSION_REFUSED").mapper, w, x)
    BY <1>1, <1>3, <2>1, <2>2, <2>3, StepIfFollows
  <2> QED BY <1>5, <2>4 DEF ProviderRefused, new, fits
<1> QED BY <1>4, <1>5

(* A completion.                                                           *)
LEMMA CompletionFollows ==
    ASSUME NEW w \in Seq(Messages), NEW m \in Mapper, NEW x \in Messages, Timely(m, w, x),
           x.type = "completed"
    PROVE  Follows(m, ResponseCompleted(m, x).mapper, w, x)
<1> DEFINE new == [m EXCEPT !.open = None, !.mechanism = "RUNNING"]
           fits == x.exact /\ Admitted(m) /\ x.response = m.open /\ x.response \in m.responses
<1>1. Tells(m, w) /\ EchoTold(m.echo, w) /\ ~Closed(m, x)
  BY DEF Timely
<1>2. fits <=> LegalAt(Append(w, x), Here(w))
  BY <1>1, TimelyLegal, CompletionIsLegal
<1>3. fits => Tells(new, Append(w, x))
  BY <1>1, CompletionTells
<1>4. EchoTold(m.echo, Append(w, x))
  BY <1>1, EchoStays DEF Sends, Inputs
<1>5. new.echo = m.echo
  BY DEF Mapper
<1> HIDE DEF new, fits
<1>6. Follows(m, StepIf(fits, m, new, "PROVIDER_RESPONSE_COMPLETED").mapper, w, x)
  BY <1>1, <1>2, <1>3, <1>4, <1>5, StepIfFollows
<1> QED BY <1>6 DEF ResponseCompleted, new, fits

(* An approval request.                                                    *)
LEMMA ApprovalFollows ==
    ASSUME NEW w \in Seq(Messages), NEW m \in Mapper, NEW x \in Messages, Timely(m, w, x),
           x.type = "approval"
    PROVE  Follows(m, Approval(m, x).mapper, w, x)
<1> DEFINE new == [m EXCEPT !.mechanism = "WAITING_APPROVAL"]
           fits == x.exact /\ Admitted(m) /\ m.open = None
<1>1. Tells(m, w) /\ EchoTold(m.echo, w) /\ ~Closed(m, x)
  BY DEF Timely
<1>2. fits <=> LegalAt(Append(w, x), Here(w))
  BY <1>1, TimelyLegal, ApprovalIsLegal
<1>3. fits => Tells(new, Append(w, x))
  BY <1>1, ApprovalTells
<1>4. EchoTold(m.echo, Append(w, x))
  BY <1>1, EchoStays DEF Sends, Inputs
<1>5. new.echo = m.echo
  BY DEF Mapper
<1> HIDE DEF new, fits
<1>6. Follows(m, StepIf(fits, m, new, "WAITING_APPROVAL").mapper, w, x)
  BY <1>1, <1>2, <1>3, <1>4, <1>5, StepIfFollows
<1> QED BY <1>6 DEF Approval, new, fits

(* The ends of the turn.                                                   *)
LEMMA EndFollows ==
    ASSUME NEW w \in Seq(Messages), NEW m \in Mapper, NEW x \in Messages, Timely(m, w, x),
           x.type \in Ends,
           LegalAt(Append(w, x), Here(w)) <=>
               /\ x.exact
               /\ LegalEnd(Append(w, x), Here(w))
               /\ InSeason(Append(w, x), Here(w))
    PROVE  Follows(m, TurnCompleted(m, x).mapper, w, x)
<1> DEFINE new == [m EXCEPT !.mechanism = IF Admitted(m) THEN "PROVIDER_COMPLETED" ELSE @]
           fits == x.exact /\ TurnFits(m)
<1>1. Tells(m, w) /\ EchoTold(m.echo, w) /\ ~Closed(m, x)
  BY DEF Timely
<1>2. fits <=> LegalAt(Append(w, x), Here(w))
  BY <1>1, EndIsLegal
<1>3. fits => Tells(new, Append(w, x))
  BY <1>1, EndTells
<1>4. EchoTold(m.echo, Append(w, x))
  BY <1>1, EchoStays DEF Sends, Inputs, Ends
<1>5. new.echo = m.echo
  BY DEF Mapper
<1> HIDE DEF new, fits
<1>6. Follows(m, StepIf(fits, m, new, "LOCAL_TURN_FACT").mapper, w, x)
  BY <1>1, <1>2, <1>3, <1>4, <1>5, StepIfFollows
<1>7. fits <=> /\ x.exact
               /\ m.pending = NoRequest
               /\ m.open = None
               /\ IF Admitted(m) THEN m.mechanism # "WAITING_APPROVAL"
                  ELSE /\ m.disposition = "NOT_ADMITTED_MODEL_AT_CAPACITY"
                       /\ m.mechanism = "PARKED_NOT_ADMITTED"
  BY DEF fits, TurnFits
<1>8. TurnCompleted(m, x) = StepIf(fits, m, new, "LOCAL_TURN_FACT")
  BY <1>7 DEF TurnCompleted, StepIf, new
<1> QED BY <1>6, <1>8

(* The summary of a turn.                                                  *)
LEMMA SummaryFollows ==
    ASSUME NEW w \in Seq(Messages), NEW m \in Mapper, NEW x \in Messages, Timely(m, w, x),
           x.type = "turn_summary"
    PROVE  Follows(m, TurnSummary(m, x).mapper, w, x)
<1> DEFINE v == Append(w, x)
           h == Here(w)
<1>1. Tells(m, w) /\ EchoTold(m.echo, w)
  BY DEF Timely
<1>2. Selected(m, x) <=> Echoed(v, h)
  BY <1>1, SelectedTold
<1>3. Echoed(v, h) => (LegalSummary(v, h) <=> m.echo.agent = None /\ m.echo.last = <<x.item, x.text>>)
  BY <1>1, SummaryIsLegal DEF EchoTold, Echoed
<1>4. LegalAt(v, h) <=> /\ x.exact /\ LegalEnd(v, h) /\ InSeason(v, h)
                        /\ Echoed(v, h) => LegalSummary(v, h)
  BY TimelyLegal
<1> HIDE DEF v, h
<1>5. CASE Selected(m, x) /\ (m.echo.agent # None \/ m.echo.last # <<x.item, x.text>>)
  <2>1. ~LegalAt(v, h)
    BY <1>2, <1>3, <1>4, <1>5
  <2>2. Follows(m, Discrepancy(m, "protocol").mapper, w, x)
    BY <1>1, <2>1, DiscrepancyFollows DEF v, h
  <2> QED BY <1>5, <2>2 DEF TurnSummary
<1>6. CASE ~(Selected(m, x) /\ (m.echo.agent # None \/ m.echo.last # <<x.item, x.text>>))
  <2>1. LegalAt(v, h) <=> x.exact /\ LegalEnd(v, h) /\ InSeason(v, h)
    BY <1>2, <1>3, <1>4, <1>6
  <2>2. Follows(m, TurnCompleted(m, x).mapper, w, x)
    BY <2>1, EndFollows DEF Ends, v, h
  <2>3. TurnSummary(m, x) = TurnCompleted(m, x)
    BY <1>6 DEF TurnSummary
  <2> QED BY <2>2, <2>3
<1> QED BY <1>5, <1>6

(* The items.                                                              *)
LEMMA ToldCoherent ==
    ASSUME NEW m, NEW w, Tells(m, w)
    PROVE  Coherent(m)
BY DEF Tells, PhaseTold, ResponsesTold, Coherent, Disturbed

(* A message that changes nothing but the echo.                            *)
LEMMA WatermarkFollows ==
    ASSUME NEW w \in Seq(Messages), NEW m \in Mapper, NEW x \in Messages, Timely(m, w, x),
           x.type \notin Boundary \cup Ends \cup {"approval"},
           NEW b \in Mapper, b.identity = m.identity, b.disposition = m.disposition,
           NEW e, NEW new, new = [m EXCEPT !.echo = e],
           NEW fits, fits <=> LegalAt(Append(w, x), Here(w)),
           fits => EchoTold(e, Append(w, x))
    PROVE  Follows(m, Watermark(fits, b, new).mapper, w, x)
<1>1. Tells(m, w) /\ x.type \notin Client
  BY DEF Timely
<1>2. /\ new.pending = m.pending /\ new.startedAt = m.startedAt
      /\ new.completed = m.completed /\ new.responses = m.responses /\ new.open = m.open
      /\ new.last = m.last /\ new.identity = m.identity /\ new.disposition = m.disposition
      /\ new.mechanism = m.mechanism /\ new.clients = m.clients /\ new.echo = e
  BY DEF Mapper
<1>3. Tells(new, Append(w, x))
  BY <1>1, <1>2, ItemTells
<1> QED BY <1>1, <1>2, <1>3, StepIfFollows DEF Watermark

(* A message that leaves the echo told.                                    *)
LEMMA SameEchoFollows ==
    ASSUME NEW w \in Seq(Messages), NEW m \in Mapper, NEW x \in Messages, Timely(m, w, x),
           x.type \notin Boundary \cup Ends \cup {"approval", "agent_completed"},
           x.type \notin Inputs \cup {"agent_started"} \/ ~Echoed(Append(w, x), Here(w)),
           NEW fits, fits <=> LegalAt(Append(w, x), Here(w))
    PROVE  Follows(m, Watermark(fits, m, m).mapper, w, x)
<1>1. m = [m EXCEPT !.echo = m.echo]
  BY DEF Mapper
<1>2. EchoTold(m.echo, Append(w, x))
  BY EchoStays DEF Timely, Sends, Client
<1> QED BY <1>1, <1>2, WatermarkFollows

(* A frame of the input's echo.                                            *)
LEMMA InputFollows ==
    ASSUME NEW w \in Seq(Messages), NEW m \in Mapper, NEW x \in Messages, Timely(m, w, x),
           x.type \in Inputs, Selected(m, x)
    PROVE  Follows(m, InputItem(m, x).mapper, w, x)
<1> DEFINE v == Append(w, x)
           h == Here(w)
           e1 == [m.echo EXCEPT !.item = x.item]
           e2 == [m.echo EXCEPT !.done = TRUE]
<1>1. /\ EchoTold(m.echo, w) /\ Echoing
      /\ x.type \notin {"request", "created", "refused", "completed", "approval"} \cup Ends
      /\ x.type \notin Boundary
  BY DEF Timely, Selected, Inputs, Ends, Boundary
<1>2. Echoed(v, h) /\ InputTold(m.echo, w) /\ OutputTold(m.echo, w)
  BY <1>1, SelectedTold DEF EchoTold
<1>3. LegalAt(v, h) <=> LegalInput(v, h)
  BY <1>1, <1>2, TimelyItem
<1>4. LegalInput(v, h) <=>
        IF x.type = "input_started" THEN m.echo.item = None
        ELSE m.echo.item = x.item /\ ~m.echo.done
  BY <1>2, InputIsLegal
<1>5. /\ e1.input = m.echo.input /\ e1.item = x.item /\ e1.done = m.echo.done
      /\ e1.agent = m.echo.agent /\ e1.completed = m.echo.completed
      /\ e1.last = m.echo.last /\ e1.bytes = m.echo.bytes
      /\ e2.input = m.echo.input /\ e2.item = m.echo.item /\ e2.done = TRUE
      /\ e2.agent = m.echo.agent /\ e2.completed = m.echo.completed
      /\ e2.last = m.echo.last /\ e2.bytes = m.echo.bytes
  BY MapperFields DEF Echo
<1>6. /\ [m EXCEPT !.echo.item = x.item] = [m EXCEPT !.echo = e1]
      /\ [m EXCEPT !.echo.done = TRUE] = [m EXCEPT !.echo = e2]
  BY DEF Mapper
<1>7. x.type \notin {"agent_started", "agent_completed"}
  BY DEF Inputs
<1> HIDE DEF v, h, e1, e2
<1>8. OutputTold(e1, v) /\ OutputTold(e2, v)
  BY <1>2, <1>5, <1>7, OutputKept DEF v
<1>9. CASE x.type = "input_started"
  <2>1. LegalInput(v, h) => InputTold(e1, v)
    BY <1>2, <1>5, <1>9, InputTells DEF v, h
  <2>2. m.echo.item = None <=> LegalAt(v, h)
    BY <1>3, <1>4, <1>9
  <2>3. (m.echo.item = None) => EchoTold(e1, v)
    BY <1>8, <1>3, <2>1, <2>2 DEF EchoTold
  <2>4. Follows(m, Watermark(m.echo.item = None, m, [m EXCEPT !.echo.item = x.item]).mapper, w, x)
    BY <1>1, <1>6, <2>2, <2>3, WatermarkFollows DEF v, h
  <2> QED BY <1>9, <2>4 DEF InputItem
<1>10. CASE x.type = "input_completed"
  <2> DEFINE fits == m.echo.item = x.item /\ ~m.echo.done
  <2>1. LegalInput(v, h) => InputTold(e2, v)
    BY <1>2, <1>5, <1>10, InputTells DEF v, h
  <2>2. fits <=> LegalAt(v, h)
    BY <1>3, <1>4, <1>10
  <2>3. fits => EchoTold(e2, v)
    BY <1>8, <1>3, <2>1, <2>2 DEF EchoTold
  <2> HIDE DEF fits
  <2>4. Follows(m, Watermark(fits, m, [m EXCEPT !.echo.done = TRUE]).mapper, w, x)
    BY <1>1, <1>6, <2>2, <2>3, WatermarkFollows DEF v, h
  <2> QED BY <1>10, <2>4 DEF InputItem, fits
<1> QED BY <1>9, <1>10 DEF Inputs

(* An output begins.                                                       *)
LEMMA AgentStartedFollows ==
    ASSUME NEW w \in Seq(Messages), NEW m \in Mapper, NEW x \in Messages, Timely(m, w, x),
           x.type = "agent_started", Selected(m, x)
    PROVE  Follows(m, AgentStarted(m, x).mapper, w, x)
<1> DEFINE v == Append(w, x)
           h == Here(w)
           e == [m.echo EXCEPT !.agent = x.item]
           fits == m.echo.agent = None /\ x.item \notin m.echo.completed
<1>1. /\ EchoTold(m.echo, w) /\ Echoing /\ x.type \in Agents /\ ~Sends(x)
      /\ x.type \notin {"request", "created", "refused", "completed", "approval"} \cup Ends
      /\ x.type \notin Boundary \cup Inputs
  BY DEF Timely, Selected, Agents, Ends, Boundary, Inputs, Sends
<1>2. Echoed(v, h) /\ InputTold(m.echo, w) /\ OutputTold(m.echo, w)
  BY <1>1, SelectedTold DEF EchoTold
<1>3. LegalAt(v, h) <=> fits
  BY <1>1, <1>2, TimelyItem, AgentIsLegal
<1>4. /\ e.input = m.echo.input /\ e.item = m.echo.item /\ e.done = m.echo.done
      /\ e.agent = x.item /\ e.completed = m.echo.completed
      /\ e.last = m.echo.last /\ e.bytes = m.echo.bytes
  BY MapperFields DEF Echo
<1>5. [m EXCEPT !.echo.agent = x.item] = [m EXCEPT !.echo = e]
  BY DEF Mapper
<1> HIDE DEF e
<1>6. InputTold(e, v)
  BY <1>1, <1>2, <1>4, InputKept
<1>7. fits => OutputTold(e, v)
  BY <1>2, <1>4, AgentStartedTells
<1>8. fits => EchoTold(e, v)
  BY <1>6, <1>7 DEF EchoTold
<1> HIDE DEF v, h, fits
<1>9. Follows(m, Watermark(fits, m, [m EXCEPT !.echo.agent = x.item]).mapper, w, x)
  BY <1>1, <1>3, <1>5, <1>8, WatermarkFollows DEF v, h
<1> QED BY <1>9 DEF AgentStarted, fits

(* An output goes on.                                                      *)
LEMMA AgentDeltaFollows ==
    ASSUME NEW w \in Seq(Messages), NEW m \in Mapper, NEW x \in Messages, Timely(m, w, x),
           x.type = "agent_delta", Selected(m, x)
    PROVE  Follows(m, AgentDelta(m, x).mapper, w, x)
<1>1. /\ EchoTold(m.echo, w) /\ Echoing /\ x.type \in Agents
      /\ x.type \notin {"request", "created", "refused", "completed", "approval"} \cup Ends
      /\ x.type \notin Boundary \cup Inputs
  BY DEF Timely, Selected, Agents, Ends, Boundary, Inputs
<1>2. Echoed(Append(w, x), Here(w)) /\ OutputTold(m.echo, w)
  BY <1>1, SelectedTold DEF EchoTold
<1>3. (m.echo.agent = x.item) <=> LegalAt(Append(w, x), Here(w))
  BY <1>1, <1>2, TimelyItem, AgentIsLegal
<1>4. Follows(m, Watermark(m.echo.agent = x.item, m, m).mapper, w, x)
  BY <1>1, <1>3, SameEchoFollows
<1> QED BY <1>4 DEF AgentDelta

(* The state of the echo once the bytes of an output are counted.          *)
LEMMA CountedFields ==
    ASSUME NEW m \in Mapper, NEW x \in Messages, Coherent(m)
    PROVE  LET c == Count(m, x)
           IN  /\ c \in Mapper /\ c.identity = m.identity /\ c.disposition = m.disposition
               /\ c = [m EXCEPT !.echo = c.echo]
               /\ c.echo.input = m.echo.input /\ c.echo.item = m.echo.item
               /\ c.echo.done = m.echo.done /\ c.echo.agent = m.echo.agent
               /\ c.echo.completed = m.echo.completed /\ c.echo.last = m.echo.last
               /\ c.echo.bytes = m.echo.bytes + x.bytes
<1> DEFINE e == [m.echo EXCEPT !.bytes = @ + x.bytes]
<1>1. /\ e.input = m.echo.input /\ e.item = m.echo.item /\ e.done = m.echo.done
      /\ e.agent = m.echo.agent /\ e.completed = m.echo.completed
      /\ e.last = m.echo.last /\ e.bytes = m.echo.bytes + x.bytes
  BY MapperFields DEF Echo
<1>2. Count(m, x) = [m EXCEPT !.echo = e]
  BY DEF Mapper, Count
<1> HIDE DEF e
<1>3. /\ Count(m, x).echo = e /\ Count(m, x).identity = m.identity
      /\ Count(m, x).disposition = m.disposition
  BY <1>2 DEF Mapper
<1> QED BY <1>1, <1>2, <1>3, CountMoves

(* An output is complete.                                                  *)
LEMMA AgentCompletedFollows ==
    ASSUME NEW w \in Seq(Messages), NEW m \in Mapper, NEW x \in Messages, Timely(m, w, x),
           x.type = "agent_completed", Selected(m, x)
    PROVE  Follows(m, AgentCompleted(m, x).mapper, w, x)
<1> DEFINE v == Append(w, x)
           h == Here(w)
           c == Count(m, x)
           e == [c.echo EXCEPT !.completed = @ \cup {x.item},
                               !.last = <<x.item, x.text>>,
                               !.agent = None]
           fits == c.echo.bytes <= MaxAgentBytes
<1>1. /\ EchoTold(m.echo, w) /\ Echoing /\ x.type \in Agents /\ ~Sends(x) /\ Tells(m, w)
      /\ x.type \notin {"request", "created", "refused", "completed", "approval"} \cup Ends
      /\ x.type \notin Boundary \cup Inputs
  BY DEF Timely, Selected, Agents, Ends, Boundary, Inputs, Sends
<1>2. Echoed(v, h) /\ InputTold(m.echo, w) /\ OutputTold(m.echo, w)
  BY <1>1, SelectedTold DEF EchoTold
<1>3. LegalAt(v, h) <=> m.echo.agent = x.item /\ m.echo.bytes + x.bytes <= MaxAgentBytes
  BY <1>1, <1>2, TimelyItem, AgentIsLegal, WithinIsLegal
<1>4. /\ c \in Mapper /\ c.identity = m.identity /\ c.disposition = m.disposition
      /\ c = [m EXCEPT !.echo = c.echo]
      /\ c.echo.input = m.echo.input /\ c.echo.item = m.echo.item
      /\ c.echo.done = m.echo.done /\ c.echo.agent = m.echo.agent
      /\ c.echo.completed = m.echo.completed /\ c.echo.last = m.echo.last
      /\ c.echo.bytes = m.echo.bytes + x.bytes
  BY <1>1, ToldCoherent, CountedFields
<1>5. m.echo.agent = x.item => x.item \notin m.echo.completed
  BY <1>2 DEF OutputTold
<1>6. CASE m.echo.agent # x.item
  <2>1. Follows(m, Discrepancy(m, "protocol").mapper, w, x)
    BY <1>1, <1>3, <1>6, DiscrepancyFollows
  <2> QED BY <1>6, <2>1 DEF AgentCompleted
<1>7. CASE m.echo.agent = x.item
  <2>1. fits <=> LegalAt(v, h)
    BY <1>3, <1>4, <1>7
  <2> HIDE DEF c
  <2>2. c.echo \in Echo
    BY <1>4, MapperFields
  <2>3. /\ e.input = m.echo.input /\ e.item = m.echo.item /\ e.done = m.echo.done
        /\ e.agent = None /\ e.completed = m.echo.completed \cup {x.item}
        /\ e.last = <<x.item, x.text>> /\ e.bytes = m.echo.bytes + x.bytes
    BY <1>4, <2>2 DEF Echo
  <2>4. [c EXCEPT !.echo.completed = @ \cup {x.item},
                  !.echo.last = <<x.item, x.text>>,
                  !.echo.agent = None] = [c EXCEPT !.echo = e]
    BY <1>4 DEF Mapper, Echo
  <2> HIDE DEF e
  <2>5. [c EXCEPT !.echo = e] = [m EXCEPT !.echo = e]
    BY <1>4 DEF Mapper
  <2>6. InputTold(e, v)
    BY <1>1, <1>2, <2>3, InputKept
  <2>7. OutputTold(e, v)
    BY <1>2, <1>7, <2>3, AgentCompletedTells
  <2>8. EchoTold(e, v)
    BY <2>6, <2>7 DEF EchoTold
  <2> HIDE DEF v, h, fits
  <2>9. Follows(m, Watermark(fits, c, [c EXCEPT !.echo = e]).mapper, w, x)
    BY <1>1, <1>4, <2>1, <2>5, <2>8, WatermarkFollows DEF v, h
  <2> QED BY <1>5, <1>7, <2>4, <2>9 DEF AgentCompleted, c, fits
<1> QED BY <1>6, <1>7

(* An output that is complete and belongs to no echo.                      *)
LEMMA OtherAgentFollows ==
    ASSUME NEW w \in Seq(Messages), NEW m \in Mapper, NEW x \in Messages, Timely(m, w, x),
           x.type = "agent_completed", Echoing, ~x.exact
    PROVE  Follows(m, OtherAgentCompleted(m, x).mapper, w, x)
<1> DEFINE v == Append(w, x)
           h == Here(w)
           c == Count(m, x)
           fits == c.echo.bytes <= MaxAgentBytes
<1>1. /\ EchoTold(m.echo, w) /\ x.type \in Agents /\ ~Sends(x) /\ Tells(m, w)
      /\ x.type \notin {"request", "created", "refused", "completed", "approval"} \cup Ends
      /\ x.type \notin Boundary \cup Inputs
  BY DEF Timely, Agents, Ends, Boundary, Inputs, Sends
<1>2. ~Echoed(v, h) /\ InputTold(m.echo, w) /\ OutputTold(m.echo, w)
  BY <1>1, SelectedTold DEF EchoTold, Selected
<1>3. LegalAt(v, h) <=> m.echo.bytes + x.bytes <= MaxAgentBytes
  BY <1>1, <1>2, TimelyItem, WithinIsLegal
<1>4. /\ c \in Mapper /\ c.identity = m.identity /\ c.disposition = m.disposition
      /\ c = [m EXCEPT !.echo = c.echo]
      /\ c.echo.input = m.echo.input /\ c.echo.item = m.echo.item
      /\ c.echo.done = m.echo.done /\ c.echo.agent = m.echo.agent
      /\ c.echo.completed = m.echo.completed /\ c.echo.last = m.echo.last
      /\ c.echo.bytes = m.echo.bytes + x.bytes
  BY <1>1, ToldCoherent, CountedFields
<1>5. fits <=> LegalAt(v, h)
  BY <1>3, <1>4
<1> HIDE DEF c
<1>6. InputTold(c.echo, v)
  BY <1>1, <1>2, <1>4, InputKept
<1>7. OutputTold(c.echo, v)
  BY <1>2, <1>4, OutputKept
<1>8. EchoTold(c.echo, v)
  BY <1>6, <1>7 DEF EchoTold
<1> HIDE DEF v, h, fits
<1>9. Follows(m, Watermark(fits, c, c).mapper, w, x)
  BY <1>1, <1>4, <1>5, <1>8, WatermarkFollows DEF v, h
<1> QED BY <1>9 DEF OtherAgentCompleted, c, fits

(* Items that the mapper lets pass.                                        *)
LEMMA PassingFollows ==
    ASSUME NEW w \in Seq(Messages), NEW m \in Mapper, NEW x \in Messages, Timely(m, w, x),
           \/ x.type = "item"
           \/ /\ x.type \in Inputs \cup Agents /\ ~Selected(m, x)
              /\ ~(x.type = "agent_completed" /\ Echoing /\ ~x.exact)
    PROVE  Follows(m, Watermark(TRUE, m, m).mapper, w, x)
<1> DEFINE v == Append(w, x)
           h == Here(w)
<1>1. /\ EchoTold(m.echo, w) /\ ~Sends(x)
      /\ x.type \notin {"request", "created", "refused", "completed", "approval"} \cup Ends
      /\ x.type \notin Boundary /\ x.type # "turn_summary"
  BY DEF Timely, Agents, Ends, Boundary, Inputs, Sends
<1>2. x.type \in Inputs \cup Agents => ~Echoed(v, h)
  <2>1. x.type = "item" => x.type \notin Inputs \cup Agents
    BY DEF Inputs, Agents
  <2> QED BY <1>1, <2>1, SelectedTold
<1>3. x.type = "agent_completed" => ~Echoing
  BY DEF Selected, Inputs, Agents
<1>4. LegalAt(v, h)
  BY <1>1, <1>2, <1>3, TimelyItem
<1>5. CASE x.type = "agent_completed"
  <2>1. m = [m EXCEPT !.echo = m.echo]
    BY DEF Mapper
  <2>2. EchoTold(m.echo, v)
    BY <1>3, <1>5 DEF EchoTold
  <2> QED BY <1>1, <1>4, <2>1, <2>2, WatermarkFollows
<1>6. CASE x.type # "agent_completed"
  <2>1. x.type \notin Inputs \cup {"agent_started"} \/ ~Echoed(v, h)
    BY <1>2 DEF Agents
  <2> QED BY <1>1, <1>4, <1>6, <2>1, SameEchoFollows
<1> QED BY <1>5, <1>6

(* The handlers of all provider messages.                                  *)
LEMMA HandleFollows ==
    ASSUME NEW w \in Seq(Messages), NEW m \in Mapper, NEW x \in Messages, Timely(m, w, x)
    PROVE  Follows(m, Handle(m, x).mapper, w, x)
<1>1. Tells(m, w) /\ x.type \in Boundary \cup Local \cup {"approval"} /\ x.exact \in BOOLEAN
  BY MoreFields DEF Timely
<1>2. CASE x.type = "request"
  <2>1. Handle(m, x) = ProviderRequest(m, x)
    BY <1>2 DEF Handle, Inputs
  <2> QED BY <1>2, <2>1, RequestFollows
<1>3. CASE x.type = "created"
  <2>1. Handle(m, x) = ResponseStarted(m, x)
    BY <1>3 DEF Handle, Inputs
  <2> QED BY <1>3, <2>1, AnswerFollows
<1>4. CASE x.type = "refused"
  <2>1. Handle(m, x) = ProviderRefused(m, x)
    BY <1>4 DEF Handle, Inputs
  <2> QED BY <1>4, <2>1, AnswerFollows
<1>5. CASE x.type = "completed"
  <2>1. Handle(m, x) = ResponseCompleted(m, x)
    BY <1>5 DEF Handle, Inputs
  <2> QED BY <1>5, <2>1, CompletionFollows
<1>6. CASE x.type = "turn_completed"
  <2>1. Follows(m, TurnCompleted(m, x).mapper, w, x)
    BY <1>6, TimelyLegal, EndFollows DEF Ends
  <2>2. Handle(m, x) = TurnCompleted(m, x)
    BY <1>6 DEF Handle, Inputs
  <2> QED BY <2>1, <2>2
<1>7. CASE x.type = "turn_summary"
  <2>1. Handle(m, x) = TurnSummary(m, x)
    BY <1>7 DEF Handle, Inputs
  <2> QED BY <1>7, <2>1, SummaryFollows
<1>8. CASE x.type = "approval"
  <2>1. Handle(m, x) = Approval(m, x)
    BY <1>8 DEF Handle, Inputs
  <2> QED BY <1>8, <2>1, ApprovalFollows
<1>9. CASE x.type \in {"boundary", "error"}
  <2>1. ~LegalAt(Append(w, x), Here(w))
    BY <1>9, TimelyItem DEF Ends
  <2>2. Follows(m, Discrepancy(m, "protocol").mapper, w, x)
    BY <1>1, <2>1, DiscrepancyFollows
  <2>3. Handle(m, x) = Discrepancy(m, "protocol")
    BY <1>9 DEF Handle, Inputs
  <2> QED BY <2>2, <2>3
<1>10. CASE x.type = "local"
  <2>1. x.exact <=> LegalAt(Append(w, x), Here(w))
    BY <1>10, TimelyItem DEF Ends
  <2>2. Follows(m, Watermark(x.exact, m, m).mapper, w, x)
    BY <1>10, <2>1, SameEchoFollows DEF Boundary, Ends, Inputs
  <2>3. Handle(m, x) = Watermark(x.exact, m, m)
    BY <1>10 DEF Handle, Inputs
  <2> QED BY <2>2, <2>3
<1>11. CASE x.type \in Inputs
  <2>1. CASE Selected(m, x)
    <3>1. Handle(m, x) = InputItem(m, x)
      BY <1>11, <2>1 DEF Handle, Inputs
    <3> QED BY <1>11, <2>1, <3>1, InputFollows
  <2>2. CASE ~Selected(m, x)
    <3>1. Handle(m, x) = Watermark(TRUE, m, m)
      BY <1>11, <2>2 DEF Handle, Inputs
    <3>2. x.type # "agent_completed"
      BY <1>11 DEF Inputs
    <3> QED BY <1>11, <2>2, <3>1, <3>2, PassingFollows
  <2> QED BY <2>1, <2>2
<1>12. CASE x.type \in Agents
  <2>1. CASE Selected(m, x)
    <3>1. CASE x.type = "agent_started"
      <4>1. Handle(m, x) = AgentStarted(m, x)
        BY <2>1, <3>1 DEF Handle, Inputs
      <4> QED BY <2>1, <3>1, <4>1, AgentStartedFollows
    <3>2. CASE x.type = "agent_delta"
      <4>1. Handle(m, x) = AgentDelta(m, x)
        BY <2>1, <3>2 DEF Handle, Inputs
      <4> QED BY <2>1, <3>2, <4>1, AgentDeltaFollows
    <3>3. CASE x.type = "agent_completed"
      <4>1. Handle(m, x) = AgentCompleted(m, x)
        BY <2>1, <3>3 DEF Handle, Inputs, Selected
      <4> QED BY <2>1, <3>3, <4>1, AgentCompletedFollows
    <3> QED BY <1>12, <3>1, <3>2, <3>3 DEF Agents
  <2>2. CASE ~Selected(m, x) /\ x.type = "agent_completed" /\ Echoing /\ ~x.exact
    <3>1. Handle(m, x) = OtherAgentCompleted(m, x)
      BY <2>2 DEF Handle, Inputs
    <3> QED BY <2>2, <3>1, OtherAgentFollows
  <2>3. CASE ~Selected(m, x) /\ ~(x.type = "agent_completed" /\ Echoing /\ ~x.exact)
    <3>1. Handle(m, x) = Watermark(TRUE, m, m)
      BY <1>12, <2>3 DEF Handle, Inputs, Agents
    <3> QED BY <1>12, <2>3, <3>1, PassingFollows
  <2> QED BY <2>1, <2>2, <2>3
<1>13. CASE x.type = "item"
  <2>1. Handle(m, x) = Watermark(TRUE, m, m)
    BY <1>13 DEF Handle, Inputs
  <2> QED BY <1>13, <2>1, PassingFollows
<1> QED
  <2>1. x.type \in {"request", "created", "refused", "completed", "turn_completed",
                    "turn_summary", "approval", "boundary", "error", "local", "item"}
                   \cup Inputs \cup Agents
    BY <1>1 DEF Boundary, Local, Ends
  <2> QED BY <1>2, <1>3, <1>4, <1>5, <1>6, <1>7, <1>8, <1>9, <1>10, <1>11, <1>12, <1>13, <2>1

(* A message of the App Server.                                            *)
LEMMA ServerFollows ==
    ASSUME NEW w \in Seq(Messages), NEW m \in Mapper, NEW x \in Messages,
           x.type \notin Client, Tells(m, w), EchoTold(m.echo, w)
    PROVE  Follows(m, ServerMessage(m, x).mapper, w, x)
<1> DEFINE v == Append(w, x)
           h == Here(w)
<1>1. v[h] = x
  BY HistoryFields, Appended
<1>2. CASE ~Fits(m, x)
  <2>1. ~(x.size <= RawBound) /\ ~Echoed(v, h)
    BY <1>2, SelectedTold DEF Fits
  <2> HIDE DEF v, h
  <2>2. ~LegalAt(v, h)
    BY <1>1, <2>1 DEF LegalAt
  <2>3. Follows(m, Discrepancy(m, "custody").mapper, w, x)
    BY <2>2, DiscrepancyFollows DEF v, h
  <2> QED BY <1>2, <2>3 DEF ServerMessage
<1>3. CASE Fits(m, x) /\ Closed(m, x)
  <2>1. \/ m.mechanism = "PROVIDER_COMPLETED"
        \/ m.mechanism = "WAITING_APPROVAL" /\ x.type \in Boundary \cup {"approval"}
    BY <1>3 DEF Closed, Tells, PhaseTold, Disturbed
  <2>2. ~InSeason(v, h)
    BY <2>1, SeasonTold
  <2> HIDE DEF v, h
  <2>3. ~LegalAt(v, h)
    BY <2>2 DEF LegalAt
  <2>4. Follows(m, Discrepancy(m, "protocol").mapper, w, x)
    BY <2>3, DiscrepancyFollows DEF v, h
  <2> QED BY <1>3, <2>4 DEF ServerMessage
<1>4. CASE Fits(m, x) /\ ~Closed(m, x)
  <2>1. Timely(m, w, x)
    BY <1>4 DEF Timely
  <2> QED BY <1>4, <2>1, HandleFollows DEF ServerMessage
<1> QED BY <1>2, <1>3, <1>4

(* The client's own messages.                                              *)
LEMMA ClientMessage ==
    ASSUME NEW w \in Seq(Messages), NEW m \in Mapper, NEW x \in Messages,
           x.type \in Client, ClientFits(x), Tells(m, w)
    PROVE  LegalAt(Append(w, x), Here(w)) <=> x.exact /\ LegalClient(Append(w, x), Here(w))
<1> DEFINE v == Append(w, x)
           h == Here(w)
<1>1. v[h] = x
  BY HistoryFields, Appended
<1>2. InSeason(v, h)
  BY SeasonTold
<1> HIDE DEF v, h
<1>3. LegalItem(v, h)
  BY <1>1 DEF LegalItem, Inputs, Agents, Client
<1>4. LegalAt(v, h) <=> x.exact /\ LegalClient(v, h)
  BY <1>1, <1>2, <1>3 DEF LegalAt, Client, Ends
<1> QED BY <1>4 DEF v, h

(* A request of the client.                                                *)
LEMMA ClientRequestFollows ==
    ASSUME NEW w \in Seq(Messages), NEW m \in Mapper, NEW x \in Messages,
           x.type = "client_request", ClientFits(x), Tells(m, w), EchoTold(m.echo, w)
    PROVE  Follows(m, ClientRequest(m, x).mapper, w, x)
<1> DEFINE v == Append(w, x)
           h == Here(w)
           chosen == IF SelectsInput(x) THEN [m EXCEPT !.echo.input = TRUE] ELSE m
           new == [chosen EXCEPT !.clients = @ \cup {Issued(x)}]
           free == \A c \in m.clients : c.id # x.client
           twice == SelectsInput(x) /\ m.echo.input
<1>1. x.type \in Client /\ x.type \notin Agents \cup Inputs /\ x.type # "turn_summary"
  BY DEF Client, Agents, Inputs
<1>2. LegalAt(v, h) <=> x.exact /\ free /\ (SelectsInput(x) => Starts(w, h) = {})
  BY <1>1, ClientMessage, ClientIsLegal
<1>3. SelectsInput(x) => (m.echo.input <=> Starts(w, h) # {})
  BY DEF EchoTold, InputTold, SelectsInput
<1>4. LegalAt(v, h) <=> x.exact /\ free /\ ~twice
  BY <1>2, <1>3
<1>5. /\ chosen \in Mapper
      /\ chosen.identity = m.identity /\ chosen.disposition = m.disposition
      /\ chosen.pending = m.pending /\ chosen.startedAt = m.startedAt
      /\ chosen.completed = m.completed /\ chosen.responses = m.responses
      /\ chosen.open = m.open /\ chosen.last = m.last /\ chosen.mechanism = m.mechanism
      /\ chosen.clients = m.clients
  BY DEF Mapper, Echo
<1>6. /\ SelectsInput(x) => chosen.echo.input
      /\ ~SelectsInput(x) => chosen.echo = m.echo
      /\ chosen.echo.item = m.echo.item /\ chosen.echo.done = m.echo.done
      /\ chosen.echo.agent = m.echo.agent /\ chosen.echo.completed = m.echo.completed
      /\ chosen.echo.last = m.echo.last /\ chosen.echo.bytes = m.echo.bytes
  BY MapperFields DEF Mapper, Echo
<1> HIDE DEF chosen, twice, free
<1>7. /\ new.identity = m.identity /\ new.disposition = m.disposition
      /\ new.pending = m.pending /\ new.startedAt = m.startedAt
      /\ new.completed = m.completed /\ new.responses = m.responses
      /\ new.open = m.open /\ new.last = m.last /\ new.mechanism = m.mechanism
      /\ new.clients = m.clients \cup {Issued(x)} /\ new.echo = chosen.echo
  BY <1>5 DEF Mapper
<1> HIDE DEF new
<1>8. free => Tells(new, v)
  BY <1>1, <1>7, ClientTells DEF free
<1>9. EchoTold(chosen.echo, v)
  <2>1. SUFFICES ASSUME Echoing PROVE InputTold(chosen.echo, v) /\ OutputTold(chosen.echo, v)
    BY DEF EchoTold
  <2>2. InputTold(m.echo, w) /\ OutputTold(m.echo, w)
    BY <2>1 DEF EchoTold
  <2>3. OutputTold(chosen.echo, v)
    BY <1>1, <1>6, <2>2, OutputKept DEF Agents
  <2>4. SelectsInput(x) <=> Sends(x)
    BY <2>1 DEF SelectsInput, Sends
  <2>5. CASE Sends(x)
    BY <1>6, <2>2, <2>3, <2>4, <2>5, SendingTold
  <2>6. CASE ~Sends(x)
    BY <1>1, <1>6, <2>2, <2>3, <2>4, <2>6, InputKept
  <2> QED BY <2>5, <2>6
<1>10. CASE ~x.exact \/ twice
  <2>1. Follows(m, Discrepancy(m, "protocol").mapper, w, x)
    BY <1>4, <1>10, DiscrepancyFollows
  <2> QED BY <1>10, <2>1 DEF ClientRequest, twice
<1>11. CASE ~(~x.exact \/ twice)
  <2>1. free <=> LegalAt(v, h)
    BY <1>4, <1>11
  <2>2. Follows(m, StepIf(free, chosen, new, "CLIENT_REQUEST_ISSUED").mapper, w, x)
    BY <1>5, <1>7, <1>8, <1>9, <2>1, StepIfFollows
  <2>3. ClientRequest(m, x) = StepIf(free, chosen, new, "CLIENT_REQUEST_ISSUED")
    BY <1>11 DEF ClientRequest, twice, free, chosen, new, Issued
  <2> QED BY <2>2, <2>3
<1> QED BY <1>10, <1>11

(* A response to the client.                                               *)
LEMMA ClientResponseFollows ==
    ASSUME NEW w \in Seq(Messages), NEW m \in Mapper, NEW x \in Messages,
           x.type = "client_response", ClientFits(x), Tells(m, w), EchoTold(m.echo, w)
    PROVE  Follows(m, ClientResponse(m, x).mapper, w, x)
<1> DEFINE new == [m EXCEPT !.clients = @ \ {Issued(x)}]
           fits == x.exact /\ Issued(x) \in m.clients
<1>1. x.type \in Client /\ x.type \notin Agents \cup Inputs /\ ~Sends(x)
  BY DEF Client, Agents, Inputs, Sends
<1>2. fits <=> LegalAt(Append(w, x), Here(w))
  BY <1>1, ClientMessage, ClientIsLegal
<1>3. /\ new.identity = m.identity /\ new.disposition = m.disposition
      /\ new.pending = m.pending /\ new.startedAt = m.startedAt
      /\ new.completed = m.completed /\ new.responses = m.responses
      /\ new.open = m.open /\ new.last = m.last /\ new.mechanism = m.mechanism
      /\ new.clients = m.clients \ {Issued(x)} /\ new.echo = m.echo
  BY DEF Mapper
<1> HIDE DEF new
<1>4. fits => Tells(new, Append(w, x))
  BY <1>1, <1>3, ClientTells
<1>5. EchoTold(m.echo, Append(w, x))
  BY <1>1, EchoStays DEF Agents
<1> HIDE DEF fits
<1>6. Follows(m, StepIf(fits, m, new, "CLIENT_RESPONSE_RETAINED").mapper, w, x)
  BY <1>2, <1>3, <1>4, <1>5, StepIfFollows
<1> QED BY <1>6 DEF ClientResponse, new, fits, Issued

(* The mapper follows the history, message by message.                     *)
LEMMA ConsumeFollows ==
    ASSUME NEW w \in Seq(Messages), NEW m \in Mapper, NEW x \in Messages,
           Tells(m, w), EchoTold(m.echo, w), Consume(m, x).kind # "RAISED"
    PROVE  Follows(m, Consume(m, x).mapper, w, x)
<1>1. CASE x.type \in Client /\ ~ClientFits(x)
  BY <1>1 DEF Consume, Raise
<1>2. CASE x.type = "client_request" /\ ClientFits(x)
  BY <1>2, ClientRequestFollows DEF Consume, Client
<1>3. CASE x.type = "client_response" /\ ClientFits(x)
  BY <1>3, ClientResponseFollows DEF Consume, Client
<1>4. CASE x.type \notin Client
  <2>1. Consume(m, x) = ServerMessage(m, x)
    BY <1>4 DEF Consume, Client
  <2> QED BY <1>4, <2>1, ServerFollows
<1> QED BY <1>1, <1>2, <1>3, <1>4 DEF Client

----------------------------------------------------------------------------
(* What an operation makes of the history.                                 *)

Registers(m, n) ==
    /\ n.pending = m.pending /\ n.startedAt = m.startedAt
    /\ n.completed = m.completed /\ n.responses = m.responses /\ n.open = m.open
    /\ n.last = m.last /\ n.identity = m.identity /\ n.disposition = m.disposition
    /\ n.mechanism = m.mechanism /\ n.clients = m.clients

(* Equal registers tell the same.                                          *)
LEMMA RegistersTell ==
    ASSUME NEW m, NEW n, Registers(m, n), NEW w
    PROVE  /\ Tells(m, w) => Tells(n, w)
           /\ Proved(m, w) => Proved(n, w)
           /\ Disturbed(n) <=> Disturbed(m)
           /\ \A k : Disrupts(k, m) => Disrupts(k, n)
           /\ \A k : Disrupts(n, k) <=> Disrupts(m, k)
<1>1. Admitted(n) <=> Admitted(m)
  BY DEF Registers, Admitted
<1>2. Disturbed(n) <=> Disturbed(m)
  BY DEF Registers, Disturbed
<1>3. RequestsTold(m, w) => RequestsTold(n, w)
  BY DEF Registers, RequestsTold
<1>4. ResponsesTold(m, w) => ResponsesTold(n, w)
  BY DEF Registers, ResponsesTold
<1>5. PhaseTold(m, w) => PhaseTold(n, w)
  BY <1>1, <1>2 DEF Registers, PhaseTold
<1>6. ClientsTold(m, w) => ClientsTold(n, w)
  BY DEF Registers, ClientsTold
<1>7. Proved(m, w) => Proved(n, w)
  BY <1>1 DEF Registers, Proved
<1>8. \A k : Disrupts(k, m) => Disrupts(k, n)
  BY <1>2 DEF Registers, Disrupts
<1>9. \A k : Disrupts(n, k) <=> Disrupts(m, k)
  BY DEF Registers, Disrupts
<1> QED BY <1>2, <1>3, <1>4, <1>5, <1>6, <1>7, <1>8, <1>9 DEF Tells

(* The registers after an operation: those of its step, or as they were.   *)
Leads(m, n, b) ==
    /\ b.record # Raised =>
          /\ m.cut = "open"
          /\ Registers(n, b.mapper)
          /\ b.mapper.expected = n.expected /\ b.mapper.echo = n.echo
          /\ b.mapper.cut = n.cut
    /\ b.record = Raised =>
          /\ Registers(m, b.mapper)
          /\ b.mapper.expected = m.expected /\ b.mapper.cut = m.cut
          /\ n.echo = m.echo => b.mapper.echo = m.echo

(* An atomic operation leads to its step's registers, or back.             *)
LEMMA AtomicRegisters ==
    ASSUME NEW m \in Mapper, NEW s, s.mapper \in Mapper, NEW o, NEW as, NEW raw \in Raws,
           NEW cut
    PROVE  LET b == Atomic(m, s, Envelope(o, as, raw), cut)
           IN  Leads(m, s.mapper, b) /\ (b.record # Raised => s.kind # "RAISED")
<1> DEFINE e == Envelope(o, as, raw)
           z == Size(Record(s, e, cut))
           a == Atomic(m, s, e, cut)
<1>1. e.raw \in Raws
  BY DEF Envelope
<1> HIDE DEF e
<1>2. /\ z \in Nat
      /\ a.record # Raised =>
            m.cut = "open" /\ s.kind # "RAISED" /\ a.mapper = Grow(s.mapper, z)
      /\ a.record = Raised =>
            IF m.cut # "open" THEN a.mapper = m ELSE a.mapper = Leave(m, s.mapper.echo)
  BY <1>1, AtomicFields
<1> HIDE DEF z, a
<1>3. /\ Registers(s.mapper, Grow(s.mapper, z))
      /\ Grow(s.mapper, z).expected = s.mapper.expected
      /\ Grow(s.mapper, z).echo = s.mapper.echo /\ Grow(s.mapper, z).cut = s.mapper.cut
  BY DEF Registers, Grow, Mapper
<1>4. /\ Registers(m, Leave(m, s.mapper.echo)) /\ Registers(m, m)
      /\ Leave(m, s.mapper.echo).expected = m.expected
      /\ Leave(m, s.mapper.echo).echo = s.mapper.echo
      /\ Leave(m, s.mapper.echo).cut = m.cut
  BY DEF Registers, Leave, Mapper
<1> QED BY <1>2, <1>3, <1>4 DEF a, e, Leads

(* An operation that raises.                                               *)
LEMMA RaisedChronicle ==
    ASSUME NEW m \in Mapper, NEW drawn \in Nat, NEW missed, NEW w, Chronicle(m, drawn, missed, w),
           NEW n, Registers(m, n), n.expected = m.expected, n.cut = m.cut,
           NEW drawn2, NEW missed2,
           \/ drawn2 = drawn /\ missed2 = missed /\ n.echo = m.echo
           \/ drawn2 = drawn + 1 /\ m.cut # "clean"
    PROVE  Chronicle(n, drawn2, missed2, w)
<1>1. /\ Tells(m, w) => Tells(n, w)
      /\ Proved(m, w) => Proved(n, w)
      /\ Disturbed(n) <=> Disturbed(m)
      /\ n.disposition = m.disposition /\ n.mechanism = m.mechanism /\ n.clients = m.clients
  BY RegistersTell DEF Registers
<1>2. m.expected \in Nat
  BY MapperFields
<1>3. /\ m.expected <= drawn2
      /\ m.expected = drawn2 => m.expected = drawn /\ n.echo = m.echo
  BY <1>2 DEF Chronicle
<1>4. m.cut = "clean" => drawn2 = drawn /\ missed2 = missed
  OBVIOUS
<1> QED BY <1>1, <1>3, <1>4 DEF Chronicle

(* Nothing more is logged after a disturbance.                             *)
LEMMA DisturbedChronicle ==
    ASSUME NEW m \in Mapper, Coherent(m), Disturbed(m), m.cut = "open",
           NEW drawn, NEW missed, NEW w, Chronicle(m, drawn, missed, w),
           NEW n \in Mapper, Coherent(n), Settles(m, n), n.cut # "clean",
           NEW drawn2, NEW missed2, n.expected <= drawn2
    PROVE  Chronicle(n, drawn2, missed2, w)
<1>1. Disturbed(n)
  BY DEF Settles, Disturbed
<1>2. m.disposition \in {"EXECUTION_ADMITTED", "ADMISSION_INDETERMINATE"}
  BY DEF Coherent, Disturbed
<1>3. n.disposition = m.disposition
  BY <1>2 DEF Settles
<1>4. (Admitted(n) <=> Admitted(m)) /\ (Admitted(n) => n.identity = m.identity)
  BY <1>3 DEF Settles, Coherent
<1>5. Proved(n, w)
  BY <1>3, <1>4 DEF Chronicle, Proved
<1>6. ~Legal(w)
  BY DEF Chronicle
<1> QED BY <1>1, <1>2, <1>3, <1>5, <1>6 DEF Chronicle

(* What disturbs: an illegal message, or one that is gone.                 *)
LEMMA IllegalChronicle ==
    ASSUME NEW m, ~Disturbed(m), NEW drawn, NEW missed, NEW w \in Seq(Seen),
           Chronicle(m, drawn, missed, w),
           NEW x \in Seen, ~LegalAt(Append(w, x), Here(w)),
           NEW n, Disrupts(m, n), n.cut # "clean",
           NEW drawn2, NEW missed2, n.expected <= drawn2
    PROVE  Chronicle(n, drawn2, missed2, Append(w, x))
<1>1. Proved(n, Append(w, x))
  <2>1. Proved(m, w)
    BY DEF Chronicle
  <2> QED BY <2>1, IllegalProves DEF Disrupts
<1>2. ~Legal(Append(w, x))
  BY AppendedLegal
<1> QED BY <1>1, <1>2 DEF Chronicle, Disrupts

(* A legal message that the registers tell.                                *)
LEMMA LegalChronicle ==
    ASSUME NEW w \in Seq(Messages), Legal(w), NEW x \in Messages,
           LegalAt(Append(w, x), Here(w)),
           NEW n, Tells(n, Append(w, x)), EchoTold(n.echo, Append(w, x)),
           n.cut = "open", n.expected = Here(w),
           NEW drawn2, NEW missed2, drawn2 = Here(w)
    PROVE  Chronicle(n, drawn2, missed2, Append(w, x))
<1>1. w \in Seq(Seen) /\ x \in Seen /\ Append(w, x) \in Seq(Messages)
  BY HistoryFields
<1>2. Legal(Append(w, x)) /\ Len(Append(w, x)) = Here(w) /\ Here(w) \in Nat
  BY <1>1, AppendedLegal, Appended
<1>3. Append(w, x) \in Seq(Seen)
  BY <1>1, HistoryFields
<1>4. ~Disturbed(n) /\ Proved(n, Append(w, x))
  BY <1>2, <1>3, LegalProves DEF Tells, PhaseTold
<1> QED BY <1>1, <1>2, <1>4 DEF Chronicle

(* What is retained of an envelope, and what its operation logs.           *)
Logged(m, record, w, seen) == IF record = Raised \/ Disturbed(m) THEN w ELSE w \o seen

(* Drawing an ordinal changes no register.                                 *)
LEMMA AfterRegisters ==
    ASSUME NEW m \in Mapper, NEW o \in Nat
    PROVE  /\ After(m, o) \in Mapper /\ Registers(m, After(m, o))
           /\ After(m, o).echo = m.echo /\ After(m, o).cut = m.cut
           /\ o >= m.expected => After(m, o).expected = o + 1
<1>1. /\ After(m, o) \in Mapper
      /\ After(m, o).echo = m.echo /\ After(m, o).cut = m.cut
      /\ After(m, o).expected = IF o < m.expected THEN m.expected ELSE o + 1
  BY AfterFields
<1>2. Registers(m, After(m, o))
  BY DEF Registers, After, Mapper
<1>3. o >= m.expected => After(m, o).expected = o + 1
  BY <1>1, MapperFields
<1> QED BY <1>1, <1>2, <1>3

(* Something is gone, and the operation notes so.                          *)
LEMMA GoneChronicle ==
    ASSUME NEW m \in Mapper, Coherent(m), NEW drawn \in Nat, NEW missed, NEW w \in Seq(Seen),
           Chronicle(m, drawn, missed, w), m.cut = "open",
           NEW k \in Mapper, Registers(m, k), NEW detail,
           NEW n \in Mapper, Coherent(n), Settles(m, n),
           Registers(Discrepancy(k, detail).mapper, n), n.cut # "clean",
           NEW drawn2, NEW missed2, n.expected <= drawn2
    PROVE  Chronicle(n, drawn2, missed2, IF Disturbed(m) THEN w ELSE w \o <<Gone>>)
<1>1. CASE Disturbed(m)
  BY <1>1, DisturbedChronicle
<1>2. CASE ~Disturbed(m)
  <2>1. PhaseTold(m, w)
    BY <1>2 DEF Chronicle, Tells
  <2>2. Disrupts(m, Disturb(k))
    BY <2>1, DiscrepancyDisrupts DEF Registers
  <2>3. Disrupts(m, n)
    BY <2>2, RegistersTell DEF Discrepancy
  <2>4. Gone \in Seen /\ ~LegalAt(Append(w, Gone), Here(w)) /\ w \o <<Gone>> = Append(w, Gone)
    BY GoneIsIllegal DEF Seen
  <2> QED BY <1>2, <2>3, <2>4, IllegalChronicle
<1> QED BY <1>1, <1>2

(* An envelope: a message in order, or something gone.                     *)
LEMMA EnvelopeChronicle ==
    ASSUME NEW m \in Mapper, Coherent(m), NEW drawn \in Nat, NEW missed, NEW w \in Seq(Seen),
           Chronicle(m, drawn, missed, w), m.cut # "clean",
           NEW as \in Sources, NEW raw \in Raws, NEW seen,
           \/ drawn = m.expected /\ as # "LOSS" /\ raw # <<>> /\ seen = raw
           \/ drawn # m.expected /\ seen = <<Gone>>
           \/ as = "LOSS" /\ seen = <<Gone>>,
           NEW missed2
    PROVE  LET a == ConsumeEnvelope(m, Envelope(drawn, as, raw))
           IN  Chronicle(a.mapper, drawn + 1, missed2, Logged(m, a.record, w, seen))
<1> DEFINE e == Envelope(drawn, as, raw)
           a == ConsumeEnvelope(m, e)
           next == After(m, drawn)
           s == IF drawn # m.expected THEN Discrepancy(next, "gap")
                ELSE IF as = "LOSS" THEN Discrepancy(next, "loss")
                ELSE IF raw = <<>> THEN Discrepancy(next, "shape")
                ELSE Consume(next, raw[1])
<1>1. m.expected \in Nat /\ drawn >= m.expected
  BY MapperFields DEF Chronicle
<1>2. /\ next \in Mapper /\ Registers(m, next)
      /\ next.echo = m.echo /\ next.cut = m.cut /\ next.expected = drawn + 1
  BY <1>1, AfterRegisters
<1>3. Coherent(next)
  BY AfterMoves
<1>4. a = Atomic(m, s, e, NoCut)
  BY DEF ConsumeEnvelope, Envelope
<1> HIDE DEF next
<1>5. \A x : Moves(next, x, Disturb(next))
  BY <1>2, <1>3, Disturbs
<1>6. /\ s.mapper \in Mapper
      /\ s.mapper.expected = drawn + 1 /\ s.mapper.cut = m.cut
  <2>1. ASSUME raw # <<>> PROVE Moves(next, raw[1], Consume(next, raw[1]).mapper)
    <3>1. raw[1] \in Messages
      BY <2>1, RawFields
    <3> QED BY <1>2, <1>3, <3>1, ConsumeMoves
  <2>2. \E x : Moves(next, x, s.mapper)
    BY <1>5, <2>1 DEF Discrepancy
  <2> QED BY <1>2, <2>2 DEF Moves
<1>7. /\ drawn # m.expected \/ as = "LOSS" => \E detail : s = Discrepancy(next, detail)
      /\ drawn = m.expected /\ as # "LOSS" /\ raw # <<>> => s = Consume(next, raw[1])
  OBVIOUS
<1>8. a.mapper \in Mapper /\ Coherent(a.mapper) /\ Settles(m, a.mapper)
  <2>1. Outcome(m, a)
    BY EnvelopeOutcome
  <2> QED BY <2>1 DEF Outcome, Progress
<1> HIDE DEF s, e, a
<1>9. /\ a.record # Raised =>
            /\ m.cut = "open" /\ s.kind # "RAISED"
            /\ Registers(s.mapper, a.mapper)
            /\ a.mapper.expected = drawn + 1 /\ a.mapper.echo = s.mapper.echo
            /\ a.mapper.cut = "open"
      /\ a.record = Raised =>
            /\ Registers(m, a.mapper)
            /\ a.mapper.expected = m.expected /\ a.mapper.cut = m.cut
  <2>1. s.mapper \in Mapper
    BY <1>6
  <2>2. Leads(m, s.mapper, a) /\ (a.record # Raised => s.kind # "RAISED")
    BY <1>4, <2>1, AtomicRegisters DEF e
  <2> QED BY <1>6, <2>2 DEF Leads
<1>10. CASE a.record = Raised
  <2>1. Chronicle(a.mapper, drawn + 1, missed2, w)
    BY <1>9, <1>10, RaisedChronicle
  <2> QED BY <1>10, <2>1 DEF Logged, a, e
<1>11. CASE a.record # Raised /\ (drawn # m.expected \/ as = "LOSS")
  <2>1. seen = <<Gone>>
    BY <1>11
  <2>2. PICK detail : s = Discrepancy(next, detail)
    BY <1>7, <1>11
  <2>3. a.mapper.expected <= drawn + 1 /\ a.mapper.cut # "clean" /\ m.cut = "open"
    BY <1>9, <1>11
  <2>4. Registers(Discrepancy(next, detail).mapper, a.mapper)
    BY <1>9, <1>11, <2>2
  <2>5. Chronicle(a.mapper, drawn + 1, missed2, IF Disturbed(m) THEN w ELSE w \o <<Gone>>)
    BY <1>2, <1>8, <2>3, <2>4, GoneChronicle
  <2> QED BY <1>11, <2>1, <2>5 DEF Logged, a, e
<1>12. CASE a.record # Raised /\ Disturbed(m)
  <2>1. a.mapper.expected <= drawn + 1 /\ a.mapper.cut # "clean" /\ m.cut = "open"
    BY <1>9, <1>12
  <2>2. Chronicle(a.mapper, drawn + 1, missed2, w)
    BY <1>8, <1>12, <2>1, DisturbedChronicle
  <2> QED BY <1>12, <2>2 DEF Logged, a, e
<1>13. CASE a.record # Raised /\ drawn = m.expected /\ as # "LOSS" /\ ~Disturbed(m)
  <2>1. raw # <<>> /\ seen = raw
    BY <1>13
  <2>2. raw[1] \in Messages /\ raw = <<raw[1]>>
    BY <2>1, RawFields
  <2>3. s = Consume(next, raw[1])
    BY <1>7, <1>13, <2>1
  <2>4. /\ w \in Seq(Messages) /\ Legal(w) /\ Len(w) = m.expected
        /\ Tells(m, w) /\ EchoTold(m.echo, w)
    BY <1>13 DEF Chronicle
  <2>5. Tells(next, w) /\ EchoTold(next.echo, w)
    BY <1>2, <2>4, RegistersTell
  <2>6. Consume(next, raw[1]).kind # "RAISED"
    BY <1>9, <1>13, <2>3
  <2>7. Follows(next, s.mapper, w, raw[1])
    BY <1>2, <2>2, <2>3, <2>4, <2>5, <2>6, ConsumeFollows
  <2>8. w \o seen = Append(w, raw[1])
    <3>1. PICK x : x = raw[1] /\ seen = <<x>>
      BY <2>1, <2>2
    <3>2. w \o <<x>> = Append(w, x)
      BY <2>2, <3>1
    <3> QED BY <3>1, <3>2
  <2>9. /\ m.cut = "open" /\ Registers(s.mapper, a.mapper)
        /\ a.mapper.expected = drawn + 1 /\ a.mapper.echo = s.mapper.echo
        /\ a.mapper.cut = "open"
    BY <1>9, <1>13
  <2>10. CASE LegalAt(Append(w, raw[1]), Here(w))
    <3>1. Tells(s.mapper, Append(w, raw[1])) /\ EchoTold(s.mapper.echo, Append(w, raw[1]))
      BY <2>7, <2>10 DEF Follows
    <3>2. Tells(a.mapper, Append(w, raw[1])) /\ EchoTold(a.mapper.echo, Append(w, raw[1]))
      <4>1. Registers(s.mapper, a.mapper) /\ a.mapper.echo = s.mapper.echo
        BY <2>9
      <4>2. Tells(a.mapper, Append(w, raw[1]))
        BY <3>1, <4>1, RegistersTell
      <4> QED BY <3>1, <4>1, <4>2
    <3>3. Here(w) = drawn + 1
      BY <1>13, <2>4 DEF Here
    <3>4. Chronicle(a.mapper, drawn + 1, missed2, Append(w, raw[1]))
      BY <2>2, <2>4, <2>9, <2>10, <3>2, <3>3, LegalChronicle
    <3> QED BY <1>13, <2>8, <3>4 DEF Logged, a, e
  <2>11. CASE ~LegalAt(Append(w, raw[1]), Here(w))
    <3>1. Disrupts(next, s.mapper)
      BY <2>7, <2>11 DEF Follows
    <3>2. Disrupts(m, a.mapper)
      BY <1>2, <2>9, <3>1, RegistersTell
    <3>3. raw[1] \in Seen /\ a.mapper.expected <= drawn + 1
      BY <2>2, <2>9 DEF Seen
    <3>4. Chronicle(a.mapper, drawn + 1, missed2, Append(w, raw[1]))
      BY <1>13, <2>9, <2>11, <3>2, <3>3, IllegalChronicle
    <3> QED BY <1>13, <2>8, <3>4 DEF Logged, a, e
  <2> QED BY <2>10, <2>11
<1> QED BY <1>10, <1>11, <1>12, <1>13 DEF a, e

(* The runner marks a loss.                                                *)
LEMMA LossChronicle ==
    ASSUME NEW m \in Mapper, Coherent(m), NEW drawn \in Nat, NEW missed, NEW w \in Seq(Seen),
           Chronicle(m, drawn, missed, w)
    PROVE  LET a == MarkLoss(m)
           IN  Chronicle(a.mapper, drawn, missed, Logged(m, a.record, w, <<Gone>>))
<1> DEFINE s == Discrepancy(m, "operator")
           a == MarkLoss(m)
<1>1. \A x : Moves(m, x, Disturb(m)) /\ Disturb(m).echo = m.echo
  BY Disturbs
<1>2. s.mapper = Disturb(m)
  BY DEF Discrepancy
<1>3. s.mapper \in Mapper /\ s.mapper.expected = m.expected /\ s.mapper.cut = m.cut
        /\ s.mapper.echo = m.echo
  BY <1>1, <1>2 DEF Moves
<1>4. a = Atomic(m, s, Envelope(0, None, <<>>), NoCut)
  BY DEF MarkLoss
<1>5. Outcome(m, a)
  BY LossOutcome
<1> HIDE DEF s, a
<1>6. a.mapper \in Mapper /\ Coherent(a.mapper) /\ Settles(m, a.mapper)
  BY <1>5 DEF Outcome, Progress
<1>7. Leads(m, s.mapper, a)
  BY <1>3, <1>4, RawFields, AtomicRegisters
<1>8. m.expected <= drawn
  BY DEF Chronicle
<1>9. CASE a.record = Raised
  <2>1. /\ Registers(m, a.mapper) /\ a.mapper.expected = m.expected
        /\ a.mapper.cut = m.cut /\ a.mapper.echo = m.echo
    BY <1>3, <1>7, <1>9 DEF Leads
  <2>2. Chronicle(a.mapper, drawn, missed, w)
    BY <2>1, RaisedChronicle
  <2> QED BY <1>9, <2>2 DEF Logged, a
<1>10. CASE a.record # Raised
  <2>1. /\ m.cut = "open" /\ Registers(s.mapper, a.mapper)
        /\ a.mapper.expected = m.expected /\ a.mapper.cut = "open"
    BY <1>3, <1>7, <1>10 DEF Leads
  <2>2. Registers(m, m)
    BY DEF Registers
  <2>3. Registers(Discrepancy(m, "operator").mapper, a.mapper)
    BY <2>1 DEF s
  <2>4. Chronicle(a.mapper, drawn, missed, IF Disturbed(m) THEN w ELSE w \o <<Gone>>)
    BY <1>6, <1>8, <2>1, <2>2, <2>3, GoneChronicle
  <2> QED BY <1>10, <2>4 DEF Logged, a
<1> QED BY <1>9, <1>10

(* The cut: clean, or the last disturbance.                                *)
LEMMA CutChronicle ==
    ASSUME NEW m \in Mapper, Coherent(m), NEW drawn \in Nat, NEW missed, NEW w \in Seq(Seen),
           Chronicle(m, drawn, missed, w),
           NEW c, c.loss = missed, c.high = drawn
    PROVE  LET a == ConsumeCut(m, c)
           IN  Chronicle(a.mapper, drawn, missed, Logged(m, a.record, w, <<>>))
<1> DEFINE new == IF Clean(m, c) THEN [m EXCEPT !.cut = "clean"]
                  ELSE [Disturb(m) EXCEPT !.cut = "unclean"]
           s == Step(new, "ACQUISITION_CUT")
           a == ConsumeCut(m, c)
           clean == [m EXCEPT !.cut = "clean"]
           unclean == [Disturb(m) EXCEPT !.cut = "unclean"]
<1>1. Disturb(m) \in Mapper /\ Disturb(m).echo = m.echo /\ Disturb(m).expected = m.expected
  BY Disturbs DEF Moves
<1>2. /\ clean \in Mapper /\ Registers(m, clean) /\ clean.echo = m.echo
      /\ clean.expected = m.expected /\ clean.cut = "clean"
  BY DEF Mapper, Registers
<1>3. /\ unclean \in Mapper /\ Registers(Disturb(m), unclean) /\ unclean.echo = m.echo
      /\ unclean.expected = m.expected /\ unclean.cut = "unclean"
  <2> DEFINE d == Disturb(m)
  <2> HIDE DEF d
  <2>1. d \in Mapper => /\ [d EXCEPT !.cut = "unclean"] \in Mapper
                        /\ Registers(d, [d EXCEPT !.cut = "unclean"])
                        /\ [d EXCEPT !.cut = "unclean"].echo = d.echo
                        /\ [d EXCEPT !.cut = "unclean"].expected = d.expected
                        /\ [d EXCEPT !.cut = "unclean"].cut = "unclean"
    BY DEF Mapper, Registers
  <2> QED BY <1>1, <2>1 DEF d
<1>4. a = Atomic(m, s, Envelope(0, None, <<>>), c)
  BY DEF ConsumeCut
<1>5. s.mapper = IF Clean(m, c) THEN clean ELSE unclean
  BY DEF Step
<1>6. Outcome(m, a)
  BY CutOutcome
<1>7. w \o <<>> = w
  OBVIOUS
<1> HIDE DEF s, a, clean, unclean
<1>8. a.mapper \in Mapper /\ Coherent(a.mapper) /\ Settles(m, a.mapper)
  BY <1>6 DEF Outcome, Progress
<1>9. s.mapper \in Mapper
  BY <1>2, <1>3, <1>5
<1>10. Leads(m, s.mapper, a)
  BY <1>4, <1>9, RawFields, AtomicRegisters
<1>11. m.expected <= drawn
  BY DEF Chronicle
<1>12. CASE a.record = Raised
  <2>1. /\ Registers(m, a.mapper) /\ a.mapper.expected = m.expected
        /\ a.mapper.cut = m.cut /\ a.mapper.echo = m.echo
    BY <1>2, <1>3, <1>5, <1>10, <1>12 DEF Leads
  <2>2. Chronicle(a.mapper, drawn, missed, w)
    BY <2>1, RaisedChronicle
  <2> QED BY <1>12, <2>2 DEF Logged, a
<1>13. CASE a.record # Raised /\ Clean(m, c)
  <2>1. /\ m.cut = "open" /\ Registers(clean, a.mapper) /\ a.mapper.echo = m.echo
        /\ a.mapper.expected = m.expected /\ a.mapper.cut = "clean"
    BY <1>2, <1>5, <1>10, <1>13 DEF Leads
  <2>2. Registers(m, a.mapper)
    BY <1>2, <2>1 DEF Registers
  <2>3. /\ ~missed /\ drawn = m.expected /\ m.clients = {}
        /\ m.mechanism \in {"PROVIDER_COMPLETED", "PARKED_NOT_ADMITTED"}
    BY <1>13 DEF Clean
  <2>4. ~Disturbed(m)
    BY <2>3 DEF Disturbed
  <2>5. a.mapper.clients = m.clients /\ a.mapper.mechanism = m.mechanism
    BY <2>2 DEF Registers
  <2>6. ~Disturbed(a.mapper) /\ Proved(a.mapper, w) /\ (Tells(m, w) => Tells(a.mapper, w))
    BY <2>2, <2>4, RegistersTell DEF Chronicle
  <2>7. Chronicle(a.mapper, drawn, missed, w)
    BY <2>1, <2>3, <2>4, <2>5, <2>6 DEF Chronicle
  <2> QED BY <1>7, <1>13, <2>7 DEF Logged, a
<1>14. CASE a.record # Raised /\ ~Clean(m, c)
  <2>1. /\ m.cut = "open" /\ Registers(unclean, a.mapper)
        /\ a.mapper.expected = m.expected /\ a.mapper.cut = "unclean"
    BY <1>3, <1>5, <1>10, <1>14 DEF Leads
  <2>2. CASE Disturbed(m)
    <3>1. Chronicle(a.mapper, drawn, missed, w)
      BY <1>8, <1>11, <2>1, <2>2, DisturbedChronicle
    <3> QED BY <1>7, <1>14, <3>1 DEF Logged, a
  <2>3. CASE ~Disturbed(m)
    <3>1. Disrupts(m, Disturb(m))
      BY <2>3, DiscrepancyDisrupts DEF Chronicle, Tells
    <3>2. Disrupts(m, unclean)
      BY <1>3, <3>1, RegistersTell
    <3>3. Disrupts(m, a.mapper)
      BY <2>1, <3>2, RegistersTell
    <3>4. Proved(a.mapper, w)
      BY <3>3 DEF Chronicle, Proved, Disrupts, Admitted
    <3>5. Chronicle(a.mapper, drawn, missed, w)
      BY <1>11, <2>1, <3>3, <3>4 DEF Chronicle, Disrupts
    <3> QED BY <1>7, <1>14, <3>5 DEF Logged, a
  <2> QED BY <2>2, <2>3
<1> QED BY <1>12, <1>13, <1>14

----------------------------------------------------------------------------
(* The acquisition.                                                        *)

(* Before anything is consumed the registers say so.                       *)
LEMMA HistoryInvInit ==
    ASSUME Init
    PROVE  HistoryInv
<1> DEFINE w == <<>>
<1>1. mapper = NewMapper /\ position = 0 /\ lost = FALSE /\ log = w
  BY DEF Init
<1>2. w \in Seq(Messages) /\ w \in Seq(Seen) /\ Len(w) = 0 /\ DOMAIN w = {}
  OBVIOUS
<1>3. \A T, i : Of(w, T) = {} /\ Earlier(w, i, T) = {}
  BY <1>2 DEF Of, Earlier
<1> HIDE DEF w
<1>4. Legal(w)
  BY <1>2 DEF Legal
<1>5. Pending(w) = {} /\ Opened(w) = {} /\ Unreplied(w) = {}
  BY <1>3 DEF Pending, Opened, Unreplied
<1>6. /\ NewMapper.pending = NoRequest /\ NewMapper.startedAt = 0 /\ NewMapper.open = None
      /\ NewMapper.clients = {} /\ NewMapper.completed = {} /\ NewMapper.responses = {}
      /\ NewMapper.last = 0 /\ NewMapper.disposition = "UNRESOLVED"
      /\ NewMapper.mechanism = "DISPATCHING" /\ NewMapper.identity = None
      /\ NewMapper.expected = 0 /\ NewMapper.cut = "open" /\ NewMapper.echo = NoEcho
  BY DEF NewMapper
<1>7. ~Admitted(NewMapper) /\ ~Disturbed(NewMapper)
  BY <1>6 DEF Admitted, Disturbed
<1>8. Tells(NewMapper, w)
  <2>1. RequestsTold(NewMapper, w)
    BY <1>3, <1>5, <1>6 DEF RequestsTold
  <2>2. ResponsesTold(NewMapper, w)
    BY <1>3, <1>5, <1>6 DEF ResponsesTold
  <2>3. PhaseTold(NewMapper, w)
    BY <1>3, <1>6, <1>7 DEF PhaseTold
  <2>4. ClientsTold(NewMapper, w)
    BY <1>5, <1>6 DEF ClientsTold
  <2> QED BY <2>1, <2>2, <2>3, <2>4 DEF Tells
<1>9. EchoTold(NoEcho, w)
  <2>1. \A type, i : EarlierEcho(w, i, type) = {} /\ Starts(w, i) = {} /\ OutputAt(w, i) = {}
    BY <1>3 DEF EarlierEcho, Starts, OutputAt
  <2>2. /\ ~NoEcho.input /\ NoEcho.item = None /\ ~NoEcho.done /\ NoEcho.agent = None
        /\ NoEcho.completed = {} /\ NoEcho.bytes = 0 /\ NoEcho.last = <<None, None>>
    BY DEF NoEcho
  <2>3. Bytes(w, {}) = 0
    <3> DEFINE f == [j \in {} |-> w[j].bytes]
    <3>1. IsFiniteSet({}) /\ \A j \in {} : f[j] \in Nat
      BY FS_EmptySet
    <3>2. SumFunctionOnSet(f, {}) = 0
      BY <3>1, SumStep
    <3> QED BY <3>2 DEF Bytes
  <2>4. InputTold(NoEcho, w)
    BY <2>1, <2>2 DEF InputTold
  <2>5. OutputTold(NoEcho, w)
    BY <1>3, <2>1, <2>2, <2>3 DEF OutputTold
  <2> QED BY <2>4, <2>5 DEF EchoTold
<1>10. Proved(NewMapper, w)
  BY <1>2, <1>4, <1>8, LegalProves DEF Tells
<1>11. Chronicle(NewMapper, 0, FALSE, w)
  BY <1>2, <1>4, <1>6, <1>7, <1>8, <1>9, <1>10 DEF Chronicle
<1> QED BY <1>1, <1>11 DEF HistoryInv

(* What an operation retains.                                              *)
LEMMA RetainChronicle ==
    ASSUME NEW o, NEW seen, Retain(o, seen), NEW drawn, NEW missed,
           Chronicle(o.mapper, drawn, missed, Logged(mapper, o.record, log, seen)),
           position' = drawn, lost' = missed
    PROVE  HistoryInv'
BY DEF Retain, Logged, HistoryInv

(* Every step keeps the chronicle.                                         *)
LEMMA HistoryInvStep ==
    ASSUME StateInv, HistoryInv, [Next]_vars
    PROVE  HistoryInv'
<1>1. mapper \in Mapper /\ Coherent(mapper) /\ position \in Nat /\ log \in Seq(Seen)
  BY BoundsAssumption DEF StateInv, TypeOK, Seen
<1>2. Chronicle(mapper, position, lost, log)
  BY DEF HistoryInv
<1>3. ASSUME NEW x \in Messages, Acquire(x)
      PROVE  HistoryInv'
  <2> DEFINE o == ConsumeEnvelope(mapper, Envelope(position, KindOf(x), <<x>>))
             seen == IF position = mapper.expected THEN <<x>> ELSE <<Gone>>
  <2>1. Retain(o, seen) /\ lost' = lost /\ position' = position + 1 /\ mapper.cut # "clean"
    BY <1>3 DEF Acquire, Draw
  <2>2. KindOf(x) \in Sources /\ KindOf(x) # "LOSS"
    BY KindFields DEF KindOf
  <2>3. <<x>> \in Raws /\ <<x>> # <<>>
    BY RawFields
  <2>4. \/ position = mapper.expected /\ KindOf(x) # "LOSS" /\ <<x>> # <<>> /\ seen = <<x>>
        \/ position # mapper.expected /\ seen = <<Gone>>
    BY <2>2, <2>3
  <2> HIDE DEF seen
  <2>5. Chronicle(o.mapper, position + 1, lost, Logged(mapper, o.record, log, seen))
    BY <1>1, <1>2, <2>1, <2>2, <2>3, <2>4, EnvelopeChronicle
  <2> HIDE DEF o
  <2> QED BY <2>1, <2>5, RetainChronicle
<1>4. ASSUME AcquireLoss
      PROVE  HistoryInv'
  <2> DEFINE o == ConsumeEnvelope(mapper, Envelope(position, "LOSS", <<>>))
  <2>1. /\ Retain(o, <<Gone>>) /\ lost' = TRUE /\ position' = position + 1
        /\ mapper.cut # "clean"
    BY <1>4 DEF AcquireLoss, Draw
  <2>2. "LOSS" \in Sources /\ <<>> \in Raws
    BY RawFields DEF Sources
  <2>3. Chronicle(o.mapper, position + 1, TRUE, Logged(mapper, o.record, log, <<Gone>>))
    BY <1>1, <1>2, <2>1, <2>2, EnvelopeChronicle
  <2> HIDE DEF o
  <2> QED BY <2>1, <2>3, RetainChronicle
<1>5. ASSUME MissFrame
      PROVE  HistoryInv'
  <2>1. /\ mapper.cut # "clean" /\ position' = position + 1
        /\ mapper' = mapper /\ log' = log
    BY <1>5 DEF MissFrame, Draw
  <2>2. Registers(mapper, mapper)
    BY DEF Registers
  <2>3. Chronicle(mapper, position + 1, lost', log)
    BY <1>1, <1>2, <2>1, <2>2, RaisedChronicle
  <2> QED BY <2>1, <2>3 DEF HistoryInv
<1>6. ASSUME OperationFails
      PROVE  HistoryInv'
  <2> DEFINE o == MarkLoss(mapper)
  <2>1. Retain(o, <<Gone>>) /\ position' = position /\ lost' = lost
    BY <1>6 DEF OperationFails
  <2>2. Chronicle(o.mapper, position, lost, Logged(mapper, o.record, log, <<Gone>>))
    BY <1>1, <1>2, LossChronicle
  <2> HIDE DEF o
  <2> QED BY <2>1, <2>2, RetainChronicle
<1>7. ASSUME TakeCut
      PROVE  HistoryInv'
  <2>1. /\ \E c : c.loss = lost /\ c.high = position /\ Retain(ConsumeCut(mapper, c), <<>>)
        /\ position' = position /\ lost' = lost
    BY <1>7 DEF TakeCut
  <2>2. PICK c : c.loss = lost /\ c.high = position /\ Retain(ConsumeCut(mapper, c), <<>>)
    BY <2>1
  <2> DEFINE o == ConsumeCut(mapper, c)
  <2>3. Chronicle(o.mapper, position, lost, Logged(mapper, o.record, log, <<>>))
    BY <1>1, <1>2, <2>2, CutChronicle
  <2> HIDE DEF o
  <2> QED BY <2>1, <2>2, <2>3, RetainChronicle DEF o
<1>8. CASE UNCHANGED vars
  BY <1>8 DEF vars, HistoryInv
<1> QED BY <1>3, <1>4, <1>5, <1>6, <1>7, <1>8 DEF Next

(* The inductive invariant of the history holds along every behaviour.     *)
THEOREM HistoryTold == Spec => [](StateInv /\ HistoryInv)
<1>1. Init => StateInv /\ HistoryInv
  BY StateInvInit, HistoryInvInit
<1>2. StateInv /\ HistoryInv /\ [Next]_vars => (StateInv /\ HistoryInv)'
  BY StateInvStep, HistoryInvStep
<1> QED BY <1>1, <1>2, PTL DEF Spec

(* Whatever the App Server sends, and however often the client refuses,    *)
(* misses or mislays a frame, the mapper counts a discrepancy until the    *)
(* cut exactly when the messages it consumed are not a legal history of    *)
(* one turn.                                                               *)
THEOREM DiscrepanciesAreExact == Spec => []DiscrepancyIsExact
<1>1. HistoryInv => DiscrepancyIsExact
  BY DEF HistoryInv, Chronicle, DiscrepancyIsExact
<1> QED BY <1>1, HistoryTold, PTL

(* EXECUTION_ADMITTED is reported exactly when a response was created in   *)
(* the legal part of the history, and of the first one;                    *)
(* NOT_ADMITTED_MODEL_AT_CAPACITY only of a legal history that has a       *)
(* refusal and no response.                                                *)
THEOREM DispositionsAreProved == Spec => []DispositionIsProved
<1>1. ASSUME HistoryInv
      PROVE  DispositionIsProved
  <2>1. Chronicle(mapper, position, lost, log)
    BY <1>1 DEF HistoryInv
  <2>2. Proved(mapper, log)
    BY <2>1 DEF Chronicle
  <2>3. mapper.disposition = "NOT_ADMITTED_MODEL_AT_CAPACITY" =>
            Legal(log) /\ Of(log, {"refused"}) # {} /\ Of(log, {"created"}) = {}
    BY <2>1 DEF Chronicle, Tells, PhaseTold
  <2> QED BY <2>2, <2>3 DEF Proved, DispositionIsProved
<1> QED BY <1>1, HistoryTold, PTL

(* consume_cut judges a cut clean only of an acquisition that lost         *)
(* nothing, consumed every ordinal drawn, and whose history is legal and   *)
(* over, with every request of the client answered.                        *)
THEOREM CleanCutsAreComplete == Spec => []CleanCutIsComplete
<1>1. ASSUME StateInv, HistoryInv, mapper.cut = "clean"
      PROVE  CleanCutIsComplete
  <2> DEFINE n == Len(log)
  <2>1. Chronicle(mapper, position, lost, log) /\ mapper \in Mapper
    BY <1>1 DEF HistoryInv, StateInv, TypeOK
  <2>2. /\ ~lost /\ position = mapper.expected /\ mapper.clients = {}
        /\ mapper.mechanism \in {"PROVIDER_COMPLETED", "PARKED_NOT_ADMITTED"}
        /\ log \in Seq(Messages) /\ Legal(log) /\ n = mapper.expected /\ Tells(mapper, log)
    BY <1>1, <2>1 DEF Chronicle
  <2>3. log \in Seq(Seen) /\ n + 1 = Here(log)
    BY <2>2, HistoryFields DEF Here
  <2>4. Quiet(log, n + 1)
    <3>1. CASE mapper.mechanism = "PROVIDER_COMPLETED"
      BY <2>2, <2>3, <3>1, QuietTold DEF Tells, PhaseTold
    <3>2. CASE mapper.mechanism = "PARKED_NOT_ADMITTED"
      <4>1. Of(log, {"refused"}) # {} /\ Of(log, {"created"}) = {}
        BY <2>2, <3>2 DEF Tells, PhaseTold
      <4>2. mapper.pending = NoRequest
        BY <2>2, <4>1 DEF Tells, ResponsesTold
      <4>3. mapper.open = None
        BY <2>2, <4>1 DEF Tells, ResponsesTold, Opened
      <4> QED BY <2>2, <2>3, <4>2, <4>3, QuietTold
    <3> QED BY <2>2, <3>1, <3>2
  <2>5. \A j \in Of(log, {"client_request"}) : Replied(log, j, n + 1)
    <3>1. {Issued(log[j]) : j \in Unreplied(log)} = {}
      BY <2>2 DEF Tells, ClientsTold
    <3>2. Unreplied(log) = {}
      BY <3>1
    <3> QED BY <2>3, <3>2 DEF Unreplied
  <2>6. IF Of(log, {"refused"}) = {} THEN Of(log, Ends) # {} ELSE Of(log, {"created"}) = {}
    <3>1. Of(log, {"refused"}) = {} => Of(log, Ends) # {}
      BY <2>2 DEF Tells, PhaseTold
    <3>2. Of(log, {"refused"}) # {} => Of(log, {"created"}) = {}
      BY <2>2 DEF Tells, PhaseTold
    <3> QED BY <3>1, <3>2
  <2> QED BY <2>2, <2>4, <2>5, <2>6 DEF CleanCutIsComplete
<1>2. StateInv /\ HistoryInv => CleanCutIsComplete
  BY <1>1 DEF CleanCutIsComplete
<1> QED BY <1>2, HistoryTold, PTL

=============================================================================
