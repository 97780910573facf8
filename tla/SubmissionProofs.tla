------------------------- MODULE SubmissionProofs -------------------------
(***************************************************************************)
(* Proofs about Submission, for any number of items, identities and        *)
(* campaigns and any depth of the interpreter's stack.                     *)
(***************************************************************************)
EXTENDS Submission, SequenceTheorems, TLAPS

----------------------------------------------------------------------------
(* The inductive invariant.                                                *)

TypeInv ==
    /\ items \in Seq(Item)
    /\ at \in 0..Len(items)
    /\ graph \in [DOMAIN graph -> SUBSET Id]
    /\ DOMAIN graph \subseteq Id
    /\ stack \in Seq(Visit)

(* The graph is that of the first items, none of which is repeated.        *)
Collected ==
    /\ DOMAIN graph = {items[i].id : i \in 1..at}
    /\ \A i \in 1..at : graph[items[i].id] = items[i].dependencies
    /\ \A i, j \in 1..at : i # j => /\ items[i].id # items[j].id
                                    /\ items[i].campaign # items[j].campaign

Closed == \A x \in DOMAIN graph : graph[x] \subseteq DOMAIN graph

(* The calls on the stack are a path through the graph, and what a call    *)
(* does not visit any more is visited or is the next call.                 *)
Path(calls) ==
    /\ \A i \in DOMAIN calls : /\ calls[i].item \in DOMAIN graph
                               /\ calls[i].left \subseteq graph[calls[i].item]
    /\ \A i, j \in DOMAIN calls : i # j => calls[i].item # calls[j].item
    /\ \A i \in DOMAIN calls :
          i < Len(calls) => calls[i + 1].item \in graph[calls[i].item]

Pending(calls, done) ==
    \A i \in DOMAIN calls :
        /\ calls[i].item \notin done
        /\ \A d \in graph[calls[i].item] \ calls[i].left :
              d \in done \/ (i < Len(calls) /\ d = calls[i + 1].item)

(* What is visited depends on what is visited only, and without a cycle.   *)
NoCycle(done) ==
    \A S \in SUBSET done : S # {} => \E x \in S : graph[x] \cap S = {}

Done(done) == /\ done \subseteq DOMAIN graph
              /\ \A x \in done : graph[x] \subseteq done
              /\ NoCycle(done)

Search == /\ at = Len(items)
          /\ Closed
          /\ Path(stack)
          /\ Pending(stack, visited)
          /\ Done(visited)

IInv == /\ TypeInv
        /\ Collected
        /\ verdict = "reading" => stack = <<>> /\ visited = {}
        /\ verdict = "visiting" => Search
        /\ VerdictIsRight

----------------------------------------------------------------------------
(* Lemmas.                                                                 *)

(* An item whose dependencies have all been visited may be visited last.   *)
LEMMA VisitedLast ==
    ASSUME NEW x \in DOMAIN graph, Done(visited), x \notin visited,
           graph[x] \subseteq visited
    PROVE  Done(visited \cup {x})
<1>1. visited \cup {x} \subseteq DOMAIN graph
  BY DEF Done
<1>2. \A y \in visited \cup {x} : graph[y] \subseteq visited \cup {x}
  BY DEF Done
<1>3. ASSUME NEW S \in SUBSET (visited \cup {x}), S # {}
      PROVE  \E y \in S : graph[y] \cap S = {}
  <2>1. CASE S \ {x} = {}
    BY <2>1, <1>3
  <2>2. CASE S \ {x} # {}
    <3>1. PICK y \in S \ {x} : graph[y] \cap (S \ {x}) = {}
      BY <2>2 DEF Done, NoCycle
    <3>2. graph[y] \subseteq visited
      BY <3>1 DEF Done
    <3> QED BY <3>1, <3>2
  <2> QED BY <2>1, <2>2
<1> QED BY <1>1, <1>2, <1>3 DEF Done, NoCycle

(* Going on to the next dependency changes only what is left to visit.     *)
LEMMA GoesOn ==
    ASSUME TypeInv, stack # <<>>, NEW d
    PROVE  /\ Without(d) \in Seq(Visit)
           /\ Len(Without(d)) = Len(stack)
           /\ \A i \in 1..Len(stack) :
                 /\ Without(d)[i].item = stack[i].item
                 /\ i # Len(stack) => Without(d)[i] = stack[i]
           /\ Without(d)[Len(stack)].left = Top.left \ {d}
<1>1. Len(stack) \in 1..Len(stack)
  BY EmptySeq DEF TypeInv
<1>2. \A i \in 1..Len(stack) : stack[i] \in Visit
  BY DEF TypeInv
<1>3. Without(d) \in [1..Len(stack) -> Visit]
  BY <1>1, <1>2 DEF Without, TypeInv, Visit
<1> QED BY <1>1, <1>2, <1>3 DEF Without, Top, TypeInv, Visit

(* The items are numbered like the sequence they are listed in.            *)
LEMMA Listed ==
    ASSUME TypeInv, Collected, at = Len(items)
    PROVE  /\ DOMAIN items = 1..at
           /\ \A i \in DOMAIN items : items[i].id \in DOMAIN graph
           /\ \A x \in DOMAIN graph : \E i \in DOMAIN items : items[i].id = x
           /\ \A i \in DOMAIN items : graph[items[i].id] = items[i].dependencies
<1>1. DOMAIN items = 1..at
  BY DEF TypeInv
<1> QED BY <1>1 DEF Collected

(* A packet all of whose items have been visited is in order.              *)
LEMMA AcceptedIsValid ==
    ASSUME TypeInv, Collected, Search, DOMAIN graph \subseteq visited
    PROVE  Distinct /\ Known /\ Orderly
<1> USE Listed
<1>0. at = Len(items) /\ Closed /\ Done(visited)
  BY DEF Search
<1>1. Distinct
  BY <1>0 DEF Distinct, Collected
<1>2. Known
  <2> SUFFICES ASSUME NEW i \in DOMAIN items, NEW d \in items[i].dependencies
               PROVE  \E j \in DOMAIN items : items[j].id = d
    BY DEF Known
  <2>1. d \in graph[items[i].id] /\ items[i].id \in DOMAIN graph
    BY <1>0
  <2>2. d \in DOMAIN graph
    BY <1>0, <2>1 DEF Closed
  <2> QED BY <1>0, <2>2
<1>3. Orderly
  <2> SUFFICES ASSUME NEW group \in SUBSET DOMAIN items, group # {}
               PROVE  \E i \in group : \A j \in group :
                         items[j].id \notin items[i].dependencies
    BY DEF Orderly
  <2> DEFINE S == {items[i].id : i \in group}
  <2>1. S \subseteq visited /\ S # {}
    BY <1>0
  <2>2. PICK x \in S : graph[x] \cap S = {}
    BY <1>0, <2>1 DEF Done, NoCycle
  <2>3. PICK i \in group : items[i].id = x
    BY <2>2
  <2>4. items[i].dependencies \cap S = {}
    BY <1>0, <2>2, <2>3
  <2> QED BY <2>4
<1> QED BY <1>1, <1>2, <1>3

(* A call under way that is called again closes a cycle: no item from that *)
(* call on can be done before the others.                                  *)
LEMMA CallAgain ==
    ASSUME TypeInv, Collected, Search, stack # <<>>,
           NEW d \in Top.left, d \in Visiting
    PROVE  ~Orderly
<1> USE Listed
<1>0. at = Len(items) /\ Path(stack)
  BY DEF Search
<1>1. Len(stack) \in 1..Len(stack) /\ DOMAIN stack = 1..Len(stack)
  BY EmptySeq DEF TypeInv
<1>2. PICK k \in 1..Len(stack) : d = stack[k].item
  BY <1>1 DEF Visiting
<1> DEFINE on(i) == \E m \in k..Len(stack) : items[i].id = stack[m].item
           group == {i \in DOMAIN items : on(i)}
<1>3. \A m \in 1..Len(stack) : \E i \in DOMAIN items : items[i].id = stack[m].item
  BY <1>0, <1>1 DEF Path
<1>4. group # {}
  BY <1>1, <1>2, <1>3
<1>5. ASSUME NEW i \in group
      PROVE  \E j \in group : items[j].id \in items[i].dependencies
  <2>1. PICK m \in k..Len(stack) : items[i].id = stack[m].item
    BY <1>5
  <2>2. m \in 1..Len(stack) /\ items[i].dependencies = graph[stack[m].item]
    BY <1>0, <2>1
  <2>3. CASE m = Len(stack)
    <3>1. d \in items[i].dependencies
      BY <1>0, <1>1, <2>2, <2>3 DEF Path, Top
    <3>2. PICK j \in DOMAIN items : items[j].id = stack[k].item
      BY <1>2, <1>3
    <3>3. j \in group
      BY <3>2, <1>1, <1>2
    <3> QED BY <3>1, <3>2, <3>3, <1>2
  <2>4. CASE m # Len(stack)
    <3>1. m + 1 \in k..Len(stack) /\ m + 1 \in 1..Len(stack) /\ m < Len(stack)
      BY <1>1, <2>2, <2>4
    <3>2. stack[m + 1].item \in items[i].dependencies
      BY <1>0, <1>1, <2>2, <3>1 DEF Path
    <3>3. PICK j \in DOMAIN items : items[j].id = stack[m + 1].item
      BY <1>3, <3>1
    <3>4. j \in group
      BY <3>1, <3>3
    <3> QED BY <3>2, <3>3, <3>4
  <2> QED BY <2>3, <2>4
<1>6. group \in (SUBSET DOMAIN items) \ {{}}
  BY <1>4
<1> QED BY <1>5, <1>6 DEF Orderly

(* A call that is nested extends the path.                                 *)
LEMMA Nested ==
    ASSUME NEW calls \in Seq(Visit), Path(calls), TypeInv,
           NEW x \in DOMAIN graph, x \notin visited,
           \A i \in DOMAIN calls : calls[i].item # x,
           calls # <<>> => x \in graph[calls[Len(calls)].item],
           \A i \in DOMAIN calls :
              /\ calls[i].item \notin visited
              /\ \A d \in graph[calls[i].item] \ calls[i].left :
                    \/ d \in visited
                    \/ i < Len(calls) /\ d = calls[i + 1].item
                    \/ i = Len(calls) /\ d = x,
           NEW next, next = Append(calls, [item |-> x, left |-> graph[x]])
    PROVE  next \in Seq(Visit) /\ Path(next) /\ Pending(next, visited)
<1> DEFINE call == [item |-> x, left |-> graph[x]]
<1>0. call \in Visit
  BY DEF TypeInv, Visit, Path
<1>1. /\ next \in Seq(Visit) /\ Len(next) = Len(calls) + 1 /\ Len(calls) \in Nat
      /\ DOMAIN next = 1..(Len(calls) + 1) /\ DOMAIN calls = 1..Len(calls)
      /\ \A i \in 1..Len(calls) : next[i] = calls[i]
      /\ next[Len(calls) + 1] = call
  BY <1>0, AppendProperties
<1>2. Path(next)
  <2>1. \A i \in DOMAIN next : /\ next[i].item \in DOMAIN graph
                               /\ next[i].left \subseteq graph[next[i].item]
    BY <1>1 DEF Path
  <2>2. \A i, j \in DOMAIN next : i # j => next[i].item # next[j].item
    BY <1>1 DEF Path
  <2>3. ASSUME NEW i \in DOMAIN next, i < Len(next)
        PROVE  next[i + 1].item \in graph[next[i].item]
    <3>1. CASE i = Len(calls)
      BY <1>1, <2>3, <3>1, EmptySeq
    <3>2. CASE i # Len(calls)
      BY <1>1, <2>3, <3>2 DEF Path
    <3> QED BY <3>1, <3>2
  <2> QED BY <2>1, <2>2, <2>3 DEF Path
<1>3. Pending(next, visited)
  <2> SUFFICES ASSUME NEW i \in DOMAIN next
               PROVE  /\ next[i].item \notin visited
                      /\ \A d \in graph[next[i].item] \ next[i].left :
                            d \in visited \/ (i < Len(next) /\ d = next[i + 1].item)
    BY DEF Pending
  <2>1. CASE i = Len(calls) + 1
    BY <1>1, <2>1
  <2>2. CASE i = Len(calls)
    BY <1>1, <2>2
  <2>3. CASE i \in 1..Len(calls) /\ i # Len(calls)
    BY <1>1, <2>3
  <2> QED BY <1>1, <2>1, <2>2, <2>3
<1> QED BY <1>1, <1>2, <1>3

----------------------------------------------------------------------------
(* The invariant is inductive.                                             *)

LEMMA Initially == Init => IInv
<1> SUFFICES ASSUME Init PROVE IInv
  OBVIOUS
<1>1. PICK n \in 1..MaxItems : items \in [1..n -> Item]
  BY DEF Init
<1>2. items \in Seq(Item) /\ Len(items) = n
  BY <1>1, BoundsAssumption
<1>3. TypeInv
  BY <1>2, BoundsAssumption DEF Init, TypeInv
<1>4. Collected
  BY DEF Init, Collected
<1> QED BY <1>3, <1>4 DEF Init, IInv, VerdictIsRight

LEMMA CollectKeeps == IInv /\ Collect => IInv'
<1> SUFFICES ASSUME IInv, Collect PROVE IInv'
  OBVIOUS
<1> DEFINE item == items[at + 1]
<1>0. /\ TypeInv /\ Collected /\ verdict = "reading" /\ stack = <<>> /\ visited = {}
      /\ items' = items /\ stack' = stack /\ visited' = visited
      /\ at + 1 \in 1..Len(items) /\ item \in Item
  BY DEF IInv, Collect, TypeInv
<1>1. CASE Repeated(item) /\ Conclude("refused") /\ UNCHANGED <<at, graph>>
  <2>1. PICK i \in 1..at : items[i].id = item.id \/ items[i].campaign = item.campaign
    BY <1>0, <1>1 DEF Repeated, Collected
  <2>2. i \in DOMAIN items /\ at + 1 \in DOMAIN items /\ i # at + 1
    BY <1>0 DEF TypeInv
  <2>3. ~Distinct'
    BY <1>0, <2>1, <2>2 DEF Distinct
  <2>4. at' = at /\ graph' = graph
    BY <1>1
  <2>5. TypeInv'
    BY <1>0, <2>4 DEF TypeInv
  <2>6. Collected'
    BY <1>0, <2>4 DEF Collected
  <2> QED BY <1>1, <2>3, <2>5, <2>6 DEF Conclude, IInv, VerdictIsRight
<1>2. CASE /\ ~Repeated(item)
           /\ at' = at + 1
           /\ graph' = [x \in DOMAIN graph \cup {item.id} |->
                          IF x = item.id THEN item.dependencies ELSE graph[x]]
           /\ UNCHANGED verdict
  <2>1. TypeInv'
    BY <1>0, <1>2 DEF TypeInv, Item
  <2>2. 1..at' = (1..at) \cup {at + 1} /\ at + 1 \notin 1..at
    BY <1>0, <1>2 DEF TypeInv
  <2>3. \A i \in 1..at : items[i].id # item.id /\ items[i].campaign # item.campaign
    BY <1>0, <1>2 DEF Repeated, Collected
  <2>4. Collected'
    <3>1. DOMAIN graph' = {items'[i].id : i \in 1..at'}
      BY <1>0, <1>2, <2>2 DEF Collected
    <3>2. \A i \in 1..at' : graph'[items'[i].id] = items'[i].dependencies
      BY <1>0, <1>2, <2>2, <2>3 DEF Collected
    <3>3. \A i, j \in 1..at' : i # j => /\ items'[i].id # items'[j].id
                                        /\ items'[i].campaign # items'[j].campaign
      BY <1>0, <2>2, <2>3 DEF Collected
    <3> QED BY <3>1, <3>2, <3>3 DEF Collected
  <2> QED BY <1>0, <1>2, <2>1, <2>4 DEF IInv, VerdictIsRight
<1> QED BY <1>1, <1>2 DEF Collect

LEMMA LookUpKeeps == IInv /\ LookUp => IInv'
<1> SUFFICES ASSUME IInv, LookUp PROVE IInv'
  OBVIOUS
<1>0. /\ TypeInv /\ Collected /\ at = Len(items) /\ stack = <<>> /\ visited = {}
      /\ items' = items /\ at' = at /\ graph' = graph
      /\ stack' = stack /\ visited' = visited
  BY DEF IInv, LookUp
<1>1. TypeInv' /\ Collected'
  BY <1>0 DEF TypeInv, Collected
<1>2. CASE Closed
  <2>1. verdict' = "visiting"
    BY <1>2 DEF LookUp, Conclude, Closed
  <2>2. Search'
    BY <1>0, <1>2 DEF Search, Closed, Path, Pending, Done, NoCycle
  <2> QED BY <1>1, <2>1, <2>2 DEF IInv, VerdictIsRight
<1>3. CASE ~Closed
  <2>1. verdict' = "refused"
    BY <1>3 DEF LookUp, Conclude, Closed
  <2>2. PICK x \in DOMAIN graph : ~(graph[x] \subseteq DOMAIN graph)
    BY <1>3 DEF Closed
  <2>3. PICK d \in graph[x] : d \notin DOMAIN graph
    BY <2>2
  <2>4. ~Known'
    <3>1. PICK i \in DOMAIN items : items[i].id = x
      BY <1>0, Listed
    <3>2. d \in items[i].dependencies
      BY <1>0, <2>3, <3>1, Listed
    <3>3. \A j \in DOMAIN items : items[j].id # d
      BY <1>0, <2>3, Listed
    <3> QED BY <1>0, <3>2, <3>3 DEF Known
  <2> QED BY <1>1, <2>1, <2>4 DEF IInv, VerdictIsRight
<1> QED BY <1>2, <1>3

(* What says what the graph is does not depend on the search.              *)
LEMMA GraphKept ==
    ASSUME TypeInv, Collected, items' = items, at' = at, graph' = graph,
           stack' \in Seq(Visit)
    PROVE  TypeInv' /\ Collected'
<1>1. items' \in Seq(Item) /\ at' \in 0..Len(items')
  BY DEF TypeInv
<1>2. graph' \in [DOMAIN graph' -> SUBSET Id] /\ DOMAIN graph' \subseteq Id
  BY DEF TypeInv
<1>3. TypeInv'
  BY <1>1, <1>2 DEF TypeInv
<1>4. Collected'
  BY DEF Collected
<1> QED BY <1>3, <1>4

(* While items are visited, only the stack and what is visited change.     *)
LEMMA SearchGoesOn ==
    ASSUME IInv, verdict = "visiting", items' = items, at' = at, graph' = graph,
           stack' \in Seq(Visit), Path(stack)', Pending(stack, visited)',
           Done(visited)', verdict' = "visiting"
    PROVE  IInv'
<1>1. TypeInv /\ Collected /\ Search
  BY DEF IInv
<1>2. TypeInv' /\ Collected'
  BY <1>1, GraphKept
<1>3. Search'
  <2>1. at' = Len(items') /\ Closed'
    BY <1>1 DEF Search, Closed
  <2> QED BY <2>1 DEF Search
<1> QED BY <1>2, <1>3 DEF IInv, VerdictIsRight

(* An overflow decides nothing.                                            *)
LEMMA OverflowKeeps ==
    ASSUME IInv, verdict' = "overflowed", items' = items, at' = at, graph' = graph,
           stack' = stack
    PROVE  IInv'
<1>1. TypeInv' /\ Collected'
  <2>1. TypeInv /\ Collected /\ stack' \in Seq(Visit)
    BY DEF IInv, TypeInv
  <2> QED BY <2>1, GraphKept
<1> QED BY <1>1 DEF IInv, VerdictIsRight

LEMMA VisitItemKeeps == IInv /\ VisitItem => IInv'
<1> SUFFICES ASSUME IInv, VisitItem PROVE IInv'
  OBVIOUS
<1>0. /\ TypeInv /\ Search /\ verdict = "visiting" /\ stack = <<>>
      /\ items' = items /\ at' = at /\ graph' = graph /\ visited' = visited
  BY DEF IInv, VisitItem
<1>1. PICK x \in DOMAIN graph \ visited : Enter(x, stack)
  BY DEF VisitItem
<1>2. Visiting = {}
  BY <1>0 DEF Visiting
<1>3. CASE /\ stack' = Append(stack, [item |-> x, left |-> graph[x]])
           /\ UNCHANGED verdict
  <2>1. stack \in Seq(Visit) /\ Path(stack)
    BY <1>0 DEF TypeInv, Search
  <2>2. DOMAIN stack = {}
    BY <1>0
  <2>3. stack' \in Seq(Visit) /\ Path(stack') /\ Pending(stack', visited)
    BY <1>0, <1>3, <2>1, <2>2, Nested
  <2>4. Path(stack)' /\ Pending(stack, visited)' /\ Done(visited)'
    BY <1>0, <2>3 DEF Path, Pending, Done, NoCycle, Search
  <2> QED BY <1>0, <1>3, <2>3, <2>4, SearchGoesOn
<1>4. CASE Conclude("overflowed") /\ UNCHANGED stack
  BY <1>0, <1>4, OverflowKeeps DEF Conclude
<1> QED BY <1>1, <1>2, <1>3, <1>4 DEF Enter

LEMMA VisitDependencyKeeps == IInv /\ VisitDependency => IInv'
<1> SUFFICES ASSUME IInv, VisitDependency PROVE IInv'
  OBVIOUS
<1>0. /\ TypeInv /\ Collected /\ Search /\ verdict = "visiting" /\ stack # <<>>
      /\ items' = items /\ at' = at /\ graph' = graph /\ visited' = visited
      /\ Path(stack) /\ Pending(stack, visited) /\ Done(visited) /\ Closed
  BY DEF IInv, VisitDependency, Search
<1>1. PICK d \in Top.left : Enter(d, Without(d))
  BY DEF VisitDependency
<1> DEFINE calls == Without(d)
<1>2. /\ calls \in Seq(Visit) /\ Len(calls) = Len(stack)
      /\ Len(stack) \in 1..Len(stack)
      /\ DOMAIN calls = 1..Len(stack) /\ DOMAIN stack = 1..Len(stack)
      /\ \A i \in 1..Len(stack) : /\ calls[i].item = stack[i].item
                                  /\ i # Len(stack) => calls[i] = stack[i]
      /\ calls[Len(stack)].left = stack[Len(stack)].left \ {d}
  BY <1>0, GoesOn, EmptySeq DEF TypeInv, Top
<1>2a. Enter(d, calls)
  BY <1>1
<1>2b. Len(stack) \in Nat
  BY <1>0 DEF TypeInv
<1> HIDE DEF calls
<1>3. d \in graph[stack[Len(stack)].item] /\ d \in DOMAIN graph
  BY <1>0, <1>2 DEF Path, Top, Closed
<1>4. Path(calls)
  <2>1. \A i \in DOMAIN calls : /\ calls[i].item \in DOMAIN graph
                                /\ calls[i].left \subseteq graph[calls[i].item]
    BY <1>0, <1>2 DEF Path
  <2>2. \A i, j \in DOMAIN calls : i # j => calls[i].item # calls[j].item
    BY <1>0, <1>2 DEF Path
  <2>3. \A i \in DOMAIN calls :
           i < Len(calls) => calls[i + 1].item \in graph[calls[i].item]
    <3> SUFFICES ASSUME NEW i \in 1..Len(stack), i < Len(calls)
                 PROVE  calls[i + 1].item \in graph[calls[i].item]
      BY <1>2
    <3>1. i + 1 \in 1..Len(stack) /\ i < Len(stack)
      BY <1>2
    <3>2. calls[i + 1].item = stack[i + 1].item /\ calls[i].item = stack[i].item
      BY <1>2, <3>1
    <3>3. stack[i + 1].item \in graph[stack[i].item]
      BY <1>0, <1>2, <3>1 DEF Path
    <3> QED BY <3>2, <3>3
  <2> QED BY <2>1, <2>2, <2>3 DEF Path
<1>5. \A i \in DOMAIN calls :
         /\ calls[i].item \notin visited
         /\ \A e \in graph[calls[i].item] \ calls[i].left :
               \/ e \in visited
               \/ i < Len(calls) /\ e = calls[i + 1].item
               \/ i = Len(calls) /\ e = d
  <2> SUFFICES ASSUME NEW i \in DOMAIN calls,
                      NEW e \in graph[calls[i].item] \ calls[i].left,
                      ~(i = Len(calls) /\ e = d)
               PROVE  e \in visited \/ (i < Len(calls) /\ e = calls[i + 1].item)
    BY <1>0, <1>2 DEF Pending
  <2>1. i \in 1..Len(stack) /\ calls[i].item = stack[i].item
    BY <1>2
  <2>2. CASE i = Len(stack)
    <3>1. e \in graph[stack[i].item] \ stack[i].left
      BY <1>2, <2>1, <2>2
    <3>2. ~(i < Len(stack))
      BY <1>2b, <2>2
    <3>3. i \in DOMAIN stack
      BY <1>2, <2>1
    <3> QED BY <1>0, <3>1, <3>2, <3>3 DEF Pending
  <2>3. CASE i # Len(stack)
    <3>1. i + 1 \in 1..Len(stack) /\ i < Len(stack)
      BY <1>2b, <2>1, <2>3
    <3>2. calls[i] = stack[i] /\ calls[i + 1].item = stack[i + 1].item
      BY <1>2, <2>1, <2>3, <3>1
    <3>3. e \in visited \/ e = stack[i + 1].item
      BY <1>0, <1>2, <2>1, <3>1, <3>2 DEF Pending
    <3> QED BY <1>2, <3>1, <3>2, <3>3
  <2> QED BY <2>2, <2>3
<1>6. CASE d \in visited /\ stack' = calls /\ UNCHANGED verdict
  <2>1. Pending(calls, visited)
    BY <1>2, <1>5, <1>6 DEF Pending
  <2>2. Path(stack)' /\ Pending(stack, visited)' /\ Done(visited)'
    BY <1>0, <1>4, <1>6, <2>1 DEF Path, Pending, Done, NoCycle
  <2> QED BY <1>0, <1>2, <1>6, <2>2, SearchGoesOn
<1>7. CASE d \in Visiting /\ Conclude("refused") /\ UNCHANGED stack
  <2>1. ~Orderly
    BY <1>0, <1>7, CallAgain
  <2>2. ~Orderly'
    BY <1>0, <2>1 DEF Orderly
  <2>3. TypeInv' /\ Collected'
    BY <1>0, <1>7, GraphKept DEF TypeInv
  <2> QED BY <1>7, <2>2, <2>3 DEF Conclude, IInv, VerdictIsRight
<1>8. CASE /\ d \notin visited \cup Visiting
           /\ stack' = Append(calls, [item |-> d, left |-> graph[d]])
           /\ UNCHANGED verdict
  <2>1. \A i \in DOMAIN calls : calls[i].item # d
    BY <1>2, <1>8 DEF Visiting
  <2>2. stack' \in Seq(Visit) /\ Path(stack') /\ Pending(stack', visited)
    BY <1>0, <1>2, <1>3, <1>4, <1>5, <1>8, <2>1, Nested
  <2>3. Path(stack)' /\ Pending(stack, visited)' /\ Done(visited)'
    BY <1>0, <2>2 DEF Path, Pending, Done, NoCycle
  <2> QED BY <1>0, <1>8, <2>2, <2>3, SearchGoesOn
<1>9. CASE Conclude("overflowed") /\ UNCHANGED stack
  BY <1>0, <1>9, OverflowKeeps DEF Conclude
<1> QED BY <1>2a, <1>6, <1>7, <1>8, <1>9 DEF Enter

LEMMA ReturnKeeps == IInv /\ Return => IInv'
<1> SUFFICES ASSUME IInv, Return PROVE IInv'
  OBVIOUS
<1> DEFINE n == Len(stack)
           x == Top.item
<1>0. /\ TypeInv /\ Search /\ verdict = "visiting" /\ stack # <<>> /\ Top.left = {}
      /\ items' = items /\ at' = at /\ graph' = graph /\ verdict' = verdict
      /\ visited' = visited \cup {x} /\ stack' = SubSeq(stack, 1, n - 1)
      /\ Path(stack) /\ Pending(stack, visited) /\ Done(visited)
  BY DEF IInv, Return, Search
<1>1. n \in Nat \ {0} /\ DOMAIN stack = 1..n /\ stack[n] = Top
  BY <1>0, EmptySeq DEF TypeInv, Top
<1>2. /\ stack' \in Seq(Visit) /\ Len(stack') = n - 1 /\ DOMAIN stack' = 1..(n - 1)
      /\ \A i \in 1..(n - 1) : stack'[i] = stack[i]
  BY <1>0, <1>1 DEF TypeInv
<1>3. Done(visited \cup {x})
  <2>1. x \in DOMAIN graph /\ x \notin visited
    BY <1>0, <1>1 DEF Path, Pending
  <2>2. graph[x] \subseteq visited
    BY <1>0, <1>1 DEF Pending
  <2> QED BY <1>0, <2>1, <2>2, VisitedLast
<1>4. Path(stack')
  BY <1>0, <1>1, <1>2 DEF Path
<1>5. Pending(stack', visited \cup {x})
  <2>1. \A i \in 1..(n - 1) : stack[i].item # x
    BY <1>0, <1>1 DEF Path
  <2>2. ASSUME NEW i \in 1..(n - 1), NEW d \in graph[stack[i].item] \ stack[i].left
        PROVE  d \in visited \cup {x} \/ (i < n - 1 /\ d = stack[i + 1].item)
    BY <1>0, <1>1, <2>2 DEF Pending
  <2>3. \A i \in 1..(n - 1) : stack[i].item \notin visited
    BY <1>0, <1>1 DEF Pending
  <2>4. \A i \in 1..(n - 1) : i < n - 1 => stack'[i + 1] = stack[i + 1]
    BY <1>1, <1>2
  <2> QED BY <1>1, <1>2, <2>1, <2>2, <2>3, <2>4 DEF Pending
<1>6. Path(stack)' /\ Pending(stack, visited)' /\ Done(visited)'
  BY <1>0, <1>3, <1>4, <1>5 DEF Path, Pending, Done, NoCycle
<1> QED BY <1>0, <1>2, <1>6, SearchGoesOn

LEMMA AcceptKeeps == IInv /\ Accept => IInv'
<1> SUFFICES ASSUME IInv, Accept PROVE IInv'
  OBVIOUS
<1>0. /\ TypeInv /\ Collected /\ Search /\ DOMAIN graph \subseteq visited
      /\ items' = items /\ at' = at /\ graph' = graph /\ visited' = visited
      /\ stack' = stack /\ verdict' = "accepted"
  BY DEF IInv, Accept, Conclude
<1>1. Distinct' /\ Known' /\ Orderly'
  BY <1>0, AcceptedIsValid DEF Distinct, Known, Orderly
<1>2. TypeInv' /\ Collected'
  BY <1>0, GraphKept DEF TypeInv
<1> QED BY <1>0, <1>1, <1>2 DEF IInv, VerdictIsRight

LEMMA Inductive == IInv /\ [Next]_vars => IInv'
<1> SUFFICES ASSUME IInv, [Next]_vars PROVE IInv'
  OBVIOUS
<1>1. CASE UNCHANGED vars
  <2>1. /\ items' = items /\ at' = at /\ graph' = graph /\ visited' = visited
        /\ stack' = stack /\ verdict' = verdict
    BY <1>1 DEF vars
  <2>2. TypeInv' /\ Collected'
    BY <2>1, GraphKept DEF IInv, TypeInv
  <2>3. Search => Search'
    BY <2>1 DEF Search, Closed, Path, Pending, Done, NoCycle
  <2>4. VerdictIsRight'
    BY <2>1 DEF IInv, VerdictIsRight, Distinct, Known, Orderly
  <2> QED BY <2>1, <2>2, <2>3, <2>4 DEF IInv
<1> QED BY <1>1, CollectKeeps, LookUpKeeps, VisitItemKeeps, VisitDependencyKeeps,
           ReturnKeeps, AcceptKeeps DEF Next

----------------------------------------------------------------------------

(* Whatever packet passes the schema, its work items are accepted only     *)
(* when they are distinct, their dependencies known and free of cycles,    *)
(* and refused only when they are not.                                     *)
THEOREM SearchIsRight == Spec => []VerdictIsRight
<1>1. IInv => VerdictIsRight
  BY DEF IInv
<1> QED BY Initially, Inductive, <1>1, PTL DEF Spec
=============================================================================
