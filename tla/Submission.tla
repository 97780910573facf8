---------------------------- MODULE Submission ----------------------------
(***************************************************************************)
(* The work items of an orientation packet (submission_protocol.py): their *)
(* identities are collected, their dependencies looked up, and the graph   *)
(* of the dependencies is searched for a cycle by a recursive visit, here  *)
(* with its stack.  The packet has passed the schema: it is canonical and  *)
(* each of its fields is well formed.                                      *)
(***************************************************************************)
EXTENDS Naturals, Sequences, FiniteSets

CONSTANTS
    Id,                 \* what may be the identity of a work item
    Campaign,           \* what may be the identity of its campaign
    MaxItems,           \* bound on the number of work items
    SafeDepth           \* calls of visit that nest whoever calls from where

ASSUME BoundsAssumption == MaxItems \in Nat /\ SafeDepth \in Nat

VARIABLES
    items,              \* the work items of the packet
    at,                 \* how many of them have been collected
    graph,              \* the dependencies of those
    visited,            \* items whose visit has ended
    stack,              \* visits that have not, and what they still visit
    verdict             \* reading, visiting, or how the validation ended

vars == <<items, at, graph, visited, stack, verdict>>

Item == [id : Id, campaign : Campaign, dependencies : SUBSET Id]
Visit == [item : Id, left : SUBSET Id]

----------------------------------------------------------------------------

Conclude(outcome) == verdict' = outcome

(* Another item, or the same campaign, has been collected before.          *)
Repeated(item) == \/ item.id \in DOMAIN graph
                  \/ \E i \in 1..at : items[i].campaign = item.campaign

Collect ==
    /\ verdict = "reading"
    /\ at < Len(items)
    /\ LET item == items[at + 1] IN
       \/ Repeated(item) /\ Conclude("refused") /\ UNCHANGED <<at, graph>>
       \/ /\ ~Repeated(item)
          /\ at' = at + 1
          /\ graph' = [x \in DOMAIN graph \cup {item.id} |->
                         IF x = item.id THEN item.dependencies ELSE graph[x]]
          /\ UNCHANGED verdict
    /\ UNCHANGED <<items, visited, stack>>

(* Every dependency must be an item of the packet.                         *)
LookUp ==
    /\ verdict = "reading"
    /\ at = Len(items)
    /\ Conclude(IF \A x \in DOMAIN graph : graph[x] \subseteq DOMAIN graph
                  THEN "visiting" ELSE "refused")
    /\ UNCHANGED <<items, at, graph, visited, stack>>

Top == stack[Len(stack)]
Visiting == {stack[i].item : i \in DOMAIN stack}

(* The visit on top of the stack goes on to its next dependency.           *)
Without(d) == [stack EXCEPT ![Len(stack)].left = @ \ {d}]

(* Mutant: an item under visit is taken for one that has been visited.     *)
Mutant_Enter(x, calls) ==
    \/ /\ x \in visited \cup Visiting
       /\ stack' = calls
       /\ UNCHANGED verdict
    \/ /\ x \notin visited \cup Visiting
       /\ stack' = Append(calls, [item |-> x, left |-> graph[x]])
       /\ UNCHANGED verdict

(* The call visit(x): nothing for a visited item, a cycle for one under    *)
(* visit, and for any other a nested call, which may be one too many for   *)
(* the interpreter.                                                        *)
Enter(x, calls) ==
    \/ /\ x \in visited
       /\ stack' = calls
       /\ UNCHANGED verdict
    \/ /\ x \in Visiting \ visited
       /\ Conclude("refused")
       /\ UNCHANGED stack
    \/ /\ x \notin visited \cup Visiting
       /\ stack' = Append(calls, [item |-> x, left |-> graph[x]])
       /\ UNCHANGED verdict
    \/ /\ x \notin visited \cup Visiting
       /\ Len(stack) >= SafeDepth
       /\ Conclude("overflowed")
       /\ UNCHANGED stack

VisitItem ==
    /\ verdict = "visiting"
    /\ stack = <<>>
    /\ \E x \in DOMAIN graph \ visited : Enter(x, stack)
    /\ UNCHANGED <<items, at, graph, visited>>

VisitDependency ==
    /\ verdict = "visiting"
    /\ stack # <<>>
    /\ \E d \in Top.left : Enter(d, Without(d))
    /\ UNCHANGED <<items, at, graph, visited>>

Return ==
    /\ verdict = "visiting"
    /\ stack # <<>>
    /\ Top.left = {}
    /\ visited' = visited \cup {Top.item}
    /\ stack' = SubSeq(stack, 1, Len(stack) - 1)
    /\ UNCHANGED <<items, at, graph, verdict>>

Accept ==
    /\ verdict = "visiting"
    /\ stack = <<>>
    /\ DOMAIN graph \subseteq visited
    /\ Conclude("accepted")
    /\ UNCHANGED <<items, at, graph, visited, stack>>

----------------------------------------------------------------------------

Init ==
    /\ items \in UNION {[1..n -> Item] : n \in 1..MaxItems}
    /\ at = 0
    /\ graph = [x \in {} |-> {}]
    /\ visited = {}
    /\ stack = <<>>
    /\ verdict = "reading"

Next == Collect \/ LookUp \/ VisitItem \/ VisitDependency \/ Return \/ Accept

Spec == Init /\ [][Next]_vars

----------------------------------------------------------------------------
(* Properties.                                                             *)

Distinct == \A i, j \in DOMAIN items :
                i # j => /\ items[i].id # items[j].id
                         /\ items[i].campaign # items[j].campaign

Known == \A i \in DOMAIN items : \A d \in items[i].dependencies :
            \E j \in DOMAIN items : items[j].id = d

(* Of any group of items, one depends on none of the group: there is an    *)
(* order to do them in.                                                    *)
Orderly == \A group \in (SUBSET DOMAIN items) \ {{}} :
              \E i \in group : \A j \in group : items[j].id \notin items[i].dependencies

(* The search finds a cycle exactly when the work cannot be ordered,       *)
(* however the items are listed and whatever was visited on an earlier     *)
(* path: an accepted packet is free of repetitions, of unknown             *)
(* dependencies and of cycles, and one that is refused is not.             *)
VerdictIsRight ==
    /\ verdict = "accepted" => Distinct /\ Known /\ Orderly
    /\ verdict = "refused" => ~(Distinct /\ Known /\ Orderly)
=============================================================================
