-------------------------- MODULE DispatchCustody --------------------------
(***************************************************************************)
(* What both execution bridges of Switchyard promise about one dispatch    *)
(* occurrence, whatever they do inside: the dispatch is claimed at most    *)
(* once, the provider is contacted at most once and only under a claim, a  *)
(* dispatch closed before launch is never contacted, and once the runtime  *)
(* records a known outcome nothing about that dispatch happens any more.   *)
(*                                                                         *)
(* DirectApi (direct_api.py) and ProviderRunner (provider_runner.py)       *)
(* implement this specification under a refinement mapping.                *)
(***************************************************************************)
EXTENDS Naturals

CONSTANT Dispatch       \* dispatch occurrence identities

VARIABLES
    custody,            \* what the durable store says of each dispatch
    contacts            \* times the provider was contacted for a dispatch

vars == <<custody, contacts>>

(* CLAIMED covers a run in progress and a run whose outcome stays unknown. *)
Custody == {"ABSENT", "CLAIMED", "CLOSED", "UNCONTACTED", "ANSWERED"}

TypeOK == /\ custody \in [Dispatch -> Custody]
          /\ contacts \in [Dispatch -> Nat]

Init == /\ custody = [d \in Dispatch |-> "ABSENT"]
        /\ contacts = [d \in Dispatch |-> 0]

Claim(d) ==
    /\ custody[d] = "ABSENT"
    /\ custody' = [custody EXCEPT ![d] = "CLAIMED"]
    /\ UNCHANGED contacts

CloseWithoutContact(d) ==
    /\ custody[d] = "ABSENT"
    /\ custody' = [custody EXCEPT ![d] = "CLOSED"]
    /\ UNCHANGED contacts

Contact(d) ==
    /\ custody[d] = "CLAIMED"
    /\ contacts[d] = 0
    /\ contacts' = [contacts EXCEPT ![d] = 1]
    /\ UNCHANGED custody

SettleUncontacted(d) ==
    /\ custody[d] = "CLAIMED"
    /\ contacts[d] = 0
    /\ custody' = [custody EXCEPT ![d] = "UNCONTACTED"]
    /\ UNCHANGED contacts

SettleAnswered(d) ==
    /\ custody[d] = "CLAIMED"
    /\ contacts[d] = 1
    /\ custody' = [custody EXCEPT ![d] = "ANSWERED"]
    /\ UNCHANGED contacts

Next == \E d \in Dispatch :
            \/ Claim(d)
            \/ CloseWithoutContact(d)
            \/ Contact(d)
            \/ SettleUncontacted(d)
            \/ SettleAnswered(d)

Spec == Init /\ [][Next]_vars

----------------------------------------------------------------------------
(* The receipt a reader may rely on: no dispatch is contacted twice, and   *)
(* what the store says about contact agrees with what happened.            *)
CustodyTruthful ==
    \A d \in Dispatch :
        /\ contacts[d] <= 1
        /\ custody[d] \in {"ABSENT", "CLOSED", "UNCONTACTED"} => contacts[d] = 0
        /\ custody[d] = "ANSWERED" => contacts[d] = 1

============================================================================
