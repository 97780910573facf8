-------------------------- MODULE AttemptCustody --------------------------
(***************************************************************************)
(* What the Nightshift adapter promises about one attempt, whatever        *)
(* commands are given to it, in whatever order and however they end: it is *)
(* admitted once, its worker answers at most once, and it is settled at    *)
(* most once, either as lost or with a receipt that is the worker's own    *)
(* answer.  NightshiftAdapter implements this specification under a        *)
(* refinement mapping.                                                     *)
(***************************************************************************)

CONSTANTS
    Answers,            \* what a completed turn may leave as its final text
    Receivable,         \* the answers a receipt may be made of
    NoAnswer            \* no final text

VARIABLES
    phase,              \* absent, open, lost or sealed
    answer,             \* the answer of the attempt's turn once it is given
    receipt             \* the sealed receipt

vars == <<phase, answer, receipt>>

Init == /\ phase = "absent"
        /\ answer = <<>>
        /\ receipt = NoAnswer

Admit == /\ phase = "absent"
         /\ phase' = "open"
         /\ UNCHANGED <<answer, receipt>>

(* The worker answers; the adapter need not be there to see it.            *)
Answer(a) == /\ phase # "absent"
             /\ answer = <<>>
             /\ answer' = <<a>>
             /\ UNCHANGED <<phase, receipt>>

Lose == /\ phase = "open"
        /\ phase' = "lost"
        /\ UNCHANGED <<answer, receipt>>

Seal(a) == /\ phase = "open"
           /\ answer = <<a>>
           /\ phase' = "sealed"
           /\ receipt' = a
           /\ UNCHANGED answer

Next == \/ Admit
        \/ Lose
        \/ \E a \in Answers : Answer(a)
        \/ \E a \in Receivable : Seal(a)

Spec == Init /\ [][Next]_vars
=============================================================================
