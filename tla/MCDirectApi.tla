---------------------------- MODULE MCDirectApi ----------------------------
(***************************************************************************)
(* Small instances of DirectApi.  The three dispatches of LedgerRequests   *)
(* share one scope with two slots, whose terms are pinned by the first     *)
(* claim: with those of Base the budget covers two of them, with those of  *)
(* Loose all three, so that the slots are the limit.  MixedRequests adds a *)
(* reused dispatch, a reservation below the token envelope, a request      *)
(* without ledger and one whose response format exceeds its prompt limit.  *)
(***************************************************************************)
EXTENDS DirectApi, TLC

Base == [dispatch |-> "d1", scope |-> "s1", schema |-> "v2", bound |-> TRUE,
         input |-> 88, format |-> 0, maxInput |-> 88,
         maxPrompt |-> 600, maxCompletion |-> 2, maxTotal |-> 602,
         promptPrice |-> 1, completionPrice |-> 3,
         reserved |-> 606, budget |-> 1300, maxConcurrent |-> 2]

On(d, r) == [r EXCEPT !.dispatch = d]

(* The same dispatch with other input: a reuse the store refuses.          *)
Reuse == [Base EXCEPT !.input = 87]

(* Other terms of the same scope: budget for three requests of 606.        *)
Loose == [Base EXCEPT !.budget = 1900]

(* A reservation below the token envelope.                                 *)
Underfunded == [On("d2", Base) EXCEPT !.reserved = 88]

(* A first-generation request: no ledger.                                  *)
Unenrolled == [On("d4", Base) EXCEPT !.schema = "v1", !.format = 0]

(* A structured-output request whose format does not fit the prompt limit. *)
FormatTooLarge == [On("d4", Base) EXCEPT !.schema = "v3", !.format = 1]

LedgerRequests == {On(d, r) : d \in {"d1", "d2", "d3"}, r \in {Base, Loose}}

MixedRequests == {Base, Reuse, Underfunded, Unenrolled, FormatTooLarge}

Used(p, c) == [observed |-> TRUE, prompt |-> p, completion |-> c, total |-> p + c]

Reply(status, body, usage) ==
    [kind |-> "RESPONSE", status |-> status, body |-> body, usage |-> usage,
     canonical |-> TRUE]

Completed == Reply(200, "TEXT", Used(600, 2))
OverUse == Reply(200, "TEXT", Used(600, 3))
NotCanonical == [Reply(200, "TEXT", Used(1, 1)) EXCEPT !.canonical = FALSE]
Lost == [Reply(0, "MALFORMED", Unobserved) EXCEPT !.kind = "FAILED"]

FewAnswers == {Completed, OverUse, Reply(402, "MALFORMED", Unobserved), Lost}

AllAnswers ==
    FewAnswers \cup {NotCanonical, Reply(200, "TEXT", Unobserved)}
      \cup {Reply(s, "MALFORMED", Unobserved) : s \in {401, 403, 429, 500, 503, 504, 200}}
      \cup {Reply(200, b, Unobserved) : b \in {"OTHER_MODEL", "NO_CHOICE", "NO_OUTPUT"}}
      \cup {[Lost EXCEPT !.kind = k] : k \in {"TIMEOUT", "OVER_BOUND"}}

Symmetry == Permutations(Proc)

============================================================================
