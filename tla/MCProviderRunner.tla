-------------------------- MODULE MCProviderRunner --------------------------
(***************************************************************************)
(* Small instances of ProviderRunner: invocations that run one dispatch,   *)
(* reuse it with another brief, or close it with one of two closures; and  *)
(* invocations of which some name a second dispatch or a broken request.   *)
(***************************************************************************)
EXTENDS ProviderRunner, TLC

Original == [dispatch |-> "d1", body |-> "brief", valid |-> TRUE]

(* The same dispatch with another brief.                                   *)
Reuse == [Original EXCEPT !.body = "other"]

(* A request whose digests or dispatch record do not hold together.        *)
Broken == [Original EXCEPT !.valid = FALSE]

Another == [Original EXCEPT !.dispatch = "d2"]

Give(command, input, closure) == [command |-> command, input |-> input, closure |-> closure]

AllInputs == {Original, Reuse, Broken, Another}

OneDispatchJobs ==
    {Give("run", Original, "c1"), Give("run", Reuse, "c1"),
     Give("close", Original, "c1"), Give("close_preflight", Original, "c2")}

RunJobs == {Give("run", Original, "c1")}

MixedJobs ==
    {Give("run", Original, "c1"), Give("run", Another, "c1"), Give("run", Broken, "c1"),
     Give("close", Broken, "c1"), Give("close", Original, "c1")}

Symmetry == Permutations(Proc)

============================================================================
