\* One turn: every order of three events, each heard, reported lost or lost
\* without a trace, before and after the loop of the runner has ended.
CONSTANTS
    Proc = {p1, p2}
    Inputs <- AllInputs
    Jobs <- RunJobs
    Attested = {"c1", "c2"}
    Events = {"ADMITTED", "REFUSED", "APPROVAL", "BREACH", "completed", "other"}
    MaxEvents = 3
    Faults = TRUE
SPECIFICATION Spec
SYMMETRY Symmetry
INVARIANTS
    KnownOutcomeIsTrue
