\* Crashes, failing updates, lost frames and interrupts; three commands on one
\* dispatch.
CONSTANTS
    Proc = {p1, p2, p3}
    Inputs <- AllInputs
    Jobs <- OneDispatchJobs
    Attested = {"c1", "c2"}
    Events = {"ADMITTED", "REFUSED", "completed"}
    MaxEvents = 1
    Faults = TRUE
SPECIFICATION Spec
SYMMETRY Symmetry
INVARIANTS
    TypeOK
    OneTurnPerDispatch
    TurnIsUnderRetainedThread
    AnswersAreRetained
PROPERTIES
    RowsNeverLostOrReopened
    ImplementsCustody
