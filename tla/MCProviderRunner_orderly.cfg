\* No crash; a server may stay silent or busy for ever.
CONSTANTS
    Proc = {p1, p2}
    Inputs <- AllInputs
    Jobs <- MixedJobs
    Attested = {"c1", "c2"}
    Events = {"ADMITTED", "completed"}
    MaxEvents = 2
    Faults = FALSE
SPECIFICATION FairSpec
PROPERTIES
    EveryCommandEnds
