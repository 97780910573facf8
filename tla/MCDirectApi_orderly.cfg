\* No crash and no failing transaction: what the documentation says of
\* endings holds, and every invocation ends although the child may be silent.
CONSTANTS
    Proc = {p1, p2}
    Requests <- MixedRequests
    Answers <- AllAnswers
    MicrosCap = 2000000000
    Faults = FALSE
SPECIFICATION FairSpec
INVARIANTS
    KnownOutcomeReleasesSlot
PROPERTIES
    EveryRunEnds
