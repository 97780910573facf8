\* The final record and the release of the slot are two transactions.
CONSTANTS
    Proc = {p1, p2}
    Requests <- LedgerRequests
    Answers <- FewAnswers
    MicrosCap = 2000000000
    Faults = TRUE
SPECIFICATION Spec
SYMMETRY Symmetry
INVARIANTS
    KnownOutcomeReleasesSlot
