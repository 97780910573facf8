\* Crashes, failed transactions and unstoppable children; two processes per
\* dispatch, every way an answer can be classified.
CONSTANTS
    Proc = {p1, p2, p3}
    Requests <- LedgerRequests
    Answers <- FewAnswers
    MicrosCap = 2000000000
    Faults = TRUE
SPECIFICATION Spec
SYMMETRY Symmetry
INVARIANTS
    TypeOK
    AtMostOneContact
    NotContactedIsTrue
    InFlightHoldsSlot
    ConcurrencyRespected
    SpendWithinBudget
    LedgerAgrees
PROPERTIES
    StoreNeverLosesOrReopens
    ImplementsCustody
