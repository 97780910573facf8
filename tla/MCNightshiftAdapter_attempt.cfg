SPECIFICATION Spec
CONSTANTS
    Starters = {s1}
    Keepers = {k1, k2}
    NoId = NoId
    Alien = Alien
    MaxDeliveries = 1
INVARIANTS
    TypeOK
    ReceiptIsTheAnswer
    FinalizationSettlesLoss
PROPERTIES
    OneThreadPerAttempt
    SettledStays
    SealsOnCleanCut
    ImplementsAttemptCustody
SYMMETRY KeeperSymmetry
CHECK_DEADLOCK FALSE
