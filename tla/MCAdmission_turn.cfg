\* One turn, every order of honest and dishonest messages and every loss, up to a
\* clean cut; the evidence bound is met before the end.
CONSTANTS
    Name <- Names
    Contract = "LEGACY_V1"
    RawBound = 1
    MaxAgentBytes = 2
    Messages <- AllMessages
    MaxRetained = 7
    MaxOrdinal = 7
SPECIFICATION Spec
INVARIANTS
    DiscrepancyIsExact
    DispositionIsProved
    CleanCutIsComplete
PROPERTIES
    DispositionIsSettled
