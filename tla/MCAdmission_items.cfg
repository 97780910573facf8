\* A turn with its input and its outputs under the bounded-turn-echo contract, in
\* every order and with every loss; the evidence bound is met before the end.
CONSTANTS
    Name <- Names
    Contract = "BOUNDED_TURN_ECHO_V1"
    RawBound = 1
    MaxAgentBytes = 2
    Messages <- ItemMessages
    MaxRetained = 6
    MaxOrdinal = 6
SPECIFICATION Spec
INVARIANTS
    TypeOK
    DiscrepancyIsExact
    SnapshotReplays
