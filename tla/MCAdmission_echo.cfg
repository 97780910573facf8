\* A large echo of the user input under a foreign turn reaches the mapper.
CONSTANTS
    Name <- Names
    Contract = "BOUNDED_TURN_ECHO_V1"
    RawBound = 1
    MaxAgentBytes = 2
    Messages <- EchoMessages
    MaxRetained = 4
    MaxOrdinal = 4
SPECIFICATION Spec
INVARIANTS
    SnapshotReplays
