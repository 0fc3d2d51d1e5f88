SPECIFICATION FairSpec
CONSTANTS
    MaxMsgs = 3
    Malformed = {1}
    Relay = {w1, w2}
    Consumer = {c1, c2}
    Partition = {p1}
    PartOf <- OnePartition
    BatchSize = 2
    MaxAttempts = 2
    NoOffset = NoOffset
    MaxFaults = 1
INVARIANTS
    TypeOK
    SentIsLogged
    CommittedIsProcessed
    DuplicatesNeedFaults
    AttemptsBounded
CHECK_DEADLOCK FALSE
PROPERTIES
    EveryEventHandled
    ImplementsDelivery
