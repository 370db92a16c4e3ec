\* Two facts, two instances, batches of two, two failures to a dead letter.
SPECIFICATION FairSpec
CONSTANTS
    Fact = {1, 2}
    Instance = {i1, i2}
    BatchSize = 2
    MaxAttempts = 2
    MaxFaults = 2
INVARIANTS
    TypeOK
    WorkIsExclusive
    DeliveredOnce
    DeadLetterEarned
    OneOutcome
PROPERTIES
    
    ImplementsFactDelivery
CHECK_DEADLOCK FALSE
