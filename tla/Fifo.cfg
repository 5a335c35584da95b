SPECIFICATION FairSpec
CONSTANTS
    Consumers = {c1, c2, c3}
    Messages = {m1, m2}
    NoMessage = NoMessage
    MaxLen = 3
INVARIANTS
    TypeOK
    NoLostWakeup
PROPERTIES
    ImplementsQueue
    ServesCallers
