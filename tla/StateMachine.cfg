SPECIFICATION Spec
CONSTANTS
    a = a
    b = b
    go = go
    States = {a, b}
    Owned = {a, b}
    NoState = NoState
    UserEvents = {go}
    TimeoutEvent = TimeoutEvent
    NoEvent = NoEvent
    Predicates <- EitherEvent
    TimeoutOf <- PeriodOfA
    UserPeriods = {3}
    MaxTransitions <- TwoAndOne
INVARIANTS
    TypeOK
    LoopStaysOnItsVector
    TimerBelongsToState
PROPERTIES
    FollowsTheTable
    ImplementsGraph
CHECK_DEADLOCK FALSE
