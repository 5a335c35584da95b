SPECIFICATION FairSpec
CONSTANTS
    sm = sm
    am = am
    short = short
    long = long
    plain = plain
    past = past
    toAll = toAll
    StateMachines = {sm}
    ActionMachines = {am}
    States = {short, long, plain, past}
    TimeoutOf <- Timeouts
    NoState = NoState
    UserEvents = {toAll}
    Enqueued <- AllButRemovalOfAm
    MaxActions = 2
    Accepts <- Both
    NoAction = NoAction
    MaxLog = 3
INVARIANTS TypeOK EventsOnce DeadlinesAgree OneTimeoutEach
PROPERTIES AnswersAreStable ImplementsSet EveryEventIsProcessed
