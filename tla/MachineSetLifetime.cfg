SPECIFICATION FairSpec
CONSTANTS
    Users = {owner, u1, u2}
    Owner = owner
    Background = Background
    NumMachines = 2
    CallbackStops = TRUE
    MaxEvents = 3
INVARIANTS
    TypeOK
    FreedIsQuiet
    OnlyCarelessDie
    StoppedIsEnded
PROPERTIES
    LastDropFrees
CHECK_DEADLOCK FALSE
