SPECIFICATION Spec
CONSTANTS
    Users = {owner, u1, u2}
    Owner = owner
    Background = Background
    NumMachines = 2
    CallbackStops = FALSE
    MaxEvents = 3
INVARIANTS
    DestructorStops
CHECK_DEADLOCK FALSE
