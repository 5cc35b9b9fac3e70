SPECIFICATION Spec
CONSTANTS
    Clients = {a, b}
    Keys = {k}
    MaxCalls = 2
INVARIANTS
    ShownInOrder
PROPERTIES
    RunExactlyOnce
    CallsReturn
CHECK_DEADLOCK FALSE
