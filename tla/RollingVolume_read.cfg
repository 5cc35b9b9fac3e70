SPECIFICATION Spec
CONSTANTS
    N = 3
    Offsets <- Steps
    Views <- Walls
    Reach = 2
    MaxShifts = 2
INVARIANTS ReadBack
