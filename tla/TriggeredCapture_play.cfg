SPECIFICATION Spec
CONSTANTS
    Image = Image
    Depth = Depth
    Main = Main
    helper = helper
    Helpers = {helper}
    NoThread = NoThread
    Frames = 4
    Modes <- AllModes
    Rate = 2
    MaxMisses = 2
    MaxCalls = 3
INVARIANTS NoOtherDeadlock
PROPERTIES FramesInOrder EdgesProcessed EdgeFramesInTurn ScheduleFollowed
VIEW View
CHECK_DEADLOCK FALSE
