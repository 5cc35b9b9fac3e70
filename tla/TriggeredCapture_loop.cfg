SPECIFICATION FairSpec
CONSTANTS
    Image = Image
    Depth = Depth
    Main = Main
    helper = helper
    Helpers = {helper}
    NoThread = NoThread
    Frames = 2
    Modes <- PlainModes
    Rate = 1
    MaxMisses = 2
    MaxCalls = 2
CHECK_DEADLOCK FALSE
PROPERTIES MainLoopEnds
