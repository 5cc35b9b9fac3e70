SPECIFICATION Spec
CONSTANTS
    Modes = {"icp", "kintinuous", "slac", "kdtree"}
    Steps <- ToAndFro
    Given = {5}
    InitPose = 1
    Threshold = 1
    SlacNum = 2
    Places = {1, 3, 5}
    MaxFrames = 10
    MaxMissed = 1
INVARIANTS
    CubeFollows
    SnapshotConsistent
PROPERTIES
    NoJump
    SavedBeforeShift
    FragmentsOptimized
CHECK_DEADLOCK FALSE
