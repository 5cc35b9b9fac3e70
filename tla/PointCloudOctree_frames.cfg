SPECIFICATION Spec
VIEW View
CONSTANTS
    Branches = {1, 2, 3, 4, 5, 6, 7, 8, 9, 10, 11, 12, 13, 14, 15, 16}
    Leaves = {21, 22, 23, 24, 25, 26, 27, 28}
    Voxels = {0, 2, 3, 6}
    MaxPoints = 2
    Clouds <- SomeClouds
    Boxes <- SomeBoxes
    PresetDepths = {0, 1}
    IFrameRate = 2
    MaxInFlight = 1
    MaxLost = 2
INVARIANTS NodesOwned CloudInTree NewVoxelsReported DecodedAsEncoded
CHECK_DEADLOCK FALSE
