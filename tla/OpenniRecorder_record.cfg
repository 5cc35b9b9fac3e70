SPECIFICATION FairSpec
CONSTANTS
    Capacities <- SmallCapacities
    MaxClouds = 4
CHECK_DEADLOCK FALSE
INVARIANTS RecordedInOrder
PROPERTIES RemainingWritten EndsOrWaits
