SPECIFICATION FairSpec
CONSTANTS
    Playlists <- Lists
    MaxPublished = 8
    MaxRewinds = 2
INVARIANTS PlayedInOrder RewindHeeded
PROPERTIES DestructorReturns StreamPlaysAll
CHECK_DEADLOCK FALSE
