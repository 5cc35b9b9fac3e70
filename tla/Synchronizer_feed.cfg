SPECIFICATION FairSpec
CONSTANTS
    color = color
    depth = depth
    helper = helper
    seeker = seeker
    user = user
    NoThread = NoThread
    Threads = {color, depth, helper, user}
    Adders0 = {color}
    Adders1 = {depth}
    Finalizers = {helper}
    Resetters = {}
    Subscribers = {user}
    Stamps = {1, 2, 5}
    Modulus = 32
    MaxCallbacks = 1
    MaxCalls = 1
INVARIANTS SnapshotCurrent ClosestPublished QueuesFresh
PROPERTIES PairsInOrder CallsReturn
CHECK_DEADLOCK FALSE
