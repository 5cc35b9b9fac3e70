SPECIFICATION Spec
CONSTANTS
    color = color
    depth = depth
    helper = helper
    seeker = seeker
    user = user
    NoThread = NoThread
    Threads = {color, depth, seeker, user}
    Adders0 = {color}
    Adders1 = {depth}
    Finalizers = {}
    Resetters = {seeker}
    Subscribers = {user}
    Stamps = {1, 2, 5}
    Modulus = 32
    MaxCallbacks = 1
    MaxCalls = 2
PROPERTIES ForgottenNotDelivered
CHECK_DEADLOCK FALSE
