CONSTANTS
    j1 = j1  j2 = j2  j3 = j3  j4 = j4  j5 = j5
    Job = {j1, j2, j3, j4}
    Request <- TwosAndOnes
    Schedulers = {s1}
    Handlers = {h1}
    CLUSTER_WORKERS = 1
    MAX_RESOURCES = 3
    UINT_MOD = 32
    ULONG_MOD = 64
    NULL = NULL
    PostMayFail = FALSE
    DoneMayFail = FALSE
SPECIFICATION FairSpec
INVARIANT OvercommitBounded
PROPERTIES HeadIsStable PassIsComplete JobIsDecided PlacedIsFreed WaitingIsServed
CHECK_DEADLOCK FALSE
