CONSTANTS
    j1 = j1  j2 = j2  j3 = j3  j4 = j4  j5 = j5
    Job = {j1, j2, j3, j4, j5}
    Request <- Odd
    Schedulers = {s1, s2}
    Handlers = {h1}
    CLUSTER_WORKERS = 2
    MAX_RESOURCES = 2
    UINT_MOD = 32
    ULONG_MOD = 64
    NULL = NULL
    PostMayFail = TRUE
    DoneMayFail = TRUE
SPECIFICATION Spec
SYMMETRY ThreadsAndJobs
INVARIANTS TypeOK TokensMatchJobs JobInOnePlace Bookkeeping AcceptedFits
PROPERTIES PickIsLeastBusy PassIsComplete ImplementsLifecycle
CHECK_DEADLOCK FALSE
