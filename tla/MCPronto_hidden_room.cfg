CONSTANTS
    j1 = j1  j2 = j2  j3 = j3  j4 = j4  j5 = j5
    Job = {j1, j2, j3, j4, j5}
    Request <- FullJobs
    Schedulers = {s1}
    Handlers = {h1}
    CLUSTER_WORKERS = 2
    MAX_RESOURCES = 2
    UINT_MOD = 32
    ULONG_MOD = 64
    NULL = NULL
    PostMayFail = FALSE
    DoneMayFail = FALSE
SPECIFICATION Spec
SYMMETRY SameJobs
PROPERTY WorkerWithRoomIsFound
CHECK_DEADLOCK FALSE
