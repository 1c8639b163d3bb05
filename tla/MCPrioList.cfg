CONSTANTS
    n1 = n1  n2 = n2  n3 = n3  n4 = n4
    Job = {n1, n2, n3, n4}
    Request <- Requests
    Threads = {t1, t2, t3}
    NULL = NULL
SPECIFICATION Spec
INVARIANT ListShape
PROPERTY ImplementsAtomicQueue
