SPECIFICATION Spec
CONSTANTS
    Q = 17
    Generator = 5
    HalfWord = 128
    PlanCapacity = 1
    ImageCapacity = 1
    Threshold = 4
    Threads = {t1, t2}
    Calls <- MCCalls
    MaxCalls = 3
    None = None
INVARIANTS
    CachesExact
    ProductsExact
