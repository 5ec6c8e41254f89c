SPECIFICATION Spec
CONSTANTS
    Capacity = 1
    Threads = {t1, t2}
    Policies <- MCPolicies
    Unbuildable = {"none"}
    RowToAttr <- MCRowToAttr
    Reconstructs <- MCReconstructs
    Before <- MCBefore
    Calls <- MCCalls
    MaxCalls = 3
    None = None
INVARIANTS
    TypeOK
    CachesWellFormed
    AnswersAreDirect
    StatsAreOneMoment
PROPERTIES
    InsertedIsKept
    EveryCallReturns
