CONSTANTS
    Threads = {t1, t2}
    Envs = {e1}
    Keys = {}
    Values = {}
    Names = {n1}
    Called = {"write", "open", "create"}
    Nested = {"open"}
    MaxDepth = 2
    NoThread = NoThread
    NoValue = NoValue
    NoName = NoName
SPECIFICATION FairSpec
CHECK_DEADLOCK FALSE
PROPERTIES
    NestedReturns
