CONSTANTS
    Threads = {t1, t2, t3}
    Envs = {e1}
    Keys = {}
    Values = {}
    Names = {n1}
    Called = {"read", "write", "create"}
    Nested = {"read", "write"}
    MaxDepth = 2
    NoThread = NoThread
    NoValue = NoValue
    NoName = NoName
SPECIFICATION FairSpec
PROPERTIES
    WaitsEnd
