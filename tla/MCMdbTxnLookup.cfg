CONSTANTS
    Threads = {t1, t2, t3}
    Envs = {e1}
    Keys = {}
    Values = {}
    Names = {n1, n2}
    Called = {"write", "open", "create"}
    Nested = {}
    MaxDepth = 1
    NoThread = NoThread
    NoValue = NoValue
    NoName = NoName
SPECIFICATION LibrarySpec
PROPERTIES
    LookupNotBehindWriter
