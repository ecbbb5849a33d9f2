CONSTANTS
    Threads = {t1, t2}
    Envs = {e1, e2}
    Keys = {k1}
    Values = {v1, v2}
    Names = {n1}
    Called = {"read", "write", "put", "insert", "del", "clear", "open", "create"}
    Nested = {"write", "create"}
    MaxDepth = 2
    NoThread = NoThread
    NoValue = NoValue
    NoName = NoName
SPECIFICATION Spec
SYMMETRY Symmetry
CHECK_DEADLOCK FALSE
INVARIANTS
    ClaimsAreExact
    DbiOpenSerial
    DbsUsable
PROPERTIES
    InsertReplacesNothing
