CONSTANTS
    Threads = {t1, t2}
    Paths = {p1, p2}
    Handles = {h1, h2, h3}
    Slots = {s1, s2, s3}
    Envs = {e1, e2}
    DbiLocks = {l1, l2, l3}
    Stalled = {p1}
    NoThread = NoThread
    NoSlot = NoSlot
    NoEnv = NoEnv
    NoPath = NoPath
    NoHandle = NoHandle
    NoLock = NoLock
SPECIFICATION LiveSpec
INVARIANTS
    OneEnvPerPath
    RefcntIsHandles
    SharedEnvAndDbiLock
    NoEnvLeaked
PROPERTIES
    ImplementsEnvSpec
    OthersGoOn
