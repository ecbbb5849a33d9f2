CONSTANTS
    Queries <- MCQueries
    Numbers = {1, 2, 3}
    attempts = 2
    Capacity = 1
    MaxChanges = 2
    NoQuery = NoQuery
    Sources = {a, b, c}
    MaxSources = 3
    MaxListChanges = 3
    Clients = {c1, c2}
    Names = {n1, n2, n3}
    Foreign = {x}
    Nobody = Nobody
SPECIFICATION FairChronySpec
INVARIANTS
    ReportsAreTrue
    ReplyDirKept
PROPERTIES
    OneWayListIsWhole
    CallsReturn
