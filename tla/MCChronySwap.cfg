CONSTANTS
    Queries <- OneQuery
    Numbers = {1, 2, 3}
    attempts = 2
    Capacity = 1
    MaxChanges = 0
    NoQuery = NoQuery
    Sources = {a, b, c}
    MaxSources = 3
    MaxListChanges = 3
    Clients = {c1}
    Names = {n1}
    Foreign = {x}
    Nobody = Nobody
SPECIFICATION ChronySpec
PROPERTY ReturnsTheList
