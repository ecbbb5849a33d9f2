CONSTANTS
    Threads = {t1, t2}
    Process = {files}
    Thread = {sss}
    Entries = 2
    NoThread = NoThread
    Gids = {1, 2, 3}
    Primary = 1
    MaxGids = 2
    Loaders = {t1, t2}
    Libraries = {files, sss}
    Symbols <- TwoFunctions
    MaxOpens = 2
    None = None
SPECIFICATION FairNssSpec
INVARIANTS
    CursorExclusive
    ClaimsAreExact
    WalksAgree
    LoadsAgree
PROPERTIES
    CallsEnd
