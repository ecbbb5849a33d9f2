CONSTANTS
    Threads = {t1}
    Process = {files}
    Thread = {sss}
    Entries = 1
    NoThread = NoThread
    Gids = {1, 2, 3}
    Primary = 1
    MaxGids = 1
    Loaders = {t1}
    Libraries = {files, sss}
    Symbols <- TwoFunctions
    MaxOpens = 2
    None = None
SPECIFICATION NssSpec
INVARIANT NotFoundNeverAnError
