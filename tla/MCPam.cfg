CONSTANT MaxRounds = 2
SPECIFICATION AuthFairSpec
INVARIANTS
    HandedBackClean
    RoundsAreTheStacks
    LoginInOrder
    TransactionNotLost
    NothingLeftBehind
PROPERTIES
    ImplementsExchange
    CallsReturn
