SPECIFICATION FairSpec
CONSTANTS
    p1 = p1
    p2 = p2
    r1 = r1
    Procs <- MCProcs
    Names <- MCNames
    MaxInputs = 6
INVARIANTS
    TypeOK
    TablesAgree
    ListAgrees
    ChatModeAgrees
    RepliesFit
PROPERTIES
    RoomsSpec
    CommandsAnswered
CHECK_DEADLOCK FALSE
