SPECIFICATION Spec
CONSTANTS
    p1 = p1
    p2 = p2
    r1 = r1
    Procs <- MCProcs
    Names <- MCNames
    MaxInputs = 5
INVARIANT
    ReplyIsResult
CHECK_DEADLOCK FALSE
