CONSTANTS
    Callers = {c1, c2}
    MaxCalls = 3
    ResultSize = 2
    MaxLen = 3
SPECIFICATION Spec
INVARIANTS ProcessUndisturbed HonestReply
CHECK_DEADLOCK FALSE
