\* Notifications succeed and task a need never send: it must be reported as timed
\* out, and the run must end if it does send.
CONSTANTS
    a = a
    b = b
    c = c
    Tasks = {a, b, c}
    Order <- ThreeTasks
    Capacity = 2
    Timeout = 1
    MaxTime = 2
    Statuses = {"Finished", "Bug"}
    Outcomes = {"Ok"}
    Crashes = {"after"}
    Stuck = {a}
SPECIFICATION FairSpec
CHECK_DEADLOCK FALSE
PROPERTIES Terminates OverdueIsReported
