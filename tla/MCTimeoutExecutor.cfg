\* Three tasks on two threads; every status, crash point and notifier outcome.
CONSTANTS
    a = a
    b = b
    c = c
    Tasks = {a, b, c}
    Order <- ThreeTasks
    Capacity = 2
    Timeout = 1
    MaxTime = 2
    Statuses = {"Finished", "Failed", "Bug"}
    Outcomes = {"Ok", "Err"}
    Crashes = {"before", "after"}
    Stuck = {}
SPECIFICATION Spec
CHECK_DEADLOCK FALSE
INVARIANTS ThreadsAccounted EventsHonest WaitsInformed
PROPERTIES ImplementsTaskPool
