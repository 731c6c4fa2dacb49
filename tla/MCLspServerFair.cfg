\* Two pool threads under fair scheduling: a document goes through three texts.
CONSTANTS
    a = a  b = b  r1 = r1  r2 = r2  w1 = w1  w2 = w2
    Files <- OneFile
    OnDisk <- None
    MaxText = 3
    Unloadable <- FirstTextOfA
    Requests <- OneRequest
    Workers <- TwoWorkers
    Stops = TRUE
    MaxSent = 3
SPECIFICATION FairSpec
INVARIANTS LateOnce
PROPERTIES Settles
CHECK_DEADLOCK FALSE
