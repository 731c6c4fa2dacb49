\* Two pool threads: requests of every kind race with edits of two documents, of which
\* one has a first text that does not load.
CONSTANTS
    a = a  b = b  r1 = r1  r2 = r2  w1 = w1  w2 = w2
    Files <- TwoFiles
    OnDisk <- None
    MaxText = 2
    Unloadable <- FirstTextOfA
    Requests <- TwoRequests
    Workers <- TwoWorkers
    Stops = FALSE
    MaxSent = 2
SPECIFICATION Spec
INVARIANTS AnsweredOnce AnswersRight NothingForgotten
SYMMETRY Symmetry
CHECK_DEADLOCK FALSE
