\* Two builds at a time, two packages; edits between builds; builds may die.
CONSTANTS
    b1 = b1
    b2 = b2
    p1 = p1
    p2 = p2
    Procs = {b1, b2}
    Pkgs = {p1, p2}
    Kind <- Internal
    Versions = {1, 2, 3}
    First = 1
    EditsDuringBuild = FALSE
    Reverts = FALSE
    MaxEdits = 2
    MaxAborts = 2
    MaxBuilds = 4
SPECIFICATION FairSpec
CHECK_DEADLOCK FALSE
INVARIANTS LinksWholeObjects LinksCurrentSource NoLostInfo WaitsForFurther
PROPERTIES BuildsFinish
