\* All imports among three packages with all parents among four schemas, and all
\* parents and mixins among five schemas of one package.
CONSTANTS
    main = main  A = A  B = B  C = C  math = math  none = none
    s1 = s1  s2 = s2  s3 = s3  s4 = s4  t = t  m = m
    Pkgs = {main, A, B, C}
    MAIN_PKG = main
    Loaded = {main, A, B}
    Modules = {math}
    Schemas = {s1, s2, s3, s4, t, m}
    Mixins = {m}
    Decls <- Declarations
    NoSchema = none
    Programs <- AllPrograms
SPECIFICATION FairSpec
INVARIANTS PackagesInOrder ReportsCycles ScansDecide
PROPERTIES Terminates
CHECK_DEADLOCK FALSE
