\* Four schemas of one package, each of which may inherit from any other.
CONSTANTS
    main = main  A = A  B = B  C = C  math = math  none = none
    s1 = s1  s2 = s2  s3 = s3  s4 = s4  t = t  m = m
    Pkgs = {main}
    MAIN_PKG = main
    Loaded = {main}
    Modules = {math}
    Schemas = {s1, s2, s3, s4}
    Mixins = {}
    Decls <- FourSchemas
    NoSchema = none
    Programs <- PlainChains
SPECIFICATION Spec
INVARIANTS SeesAllAncestors
CHECK_DEADLOCK FALSE
