\* Integers of 4 and 8 bits stand for i32 and i64.
SPECIFICATION Spec
CONSTANTS
    Bits32 = 4
    Bits64 = 8
    F32Max = 100
    Runs <- AllRuns
INVARIANTS ArithmeticExact PartsExact UnionExact InstanceExact UnionIsConstruction PlanConserves AcceptedRuns TypesCover
PROPERTY OnlyTargets
CHECK_DEADLOCK FALSE
