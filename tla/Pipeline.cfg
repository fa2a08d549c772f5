SPECIFICATION Spec
CONSTANTS
    Trace <- MCTrace
    ClassOf <- MCClassOf
    Tag <- MCTag
    NewTime <- MCNewTime
    Load <- MCLoad
    INIT_SIZE <- MC_INIT_SIZE
    Classes = 2
    MaxRuns = 3
    MaxLoads = 1
    MaxKills = 1
INVARIANTS
    RerunHeals
    ReportsAfterRebuilds
    LoadsRight
PROPERTY
    ProgramsEnd
CHECK_DEADLOCK FALSE
