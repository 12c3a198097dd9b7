SPECIFICATION Spec
CONSTANTS
    PageCount = 2
    MaxPages = 2
    MaxFiled = 5
    LastDay = 2
    MaxFailures = 2
INVARIANT SeenIsStored
PROPERTY TodayGetsStored
CHECK_DEADLOCK FALSE
