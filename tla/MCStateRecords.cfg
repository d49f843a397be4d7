SPECIFICATION Spec
CONSTANTS
    Keys = {1, 2, 3, 4, 5, 6, 7}
    Internal = {2}
    AppOf <- MCAppOf
    Hits <- MCHits
    Values = {"v"}
    Absent = "absent"
    Stores = {"s1", "s2"}
    StoreLists <- MCStoreLists
    InitList <- MCInitList
    InitDb <- MCInitDb
    NoStore = "none"
    NoApp = "all"
    NoSearch = "any"
    NoKey = 0
    NoValue = ""
    PageSize = 2
    MaxScan = 4
    MaxRequests = 2
    MaxTurns = 5
    Movers = {1}
    Typed = {1, 3}
    MaxSteps = 3
INVARIANTS TypeOK DeletesTicked OffsetCounts
PROPERTY ReplacesKnowingly
CHECK_DEADLOCK FALSE
