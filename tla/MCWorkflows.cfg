SPECIFICATION Spec
CONSTANTS
    Instances = {"a", "b", "c", "d", "e"}
    Place <- MCPlace
    AppOf <- MCAppOf
    Children = {"b"}
    Found <- MCFound
    NoApp = "none"
    NoStatus = "all"
    NoSearch = "any"
    PageSize = 2
    MaxScan = 4
    Group <- MCGroup
    LoaderOf <- MCLoaderOf
    StoreLists <- MCStoreLists
    InitStores <- MCInitStores
    InitDb <- MCInitDb
    NoStore = "nostore"
    Offered = {"all", "Running"}
    Movers = {"b"}
    Persisted = {"nostore"}
    MaxFlights = 2
    MaxSteps = 3
INVARIANTS TypeOK WalkComplete SelectionSeen RemovedNotShown
PROPERTY ConfirmSettles
CHECK_DEADLOCK FALSE
