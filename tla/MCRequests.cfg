CONSTANTS
    k1 = k1
    k2 = k2
    k3 = k3
    boot = boot
    v1 = v1
    v2 = v2
    v3 = v3
    NoPath = NoPath
    NoId = NoId
    NoComp = NoComp
    NoFp = NoFp
    NotPooled = NotPooled
    NoConn = NoConn
    Boot = boot
    Apps <- AppsMC
    Comps <- CompsMC
    Pos <- PosMC
    NameOf <- NameOfMC
    Actor <- ActorMC
    Home <- HomeMC
    Provides <- NoApps
    Loads <- NoApps
    Pollers = {}
    Editors = {k1, k2}
    Selectors = {k3}
    Closers = {k1}
    Paths <- PathsMC
    Keys <- KeysMC
    Norm <- NormMC
    Names <- NamesMC
    Values <- ValuesMC
    PathOf <- PathOfMC
    TypeOf <- TypeOfMC
    ConnOf <- ConnOfMC
    OldWorlds <- OldWorldsMC
    OldEntries <- OldEntriesMC
    MaxChanges = 0
    MaxEdits = 2
SPECIFICATION Spec
INVARIANT PooledIsCurrent
