CONSTANTS
    a1 = a1
    a2 = a2
    k1 = k1
    p1 = p1
    p2 = p2
    boot = boot
    NoPath = NoPath
    NoId = NoId
    NoComp = NoComp
    NoFp = NoFp
    NotPooled = NotPooled
    NoConn = NoConn
    Boot = boot
    Apps <- AppsMC
    Comps <- CompsMC
    Pos <- PosMC
    NameOf <- NameOfMC
    Actor <- ActorMC
    Home <- HomeMC
    Provides <- ProvidesMC
    Loads <- LoadsMC
    Pollers = {p1, p2}
    Editors = {k1}
    Selectors = {}
    Closers = {}
    Paths <- PathsMC
    Keys <- KeysMC
    Norm <- NormMC
    Names <- NamesMC
    Values <- ValuesMC
    PathOf <- PathOfMC
    TypeOf <- TypeOfMC
    ConnOf <- ConnOfMC
    OldWorlds <- OldWorldsMC
    OldEntries <- OldEntriesMC
    MaxChanges = 1
    MaxEdits = 1
SPECIFICATION FairSpec
INVARIANT TypeOK
INVARIANT SingleFlight
INVARIANT ElectedForFingerprint
INVARIANT ActiveHiddenOnlyByRace
INVARIANT ProvidedHiddenOnlyByUser
PROPERTY Converges
