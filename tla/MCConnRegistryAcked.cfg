CONSTANTS
    p1 = p1
    p1b = p1b
    n1 = n1
    n2 = n2
    v1 = v1
    NoPath = NoPath
    NoId = NoId
    Paths <- PathsMC
    Keys <- KeysMC
    Norm <- NormMC
    Names <- NamesMC
    Values <- ValuesMC
    OldFiles <- OldFilesMC
SPECIFICATION Spec
INVARIANT AckedOnDisk
