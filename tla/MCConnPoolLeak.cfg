CONSTANTS
    c1 = c1
    c2 = c2
    c3 = c3
    i1 = i1
    i2 = i2
    s1 = s1
    s2 = s2
    s3 = s3
    NoSlot = NoSlot
    Callers <- CallersMC
    Ids <- IdsMC
    Slots <- SlotsMC
SPECIFICATION Spec
SYMMETRY Symm
INVARIANT NoLeak
