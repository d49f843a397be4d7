SPECIFICATION Spec
CONSTANTS
    Ids = {i1, i2}
    Parent = 1
    Child = 2
    MaxTime = 1
    MaxEvents = 7
    MaxActs = 3
    MaxSteps = 8
INVARIANTS TypeOK PairsAreReal SelectionStays RemovesOpened
PROPERTY NoYank
SYMMETRY MCIds
CHECK_DEADLOCK FALSE
