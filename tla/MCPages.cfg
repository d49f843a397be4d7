SPECIFICATION PagesSpec
CONSTANTS
    None = "none"
    Names = {"p", "q", "o"}
    Reserved = {"o"}
    TargetNames = {"t"}
    MaxEdits = 4
    Runs = {"r"}
    Composes = {"c"}
    NoKey = "none"
    MaxPid = 2
    MaxScans = 2
    MaxSteps = 3
    NoTarget = "none"
    Apps = {"a", "b"}
    Cps = {"s", "k"}
    CP_SERVICES = {"s"}
    Logged <- LoggedMC
    Stamp <- StampMC
    Level <- LevelMC
    Written <- WrittenMC
    Backfill = 2
    LINE_CAP = 3
    MaxWrites = 2
INVARIANTS
    PagesTypeOK
    TargetsSound
    Remembered
    StoppedStaysListed
    HiddenStays
    ViewFaithful
CHECK_DEADLOCK FALSE
