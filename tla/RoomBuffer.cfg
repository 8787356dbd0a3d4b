SPECIFICATION Spec
SYMMETRY RoomSymmetry
CONSTANTS
    Rooms = {ra, rb}
    Sizes <- FrameSizes
    MaxFrames = 2
    MaxBytes = 3
    MaxPushes = 3
    MaxFaults = 2
INVARIANTS
    TypeOK
    TotalIsBytes
    SnapshotInOrder
    RestartTransparent
    CountBounded
PROPERTIES
    CatchUpSpec
