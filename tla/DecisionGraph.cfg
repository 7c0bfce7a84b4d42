SPECIFICATION Spec
CONSTANTS
    None = None
    TrendWeight = 40
    MomentumWeight = 25
    VolumeWeight = 15
    EntryThreshold = 35
    Rsis = {20, 40, 60, 80, None}
    RetryAttempts = 2
INVARIANTS TypeOK EntryIsCleared VetoIsNamed RequestsAreBounded
PROPERTIES GraphReturns
CHECK_DEADLOCK FALSE
