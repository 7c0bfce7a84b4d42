SPECIFICATION Spec
CONSTANTS
    None = None
    TrendWeight = 40
    MomentumWeight = 25
    VolumeWeight = 15
    EntryThreshold = 35
    Rsis = {20, 40, 60, 80, None}
    RetryAttempts = 2
INVARIANT AnomaliesAreVetoed
CHECK_DEADLOCK FALSE
