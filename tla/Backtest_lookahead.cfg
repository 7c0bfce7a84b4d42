SPECIFICATION Spec
CONSTANTS
    None = None
    RewardRisk = 2
    NearTargetR = 16
    NearTargetTimeout = 4
    BreakevenR = 10
    TimeStopHours = 8
    TimeStopMinR = 5
    MaxHoldHours = 12
    TrailAtrMultiplier = 1
    First = 0
    Last = 3
    Prices = {9, 10, 11}
    Scores = {2, 1, 0}
    Atrs = {None, 1}
    Threshold = 2
    AtrMultiplier = 1
    BarHours = 1
    TrendLength = 4
    TrendOpens = {0}
    EntryOrder = "market"
    LimitTtl = 2
INVARIANT NoLookAhead
CHECK_DEADLOCK FALSE
