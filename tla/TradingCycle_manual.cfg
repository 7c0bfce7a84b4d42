SPECIFICATION Spec
CONSTANTS
    Symbols = {btc}
    None = None
    Modes = {"execute", "notify"}
    Cooldown = 2
    SyncWindow = 1
    MaxFailures = 2
    MaxId = 2
PROPERTY ManualPositionsAreLeftAlone
CHECK_DEADLOCK FALSE
