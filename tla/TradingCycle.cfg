SPECIFICATION Spec
CONSTANTS
    Symbols = {btc, eth}
    None = None
    Modes = {"execute", "notify"}
    Cooldown = 2
    SyncWindow = 1
    MaxFailures = 2
    MaxId = 2
INVARIANTS
    TypeOK
    OneSystemPosition
    PauseAdmitsOneEntry
PROPERTIES
    RecordedExitCoolsDown
    NotifyNeverTrades
    ImplementsPromise
CHECK_DEADLOCK FALSE
