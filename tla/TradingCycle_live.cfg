SPECIFICATION FairSpec
CONSTANTS
    Symbols = {btc}
    None = None
    Modes = {"execute"}
    Cooldown = 1
    SyncWindow = 1
    MaxFailures = 1
    MaxId = 1
PROPERTIES
    PhantomRowIsClosed
    DueExitIsExecuted
CHECK_DEADLOCK FALSE
