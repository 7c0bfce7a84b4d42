SPECIFICATION Spec
CONSTANTS
    Symbols = {btc, doge}
    Entry = 20000
    Quantum = 2
    Dists <- MCDists
    RewardRisk = 2
    DisasterMultiplier = 3
    Contract <- MCContract
    PctUnit = 1000000
    Platform <- MCPlatform
    AccountLimits <- MCAccountLimits
    MaxDailyTrades = 1
    Balances <- MCBalances
    UserNotionals <- MCUserNotionals
    MaxUncounted = 1
INVARIANTS TypeOK DailyEntriesBounded
PROPERTIES EntryWithinRisk EntryFitsTotal
