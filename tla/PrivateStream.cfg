SPECIFICATION FairSpec
CONSTANTS
    MaxOrders = 3
    RestWindow = 1
    MaxWire = 2
    MaxRows = 2
    NamedOrders = {2}
    NamedFills = {}
    Garbled <- MCGarbled
    Grants <- MCGrants
INVARIANTS TypeOK AcceptedIsStored GapIsCountedOnce
PROPERTIES MissedOrdersAreReported SymbolsGetKnown
