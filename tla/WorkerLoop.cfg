SPECIFICATION FairSpec
CONSTANTS
    None = None
    alice = alice
    Users = {alice}
    Order <- MCOrder
    Recipients = 2
    Signals = {}
    Muted = {"hold", "refused"}
    MaxFailures = 2
INVARIANTS TypeOK ResumeIsNotForgotten NoRepeatedCard RecordedIsDelivered
PROPERTIES EverySymbolIsServed
