SPECIFICATION FairSpec
CONSTANTS
    u1 = u1
    u2 = u2
    t1 = t1
    t2 = t2
    Sources = {fed}
    Press = {fed}
    Series = {fred}
    Tagged = {fed}
    Urls = {u1, u2}
    Texts = {t1, t2, empty}
    NoText = empty
    NoUrl = NoUrl
    Contents <- MCContents
    Cap = 2
INVARIANTS TypeOK IndexedIsSearchable PostgresFirst
PROPERTIES IndexedIsFinal ImplementsBacklog ObservationIsKept OfferedIsSettled
