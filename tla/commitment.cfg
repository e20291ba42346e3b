SPECIFICATION FairSpec
CONSTANTS
    s1 = s1
    s2 = s2
    Scorers <- MCScorers
    EntryLists <- MCEntryLists
    Orders <- MCOrders
    Epochs = {1, 2}
    EpochOfScorers = 1
    MaxFaults = 2
    None = None
    Torn = Torn
    BadHex = BadHex
INVARIANTS
    TypeOK
    PublishedRootsDecide
    PublishedIsSigned
PROPERTIES
    RerunPublishesTheSame
    TornIsRepaired
