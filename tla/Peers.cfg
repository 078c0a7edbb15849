SPECIFICATION FairSpec
CONSTANTS
    a = a
    b = b
    Off = Off
    None = None
    ControlPlane = {a, b}
    Word <- AllWords
    Id <- Ids
    Location <- OneRegion
    Offer <- Offers
    MaxEdits = 2
    MaxFaults = 1
INVARIANT TypeOK PeersKnown PeersReal NamesApart RestIsDelegated
PROPERTY PeersSettle
CHECK_DEADLOCK FALSE
