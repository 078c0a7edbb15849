SPECIFICATION Spec
CONSTANTS
    a = a
    b = b
    Off = Off
    None = None
    ControlPlane = {a, b}
    Word <- AllWords
    Id <- AmbiguousIds
    Location <- AmbiguousRegions
    Offer <- DefaultOffers
    MaxEdits = 0
    MaxFaults = 0
INVARIANT NamesApart
CHECK_DEADLOCK FALSE
