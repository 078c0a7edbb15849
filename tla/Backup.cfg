SPECIFICATION FairSpec
CONSTANTS
    ControlPlane = {"cp1", "cp2"}
    Ids <- SomeIds
    Letter <- Letters
    Digit <- Digits
    Dash = "-"
    G = "g"
    Lower <- LowerCase
    Suffix <- ShortSuffix
    Room = 2
    MinLen = 3
    MaxLen = 4
    MaxEdits = 2
    MaxFaults = 1
INVARIANT TypeOK AccountValid IdentityKept RestIsExact
PROPERTY IdentitiesSettle
CHECK_DEADLOCK FALSE
