SPECIFICATION FairSpec
CONSTANTS
    ControlPlane <- TwoControlPlanes
    Secret = {s1, s2}
    None = None
    InitialTimes <- OneAge
    MaxTime = 1
    MaxEdits = 2
    MaxFaults = 1
INVARIANT TypeOK NoUnrecordedSharing RestIsSettled
PROPERTY NeverHandsOverHeld LicenseKept Settles ImplementsRegistry
CHECK_DEADLOCK FALSE
