SPECIFICATION Spec
CONSTANTS
    Features <- K8gbOnly
    Scope <- AddressScope
    MaxEdits = 2
    MaxFaults = 0
INVARIANT AddressReleasedLast
CHECK_DEADLOCK FALSE
