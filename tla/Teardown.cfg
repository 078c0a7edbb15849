SPECIFICATION FairSpec
CONSTANTS
    Features <- K8gbOnly
    Scope <- ChainScope
    MaxEdits = 1
    MaxFaults = 1
INVARIANT TypeOK ClusterOutlivesAddOns NetworkOutlivesCluster AddressReleasedLast NeverStuck
PROPERTY TeardownEnds
CHECK_DEADLOCK FALSE
