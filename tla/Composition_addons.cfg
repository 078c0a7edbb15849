SPECIFICATION FairSpec
CONSTANTS
    Together <- ArgocdOrBackup
    StaleReady = FALSE
    MaxEdits = 1
    MaxFaults = 1
INVARIANT CRDsBeforeObjects XrReadyIsComplete
PROPERTY Converges
