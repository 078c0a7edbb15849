SPECIFICATION FairSpec
CONSTANTS
    Together <- LicensedAddOns
    StaleReady = FALSE
    MaxEdits = 1
    MaxFaults = 1
INVARIANT CapabilitiesBacked FailureUninstallsNothing XrReadyIsComplete RestIsReady
PROPERTY Converges ReadyConditionsAgree
