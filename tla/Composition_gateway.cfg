SPECIFICATION Spec
CONSTANTS
    Together <- GatewayAddOns
    StaleReady = FALSE
    MaxEdits = 1
    MaxFaults = 1
INVARIANT TypeOK CRDsBeforeObjects FailureUninstallsNothing XrReadyIsComplete RestIsConverged ConvergedIsConfirmed
