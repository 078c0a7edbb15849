SPECIFICATION Spec
CONSTANTS
    Together <- ArgocdOnly
    StaleReady = FALSE
    MaxEdits = 0
    MaxFaults = 0
INVARIANT ReportedReadyIsComplete
