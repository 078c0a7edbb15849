SPECIFICATION Spec
CONSTANTS
    Together <- BackupAddOns
    StaleReady = FALSE
    MaxEdits = 0
    MaxFaults = 1
INVARIANT RestoredOnce
