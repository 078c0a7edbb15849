SPECIFICATION FairSpec
CONSTANTS
    Together <- NoAddOns
    StaleReady = TRUE
    MaxEdits = 0
    MaxFaults = 0
PROPERTY XrBecomesReady
