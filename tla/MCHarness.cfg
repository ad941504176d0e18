SPECIFICATION Spec
CONSTANTS
    None = None
    Torn = Torn
    Processes = {p, q}
    Captures <- MCCaptures
    Texts <- MCTexts
    Sweeps <- MCSweeps
    MaxJobs = 2
    MaxChanges = 1
INVARIANTS
    RegistryReproduces
    TableIsOnDisk
    BookSignalsAreTheReplays
SYMMETRY MCSymmetry
CHECK_DEADLOCK FALSE
