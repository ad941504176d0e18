SPECIFICATION Spec
CONSTANTS
    None = None
    Torn = Torn
    Processes = {p}
    Captures <- MCCaptures
    Texts <- MCTexts
    Sweeps <- MCSweeps
    MaxJobs = 2
    MaxChanges = 2
INVARIANTS
    TallyCountsThePrints
CHECK_DEADLOCK FALSE
