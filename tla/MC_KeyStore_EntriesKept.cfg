CONSTANTS
    r1 = r1
    r2 = r2
    r3 = r3
    e0 = e0
    NoValue = NoValue
    Runs <- MCRuns
    OldEntries <- MCOldEntries
    InitStores <- MCInitStores
    InitOverlays <- MCInitOverlays
    EntryArgs <- MCEntryArgs
    MaxCrashes <- MCMaxCrashes
    None <- NoValue
SYMMETRY MCSymmetry
SPECIFICATION Spec
INVARIANTS EntriesKept
CHECK_DEADLOCK FALSE
