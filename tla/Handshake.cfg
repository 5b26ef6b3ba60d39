SPECIFICATION FairSpec
CONSTANTS
    Lines = {"init", "noinit", "tools", "empty", "notools", "note", "error", "banner", "scalar", "junk"}
    Texts = {"server", "leftover"}
    Leftovers = TRUE
    MaxLines = 2
    MaxTexts = 2
CHECK_DEADLOCK FALSE
INVARIANT PumpInv
INVARIANT ServerTextReported
INVARIANT ServerStopped
INVARIANT HealthyPasses
PROPERTY Returns
