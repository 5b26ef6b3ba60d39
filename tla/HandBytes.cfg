SPECIFICATION Spec
CONSTANTS
    Lines = {"init", "tools"}
    Texts = {"server", "junk"}
    Leftovers = FALSE
    MaxLines = 2
    MaxTexts = 2
CHECK_DEADLOCK FALSE
INVARIANT ServerTextReported
