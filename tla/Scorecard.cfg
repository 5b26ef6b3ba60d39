SPECIFICATION Spec
CONSTANTS
    b1 = b1  b2 = b2  v1 = v1  lo = lo  hi = hi
    Builds = {b1, b2}
    Verifies = {v1}
    Journalled = {b1, b2, v1}
    Accounts = {"own", "other"}
    Own = {"own"}
    WriterLists = {{}, {"own"}}
    Figures = {"fee"}
    Values = {lo, hi}
    Dates = {1, 2}
    Counts = {0, 1}
    Missing = Missing
    Empty = Empty
    MaxReceipts = 1
    MaxRecords = 2
INVARIANT ScoreInv
INVARIANT FiguresInv
INVARIANT OwnAddsZero
INVARIANT ManifestAgrees
PROPERTY FailMeansNewer
PROPERTY PassMeansReproduced
SYMMETRY Symmetry
CHECK_DEADLOCK FALSE
