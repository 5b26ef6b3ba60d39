SPECIFICATION Spec
CONSTANTS
    t1 = t1  t2 = t2  r1 = r1  r2 = r2  b1 = b1  b2 = b2
    Threads = {t1, t2}
    Requests = {r1, r2}
    Elsewhere = Elsewhere
    Blocks = {b1, b2}
    NumEndpoints = 2
    Faulty = {1}
    SettleOpen = TRUE
    Steady = {}
    None = None
SYMMETRY Symmetry
INVARIANT IInv
INVARIANT SettledIsPaid
INVARIANT ServedOnce
INVARIANT ServedIsSpent
