SPECIFICATION Spec
CONSTANTS
    s1 = s1  s2 = s2
    Opening <- Balances
    Deposits <- NoDeposits
    SessionCap <- Mandates
    LastValid <- Expiries
    Accounts = {s1, s2}
    LastDay = 2
    Amounts = {0, 1, 2}
    Cap = 2
    Faults <- FaultsOfTwo
INVARIANT CapInv
INVARIANT SessionCapKept
INVARIANT SessionDayCapKept
PROPERTY ExpiredCostsOneSend
