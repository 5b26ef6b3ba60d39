SPECIFICATION FairSpec
CONSTANTS
    a1 = a1  a2 = a2  c1 = c1  c2 = c2
    Accounts = {a1, a2}
    Opening <- Balances
    Deposits <- Pending
    LastDay = 2
    Callers = {c1, c2}
    Amounts = {0, 1, 2}
    Cap = 2
    FaultSets <- FewOrAll
INVARIANT CapInv
INVARIANT DayCapKept
PROPERTY ReceiveLands
PROPERTY SendsWhatWasAsked
