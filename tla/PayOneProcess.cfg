SPECIFICATION Spec
CONSTANTS
    p1 = p1  p2 = p2  t1 = t1  t2 = t2  r1 = r1  r2 = r2  s1 = s1  s2 = s2  s3 = s3
    Processes = {p1}
    Threads = {t1, t2}
    Home <- OneProcess
    Requests = {r1}
    Prices = {1, 2}
    Sources = {s1, s2, s3}
    RawPerNano = 1
    Failed = Failed
    Dollars = {2}
    Rates = {2, 4}
    TTL = 1
    Window = 1
    None = None
    MaxClock = 2
    MaxPayments = 2
INVARIANT ApprovedPaysTheQuote
 
PROPERTY FloorNeverLowered
PROPERTY SpentMeansApproved
