SPECIFICATION ClientSpec
CONSTANTS
    c1 = c1  c2 = c2  t1 = t1  t2 = t2
    r1 = r1  r2 = r2  b1 = b1  b2 = b2
    Threads = {t1, t2}
    Requests = {r1, r2}
    Elsewhere = Elsewhere
    Blocks = {b1, b2}
    NumEndpoints = 2
    Faulty = {}
    SettleOpen = FALSE
    Steady = {t1}
    None = None
    Clients = {c1, c2}
    SteadyClients = {c1}
    Owner <- OneEach
INVARIANT ClientInv
PROPERTY PurchaseSpec
PROPERTY SteadyServed
