SPECIFICATION Spec
CHECK_DEADLOCK FALSE
CONSTANTS
    m1 = m1
    m2 = m2
    m3 = m3
    pay = pay
    Calls = {m1, m2, m3}
    Purchases = {pay}
    Amount = 2
    Typical = 1
    Floor = 2
    MaxInFlight = 2
    BurnCap = 2
    MaxSettles = 2
    Estimate = 1
    Scenarios <- Estimated
INVARIANTS
    ChargedOnce
