CONSTANTS
    None = None
    a1 = a1
    a2 = a2
    hot1 = hot1
    hot2 = hot2
    cold = cold
    Accounts = {a1, a2}
    HotPairs = {hot1, hot2}
    ColdPairs = {cold}
    Amounts = {0, 1}
    MaxSlot = 3
    Ledgers <- MCLedgers
    MaxFaults = 1
SPECIFICATION Spec
INVARIANT RetryMakesUp
CHECK_DEADLOCK FALSE
