SPECIFICATION Spec
CONSTANTS
    w1 = w1
    w2 = w2
    Wallets <- MCWallets
    Default <- w1
    None = None
    Unset = Unset
    MaxCalls = 2
    MaxEvents = 1
    MaxReloads = 1
CHECK_DEADLOCK FALSE
INVARIANTS Listed Agree
